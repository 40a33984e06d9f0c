--------------------------- MODULE GraphQuery_proof ---------------------------
(***************************************************************************)
(* What a graph request answers with, for every wiki, request and limit:   *)
(* the view shows what it should; a walk answers with the nearest nodes,   *)
(* each joined to one before it; a lookup of markers with all who carry    *)
(* them; a search for paths with all there are, the shortest first.  And   *)
(* that a reader of a page loses nothing of it, for every page and budget. *)
(***************************************************************************)
EXTENDS GraphQuery, FocusedRead, FiniteSetTheorems, WellFoundedInduction, TLAPS

\* Of the request and the view, which no step changes
InputOK == IsInjective(request.start) /\ (Listing \/ request.start # <<>>)

\* A way from where the request starts, along edges it may go along
RealWay(w) ==
    /\ w.nodes # <<>> /\ w.nodes[1] \in ToSet(Starts)
    /\ Len(w.nodes) = Len(w.edges) + 1
    /\ \A i \in DOMAIN w.edges : w.edges[i] \in Between(w.nodes[i], w.nodes[i + 1])
GoodWay(w) ==
    /\ RealWay(w) /\ Len(w.edges) <= request.depth
    /\ Ways => IsInjective(w.nodes)

Pending == \A w \in ToSet(queue) : GoodWay(w)
\* What is followed goes on from a way with room for one more edge
Current ==
    todo # {} => /\ GoodWay(way) /\ todo \subseteq Adjacent(Last(way.nodes))
                 /\ ~Marked => Len(way.edges) < request.depth
Found == \A w \in ToSet(paths) : GoodWay(w) /\ Last(w.nodes) = request.target

Walks == ~Marked /\ ~Ways
\* The queue holds ways to nodes that are selected
Onto ==
    Walks => /\ \A w \in ToSet(queue) : Last(w.nodes) \in ToSet(selected)
             /\ todo # {} => Last(way.nodes) \in ToSet(selected)
\* Every node a walk selects is selected once, and the end of a way within the depth
SelectedAreReached ==
    Walks => /\ IsInjective(selected)
             /\ \A n \in ToSet(selected) : \E w \in Way : GoodWay(w) /\ Last(w.nodes) = n
\* Every one but those it starts at is joined to an earlier one by a used edge
SelectedAreJoined ==
    Walks => \A i \in DOMAIN selected :
                 i <= Len(Starts) \/ \E j \in 1..(i - 1), e \in ToSet(used) :
                                         e \in Between(selected[j], selected[i])

\* Only requests for paths have any; nothing is followed before the start
Phased == (paths # <<>> => Ways) /\ (phase = "ask" => todo = {})

GInv == /\ TypeOK /\ InputOK /\ Pending /\ Current /\ Found /\ Phased
        /\ Onto /\ SelectedAreReached /\ SelectedAreJoined

-----------------------------------------------------------------------------
\* A set of numbers has a least one
LEMMA MinIsLeast ==
    ASSUME NEW S \in SUBSET Nat, S # {}
    PROVE  Min(S) \in S /\ \A m \in S : Min(S) <= m
<1> DEFINE R == {ss \in Nat \X Nat : ss[1] < ss[2]}
<1>1. IsWellFoundedOn(R, Nat)
  BY NatLessThanWellFounded DEF OpToRel
<1>2. PICK n \in S : \A m \in S : <<m, n>> \notin R
  BY <1>1, WFMin
<1>3. ASSUME NEW m \in S PROVE n <= m
  <2>1. ~(m < n)
    <3>1. <<m, n>> \notin R /\ m \in Nat /\ n \in Nat
      BY <1>2
    <3> QED BY <3>1
  <2> QED BY <2>1
<1> QED BY <1>2, <1>3 DEF Min

\* A set of the numbers up to L that has 0, and with each number the next, has them all
LEMMA Upto ==
    ASSUME NEW L \in Nat, NEW N, 0 \in N, \A n \in 0..L : n \in N /\ n < L => n + 1 \in N
    PROVE  0..L \subseteq N
<1> SUFFICES ASSUME (0..L) \ N # {} PROVE FALSE
  OBVIOUS
<1> DEFINE m == Min((0..L) \ N)
<1>1. m \in (0..L) \ N /\ \A k \in (0..L) \ N : m <= k
  BY MinIsLeast
<1>2. m # 0 /\ m - 1 \in 0..L /\ ~(m <= m - 1)
  BY <1>1
<1>3. m - 1 \in N
  BY <1>1, <1>2
<1> QED BY <1>1, <1>2, <1>3

\* Where elements of sequences come from
LEMMA Elements ==
    ASSUME NEW S, NEW s \in Seq(S), NEW x \in S
    PROVE  /\ ToSet(Append(s, x)) = ToSet(s) \cup {x}
           /\ s # <<>> => /\ Head(s) \in ToSet(s) /\ Head(s) \in S
                          /\ ToSet(Tail(s)) \subseteq ToSet(s)
<1>1. ToSet(Append(s, x)) = ToSet(s) \cup {x}
  <2>1. Len(Append(s, x)) = Len(s) + 1 /\ Append(s, x)[Len(s) + 1] = x
        /\ \A i \in 1..Len(s) : Append(s, x)[i] = s[i]
    OBVIOUS
  <2>2. ToSet(Append(s, x)) \subseteq ToSet(s) \cup {x}
    BY <2>1 DEF ToSet
  <2>3. \A i \in 1..Len(s) : s[i] \in ToSet(Append(s, x))
    BY <2>1 DEF ToSet
  <2>4. x \in ToSet(Append(s, x))
    BY <2>1 DEF ToSet
  <2> QED BY <2>2, <2>3, <2>4 DEF ToSet
<1>2. ASSUME s # <<>>
      PROVE  Head(s) \in ToSet(s) /\ Head(s) \in S /\ ToSet(Tail(s)) \subseteq ToSet(s)
  BY <1>2 DEF ToSet
<1> QED BY <1>1, <1>2

LEMMA ElementOf ==
    ASSUME NEW S, NEW s \in Seq(S), NEW x \in ToSet(s)
    PROVE  x \in S
BY DEF ToSet

\* One step of Picked
PickStep(s, set, g, n) ==
    IF n = 0 THEN <<>> ELSE IF s[n] \in set THEN Append(g[n - 1], s[n]) ELSE g[n - 1]

LEMMA PickedExists ==
    ASSUME NEW S, NEW s \in Seq(S), NEW set
    PROVE  \E g : g = [n \in 0..Len(s) |-> PickStep(s, set, g, n)]
<1> DEFINE N == {l \in 0..Len(s) : \E g : g = [n \in 0..l |-> PickStep(s, set, g, n)]}
<1>1. 0 \in N
  <2> DEFINE g == [n \in 0..0 |-> <<>>]
  <2>1. g = [n \in 0..0 |-> PickStep(s, set, g, n)]
    BY DEF PickStep
  <2> QED BY <2>1
<1>2. ASSUME NEW l \in 0..Len(s), l \in N, l < Len(s) PROVE l + 1 \in N
  <2>1. PICK g : g = [n \in 0..l |-> PickStep(s, set, g, n)]
    BY <1>2
  <2> DEFINE h == [n \in 0..(l + 1) |-> IF n = l + 1 THEN PickStep(s, set, g, n) ELSE g[n]]
  <2>2. \A n \in 0..(l + 1) : PickStep(s, set, h, n) = PickStep(s, set, g, n)
    BY DEF PickStep
  <2>3. \A n \in 0..l : g[n] = PickStep(s, set, g, n)
    BY <2>1
  <2>4. \A n \in 0..(l + 1) : h[n] = PickStep(s, set, h, n)
    BY <2>2, <2>3
  <2>5. h = [n \in 0..(l + 1) |-> PickStep(s, set, h, n)]
    BY <2>4
  <2>6. l + 1 \in 0..Len(s)
    BY <1>2
  <2> QED BY <2>5, <2>6
<1>3. \A l \in 0..Len(s) : l \in N /\ l < Len(s) => l + 1 \in N
  BY <1>2, Zenon
<1>4. Len(s) \in Nat /\ Len(s) \in 0..Len(s)
  OBVIOUS
<1> HIDE DEF N
<1>5. 0..Len(s) \subseteq N
  BY <1>1, <1>3, <1>4, Upto, Zenon
<1>6. Len(s) \in N
  BY <1>4, <1>5
<1> QED BY <1>6 DEF N

\* The elements of a sequence that are in a set, in their order, and no other
LEMMA PickedIs ==
    ASSUME NEW S, NEW s \in Seq(S), NEW set
    PROVE  /\ Picked(s, set) \in Seq(S)
           /\ ToSet(Picked(s, set)) = ToSet(s) \cap set
<1> DEFINE G == CHOOSE g : g = [n \in 0..Len(s) |-> PickStep(s, set, g, n)]
<1>1. Picked(s, set) = G[Len(s)]
  BY DEF Picked, PickStep
<1>2. G = [n \in 0..Len(s) |-> PickStep(s, set, G, n)]
  BY PickedExists
<1> HIDE DEF G
<1> DEFINE N == {n \in 0..Len(s) :
                   /\ G[n] \in Seq(S)
                   /\ ToSet(G[n]) = {s[i] : i \in 1..n} \cap set}
<1>3. 0 \in N
  BY <1>2 DEF PickStep, ToSet
<1>4. ASSUME NEW n \in 0..Len(s), n \in N, n < Len(s) PROVE n + 1 \in N
  <2>1. n + 1 \in 1..Len(s) /\ s[n + 1] \in S
    BY <1>4
  <2>2. G[n + 1] = IF s[n + 1] \in set THEN Append(G[n], s[n + 1]) ELSE G[n]
    <3>1. G[n + 1] = PickStep(s, set, G, n + 1)
      BY <1>2, <2>1
    <3>2. n + 1 # 0 /\ (n + 1) - 1 = n
      BY <1>4
    <3> QED BY <3>1, <3>2 DEF PickStep
  <2>3. {s[i] : i \in 1..(n + 1)} = {s[i] : i \in 1..n} \cup {s[n + 1]}
    BY <2>1
  <2>4. G[n + 1] \in Seq(S)
    BY <1>4, <2>1, <2>2
  <2>5. CASE s[n + 1] \in set
    <3>1. G[n] \in Seq(S) /\ ToSet(G[n]) = {s[i] : i \in 1..n} \cap set
      BY <1>4
    <3>2. ToSet(Append(G[n], s[n + 1])) = ToSet(G[n]) \cup {s[n + 1]}
      BY <3>1, <2>1, Elements
    <3>3. ToSet(G[n + 1]) = {s[i] : i \in 1..(n + 1)} \cap set
      BY <2>2, <2>3, <2>5, <3>1, <3>2
    <3> QED BY <2>1, <2>4, <3>3
  <2>6. CASE s[n + 1] \notin set
    BY <1>4, <2>1, <2>2, <2>3, <2>4, <2>6
  <2> QED BY <2>5, <2>6
<1>5. \A n \in 0..Len(s) : n \in N /\ n < Len(s) => n + 1 \in N
  BY <1>4, Zenon
<1>6. Len(s) \in Nat /\ Len(s) \in 0..Len(s)
  OBVIOUS
<1> HIDE DEF N
<1>7. 0..Len(s) \subseteq N
  BY <1>3, <1>5, <1>6, Upto, Zenon
<1>8. Len(s) \in N
  BY <1>6, <1>7
<1> QED BY <1>1, <1>8 DEF N, ToSet

\* One step of FlattenSeq
FlattenStep(seqs, g, n) == IF n = 1 THEN seqs[n] ELSE g[n - 1] \o seqs[n]

LEMMA FlattenExists ==
    ASSUME NEW S, NEW seqs \in Seq(Seq(S))
    PROVE  \E g : g = [n \in 1..Len(seqs) |-> FlattenStep(seqs, g, n)]
<1> DEFINE N == {l \in 0..Len(seqs) : \E g : g = [n \in 1..l |-> FlattenStep(seqs, g, n)]}
<1>1. 0 \in N
  <2> DEFINE g == [n \in 1..0 |-> <<>>]
  <2>1. g = [n \in 1..0 |-> FlattenStep(seqs, g, n)]
    OBVIOUS
  <2>2. 0 \in 0..Len(seqs)
    OBVIOUS
  <2> HIDE DEF g
  <2> QED BY <2>1, <2>2
<1>2. ASSUME NEW l \in 0..Len(seqs), l \in N, l < Len(seqs) PROVE l + 1 \in N
  <2>1. PICK g : g = [n \in 1..l |-> FlattenStep(seqs, g, n)]
    BY <1>2
  <2> DEFINE h == [n \in 1..(l + 1) |-> IF n = l + 1 THEN FlattenStep(seqs, g, n) ELSE g[n]]
  <2>2. \A n \in 1..(l + 1) : FlattenStep(seqs, h, n) = FlattenStep(seqs, g, n)
    BY DEF FlattenStep
  <2>3. \A n \in 1..l : g[n] = FlattenStep(seqs, g, n)
    BY <2>1
  <2>4. \A n \in 1..(l + 1) : h[n] = FlattenStep(seqs, h, n)
    BY <2>2, <2>3
  <2>5. h = [n \in 1..(l + 1) |-> FlattenStep(seqs, h, n)]
    BY <2>4
  <2>6. l + 1 \in 0..Len(seqs)
    BY <1>2
  <2> QED BY <2>5, <2>6
<1>3. \A l \in 0..Len(seqs) : l \in N /\ l < Len(seqs) => l + 1 \in N
  BY <1>2, Zenon
<1>4. Len(seqs) \in Nat /\ Len(seqs) \in 0..Len(seqs)
  OBVIOUS
<1> HIDE DEF N
<1>5. 0..Len(seqs) \subseteq N
  BY <1>1, <1>3, <1>4, Upto, Zenon
<1>6. Len(seqs) \in N
  BY <1>4, <1>5
<1> QED BY <1>6 DEF N

LEMMA ConcatTypes == ASSUME NEW S, NEW s \in Seq(S), NEW t \in Seq(S) PROVE s \o t \in Seq(S)
OBVIOUS

LEMMA FlattenTypes ==
    ASSUME NEW S, NEW seqs \in Seq(Seq(S))
    PROVE  FlattenSeq(seqs) \in Seq(S)
<1>1. CASE Len(seqs) = 0
  BY <1>1 DEF FlattenSeq
<1>2. CASE Len(seqs) # 0
  <2> DEFINE G == CHOOSE g : g = [n \in 1..Len(seqs) |-> FlattenStep(seqs, g, n)]
  <2>1. FlattenSeq(seqs) = G[Len(seqs)]
    BY <1>2 DEF FlattenSeq, FlattenStep
  <2>2. G = [n \in 1..Len(seqs) |-> FlattenStep(seqs, G, n)]
    BY FlattenExists
  <2> HIDE DEF G
  <2> DEFINE N == {n \in 0..Len(seqs) : n > 0 => G[n] \in Seq(S)}
  <2>3. 0 \in N
    OBVIOUS
  <2>4. ASSUME NEW n \in 0..Len(seqs), n \in N, n < Len(seqs) PROVE n + 1 \in N
    <3>1. n + 1 \in 1..Len(seqs) /\ seqs[n + 1] \in Seq(S)
      BY <2>4
    <3>2. G[n + 1] = FlattenStep(seqs, G, n + 1)
      BY <2>2, <3>1
    <3>3. CASE n = 0
      BY <3>1, <3>2, <3>3 DEF FlattenStep
    <3>4. CASE n # 0
      <4>1. G[n] \in Seq(S)
        BY <2>4, <3>4
      <4>2. n + 1 # 1 /\ (n + 1) - 1 = n
        BY <3>4
      <4>3. G[n + 1] = G[n] \o seqs[n + 1]
        BY <3>2, <4>2 DEF FlattenStep
      <4>4. G[n] \o seqs[n + 1] \in Seq(S)
        BY <3>1, <4>1, ConcatTypes
      <4>5. n + 1 \in 0..Len(seqs)
        BY <3>1
      <4> QED BY <4>3, <4>4, <4>5
    <3> QED BY <3>3, <3>4
  <2>5. \A n \in 0..Len(seqs) : n \in N /\ n < Len(seqs) => n + 1 \in N
    BY <2>4, Zenon
  <2>6. Len(seqs) \in Nat /\ Len(seqs) \in 0..Len(seqs) /\ Len(seqs) > 0
    BY <1>2
  <2> HIDE DEF N
  <2>7. 0..Len(seqs) \subseteq N
    BY <2>3, <2>5, <2>6, Upto, Zenon
  <2>8. Len(seqs) \in N
    BY <2>6, <2>7
  <2> QED BY <2>1, <2>6, <2>8 DEF N
<1> QED BY <1>1, <1>2

\* Every edge stays once
LEMMA DedupedIs ==
    ASSUME NEW S, NEW edges \in Seq(S)
    PROVE  ToSet(Deduped(edges)) = ToSet(edges)
<1> DEFINE positions == [k \in DOMAIN edges |-> k]
           firsts == {k \in DOMAIN edges : \A j \in 1..(k - 1) : edges[j] # edges[k]}
           first == Picked(positions, firsts)
<1>1. positions \in Seq(Nat) /\ DOMAIN edges \subseteq Nat /\ ToSet(positions) = DOMAIN edges
  BY DEF ToSet
<1>2. first \in Seq(Nat) /\ ToSet(first) = ToSet(positions) \cap firsts
  BY <1>1, PickedIs
<1>3. ToSet(first) = firsts
  BY <1>1, <1>2
<1>4. Deduped(edges) = [i \in DOMAIN first |-> edges[first[i]]]
  BY DEF Deduped
<1> HIDE DEF first
<1>5. ToSet(Deduped(edges)) = {edges[k] : k \in ToSet(first)}
  BY <1>4 DEF ToSet
<1>6. ASSUME NEW k \in DOMAIN edges
      PROVE  \E m \in firsts : edges[m] = edges[k]
  <2> DEFINE alike == {m \in DOMAIN edges : edges[m] = edges[k]}
  <2>1. Min(alike) \in alike /\ \A m \in alike : Min(alike) <= m
    BY <1>1, MinIsLeast
  <2> DEFINE m == Min(alike)
  <2>2. m \in DOMAIN edges /\ edges[m] = edges[k] /\ m \in 1..Len(edges)
    BY <2>1
  <2>3. ASSUME NEW j \in 1..(m - 1) PROVE edges[j] # edges[m]
    <3>1. j \in DOMAIN edges /\ ~(m <= j)
      BY <2>2
    <3>2. j \notin alike
      BY <2>1, <3>1
    <3> QED BY <2>2, <3>1, <3>2
  <2> HIDE DEF m
  <2> QED BY <2>2, <2>3
<1>7. ToSet(edges) = {edges[k] : k \in DOMAIN edges}
  BY DEF ToSet
<1>8. firsts \subseteq DOMAIN edges
  OBVIOUS
<1> HIDE DEF firsts
<1> QED BY <1>3, <1>5, <1>6, <1>7, <1>8

\* A set of positions has a greatest
LEMMA MaxIsOne ==
    ASSUME NEW L \in Nat, NEW set \in SUBSET (1..L), set # {}
    PROVE  Max(set) \in set
<1> DEFINE behind == {n \in 0..L : L - n \in set}
<1>1. behind \subseteq Nat /\ behind # {}
  <2>1. PICK n \in set : TRUE
    OBVIOUS
  <2>2. L - n \in 0..L /\ L - (L - n) = n
    BY <2>1
  <2>3. L - n \in behind
    BY <2>1, <2>2
  <2>4. behind \subseteq Nat
    OBVIOUS
  <2> QED BY <2>3, <2>4
<1>2. Min(behind) \in behind /\ \A n \in behind : Min(behind) <= n
  BY <1>1, MinIsLeast
<1>3. \A n \in set : L - n \in behind
  OBVIOUS
<1>4. L - Min(behind) \in set /\ \A n \in set : L - Min(behind) >= n
  BY <1>2, <1>3
<1> QED BY <1>4 DEF Max

-----------------------------------------------------------------------------
(* What a view shows *)

\* What a projection says of the wiki: a page's node is shown as a page that has its id, and what
\* was named first by an approved page is joined to it by an edge
Projected(ix) ==
    /\ ix \in Index /\ ToSet(ix.order) = Pages
    /\ \A p \in Pages : LET first == ix.paths[ix.id[p]]
                       IN  first \in Pages /\ ix.id[first] = ix.id[p]
    /\ \A n \in Others : ix.paths[n] \in ix.approved => Approving(ix, n) # {}

LEMMA LinksTypes ==
    ASSUME NEW wiki \in Wiki
    PROVE  Links(wiki) \in Seq(Link)
<1>1. /\ wiki.order \in Seq(Pages) /\ wiki.names \in [Pages -> Seq(Name)]
      /\ wiki.parent \in [Pages -> Named \cup {None}] /\ wiki.sidecar \in Seq(Link)
  BY DEF Wiki
<1> DEFINE named == [i \in DOMAIN wiki.order |-> PageLinks(wiki, wiki.order[i])]
           parents == [i \in DOMAIN wiki.order |-> ParentLinks(wiki, wiki.order[i])]
<1>2. ASSUME NEW p \in Pages
      PROVE  PageLinks(wiki, p) \in Seq(Link) /\ ParentLinks(wiki, p) \in Seq(Link)
  <2>1. wiki.names[p] \in Seq(Name) /\ wiki.parent[p] \in Named \cup {None} /\ p \in Named
    BY <1>1 DEF Named
  <2>2. PageLinks(wiki, p) \in Seq(Link)
    <3> DEFINE names == wiki.names[p]
    <3>1. names \in Seq(Name)
      BY <2>1
    <3> HIDE DEF names
    <3>2. ASSUME NEW i \in DOMAIN names
          PROVE  [source |-> p, target |-> names[i].node, relation |-> names[i].relation] \in Link
      <4> DEFINE name == names[i]
      <4>1. name \in Name
        BY <3>1
      <4> HIDE DEF name
      <4>2. name.node \in Named /\ name.relation \in Relations
        BY <4>1 DEF Name
      <4>3. [source |-> p, target |-> name.node, relation |-> name.relation] \in Link
        BY <2>1, <4>2 DEF Link
      <4> QED BY <4>3 DEF name
    <3>3. Len(names) \in Nat /\ DOMAIN names = 1..Len(names)
      BY <3>1
    <3>4. [i \in DOMAIN names |-> [source |-> p, target |-> names[i].node,
                                   relation |-> names[i].relation]] \in Seq(Link)
      BY <3>2, <3>3
    <3> QED BY <3>4 DEF PageLinks, names
  <2>3. ParentLinks(wiki, p) \in Seq(Link)
    <3>1. CASE wiki.parent[p] = None
      BY <3>1 DEF ParentLinks
    <3>2. CASE wiki.parent[p] # None
      <4>1. [source |-> wiki.parent[p], target |-> p, relation |-> ParentOf] \in Link
        BY <2>1, <3>2, ProjectionAssumption DEF Link
      <4> QED BY <3>2, <4>1 DEF ParentLinks
    <3> QED BY <3>1, <3>2
  <2> QED BY <2>2, <2>3
<1>3. named \in Seq(Seq(Link)) /\ parents \in Seq(Seq(Link))
  <2>1. Len(wiki.order) \in Nat /\ DOMAIN wiki.order = 1..Len(wiki.order)
        /\ \A i \in DOMAIN wiki.order : wiki.order[i] \in Pages
    BY <1>1
  <2>2. \A i \in 1..Len(wiki.order) : /\ PageLinks(wiki, wiki.order[i]) \in Seq(Link)
                                     /\ ParentLinks(wiki, wiki.order[i]) \in Seq(Link)
    BY <1>2, <2>1
  <2> QED BY <2>1, <2>2
<1> HIDE DEF named, parents
<1>4. FlattenSeq(named) \in Seq(Link) /\ FlattenSeq(parents) \in Seq(Link)
  BY <1>3, FlattenTypes
<1>5. Links(wiki) = FlattenSeq(named) \o FlattenSeq(parents) \o wiki.sidecar
  BY DEF Links, named, parents
<1> QED BY <1>1, <1>4, <1>5

LEMMA ProjectionIs ==
    ASSUME NEW wiki \in Wiki, ToSet(wiki.order) = Pages, ProjectWiki(wiki) \in Index
    PROVE  Projected(ProjectWiki(wiki))
<1> DEFINE links == Links(wiki)
           joined == [k \in DOMAIN links |-> EdgeOfLink(wiki, links[k])]
           ix == ProjectWiki(wiki)
<1>1. links \in Seq(Link) /\ wiki.order \in Seq(Pages) /\ wiki.id \in [Pages -> Ids]
  BY LinksTypes DEF Wiki
<1> HIDE DEF links
<1>2. /\ ix.order = wiki.order /\ ix.id = wiki.id /\ ix.approved = wiki.approved
      /\ ix.edges = Deduped(joined) /\ ix.paths = [n \in Nodes |-> NodePath(wiki, links, n)]
  BY DEF ProjectWiki, links
<1>3. /\ wiki.approved \in SUBSET Pages
      /\ \A n \in Others : n \notin Ids /\ n \in Nodes /\ n \notin Pages
      /\ None \notin Pages
  BY ProjectionAssumption DEF Wiki, Nodes
<1>4. joined \in Seq({EdgeOfLink(wiki, l) : l \in Link})
  BY <1>1
<1>5. ToSet(ix.edges) = ToSet(joined)
  BY <1>2, <1>4, DedupedIs
<1> HIDE DEF ix
<1>6. ASSUME NEW p \in Pages
      PROVE  ix.paths[ix.id[p]] \in Pages /\ ix.id[ix.paths[ix.id[p]]] = ix.id[p]
  <2> DEFINE n == wiki.id[p]
             having == {i \in DOMAIN wiki.order : wiki.id[wiki.order[i]] = n}
  <2>1. n \in Ids /\ n \in Nodes
    BY <1>1 DEF Nodes
  <2>2. having # {} /\ having \subseteq Nat
    <3>1. PICK i \in DOMAIN wiki.order : wiki.order[i] = p
      BY DEF ToSet
    <3> QED BY <1>1, <3>1
  <2>3. Min(having) \in having
    BY <2>2, MinIsLeast
  <2>4. ix.paths[n] = wiki.order[Min(having)]
    BY <1>2, <2>1, <2>2 DEF NodePath
  <2>5. wiki.order[Min(having)] \in Pages /\ wiki.id[wiki.order[Min(having)]] = n
    <3> DEFINE i == Min(having)
    <3>1. i \in DOMAIN wiki.order /\ wiki.id[wiki.order[i]] = n
      BY <2>3
    <3> HIDE DEF i
    <3>2. wiki.order[i] \in Pages /\ wiki.id[wiki.order[i]] = n
      BY <1>1, <3>1
    <3> QED BY <3>2 DEF i
  <2> QED BY <1>2, <2>4, <2>5
<1>7. ASSUME NEW n \in Others, ix.paths[n] \in ix.approved
      PROVE  Approving(ix, n) # {}
  <2> DEFINE naming == {k \in DOMAIN links : n \in EndsOf(links[k])}
             k == Min(naming)
             page == ix.paths[n]
  <2>1. page \in Pages /\ page \in wiki.approved
    BY <1>2, <1>3, <1>7
  <2>2. naming # {} /\ page = PathAt(links[k])
    BY <1>2, <1>3, <2>1 DEF NodePath
  <2>3. k \in naming
    <3>1. naming \in SUBSET Nat
      BY <1>1
    <3> HIDE DEF naming
    <3> QED BY <2>2, <3>1, MinIsLeast
  <2>4. page \in EndsOf(links[k]) /\ n \in EndsOf(links[k])
    BY <1>3, <2>1, <2>2, <2>3 DEF PathAt
  <2>5. /\ NodeOf(wiki, n) = n /\ NodeOf(wiki, page) = wiki.id[page]
        /\ joined[k].source = NodeOf(wiki, links[k].source)
        /\ joined[k].target = NodeOf(wiki, links[k].target)
    BY <1>3, <2>1, <2>3 DEF NodeOf, EdgeOfLink
  <2>6. n \in EndsOf(joined[k]) /\ wiki.id[page] \in EndsOf(joined[k])
    BY <2>4, <2>5 DEF EndsOf
  <2>7. joined[k] \in ToSet(ix.edges)
    BY <1>5, <2>3 DEF ToSet
  <2>8. PICK e \in DOMAIN ix.edges : ix.edges[e] = joined[k]
    BY <2>7 DEF ToSet
  <2>9. wiki.id[page] \in IdsOf(ix, ix.approved)
    BY <1>2, <2>1 DEF IdsOf
  <2> QED BY <2>6, <2>8, <2>9 DEF Approving
<1>8. ix \in Index /\ ToSet(ix.order) = Pages
  BY <1>2 DEF ix
<1> QED BY <1>6, <1>7, <1>8 DEF Projected, ix

\* What is beside an approved page is shown with the path of one
LEMMA ApprovedPaths ==
    ASSUME NEW ix, Projected(ix), NEW n \in AdjacentNonPageNodes(ix)
    PROVE  ApprovedPath(ix, n) \in ix.approved
<1> DEFINE joining == Approving(ix, n)
           edge == ix.edges[Min(joining)]
           id == CHOOSE x \in EndsOf(edge) : x \in IdsOf(ix, ix.approved)
           having == {i \in DOMAIN ix.order :
                         ix.order[i] \in ix.approved /\ ix.id[ix.order[i]] = id}
<1>1. /\ ix.edges \in Seq(Edge) /\ ix.order \in Seq(Pages) /\ ix.approved \in SUBSET Pages
      /\ ToSet(ix.order) = Pages
  BY DEF Projected, Index
<1>2. joining # {} /\ joining \in SUBSET Nat
  BY <1>1 DEF AdjacentNonPageNodes, Approving
<1>3. Min(joining) \in joining
  BY <1>2, MinIsLeast
<1>4. EndsOf(edge) \cap IdsOf(ix, ix.approved) # {}
  BY <1>3 DEF Approving
<1>5. id \in IdsOf(ix, ix.approved)
  BY <1>4
<1> HIDE DEF id
<1>6. PICK p \in ix.approved : ix.id[p] = id
  BY <1>5 DEF IdsOf
<1>7. PICK i \in DOMAIN ix.order : ix.order[i] = p
  BY <1>1, <1>6 DEF ToSet
<1>8. Len(ix.order) \in Nat /\ having \in SUBSET (1..Len(ix.order)) /\ having # {}
  BY <1>1, <1>6, <1>7
<1>9. Max(having) \in having
  BY <1>8, MaxIsOne
<1>10. ApprovedPath(ix, n) = ApprovedPage(ix, id)
  BY DEF ApprovedPath, id
<1>11. ApprovedPage(ix, id) = ix.order[Max(having)]
  BY DEF ApprovedPage
<1> QED BY <1>9, <1>10, <1>11

\* What of the input no step changes
ViewShown == Projected(index) /\ request \in Request /\ view = View(index, request.drafts)

LEMMA ShownIsView == ASSUME ViewShown PROVE ApprovedOnly
<1> DEFINE edges == index.edges
           shown == view.nodes
<1>1. /\ edges \in Seq(Edge) /\ index.approved \in SUBSET Pages /\ index.id \in [Pages -> Ids]
      /\ \A n \in Ids : n \notin Others
  BY ProjectionAssumption DEF ViewShown, Projected, Index
<1>2. \A n \in Approved : n \in Ids /\ n \in IdsOf(index, Pages) /\ n \notin Others
  BY <1>1 DEF Approved, IdsOf
<1>3. shown = Shown
  <2>1. CASE request.drafts
    <3>1. shown = NodesOf(index)
      BY <2>1 DEF ViewShown, View
    <3> QED BY <1>1, <2>1, <3>1 DEF NodesOf, Shown, ToSet
  <2>2. CASE ~request.drafts
    <3>1. shown = VisibleNodes(index)
      BY <2>2 DEF ViewShown, View
    <3>2. \A n \in Others : n \in AdjacentNonPageNodes(index) <=>
             \E e \in ToSet(edges) : n \in EndsOf(e) /\ EndsOf(e) \cap Approved # {}
      BY <1>1 DEF AdjacentNonPageNodes, Approving, Approved, ToSet
    <3>3. \A n \in AdjacentNonPageNodes(index) : n \in Others /\ n \in NodesOf(index)
      BY DEF AdjacentNonPageNodes, Approving, NodesOf
    <3>4. \A n \in Approved : n \in NodesOf(index)
      BY <1>2 DEF NodesOf
    <3>5. ASSUME NEW n \in NodesOf(index), index.paths[n] \in index.approved
          PROVE  n \in Approved \/ n \in AdjacentNonPageNodes(index)
      <4>1. CASE n \in Others
        BY <3>5, <4>1 DEF AdjacentNonPageNodes, ViewShown, Projected
      <4>2. CASE n \notin Others
        <5>1. PICK p \in Pages : n = index.id[p]
          BY <4>2 DEF NodesOf, IdsOf
        <5>2. index.id[index.paths[n]] = n
          BY <5>1 DEF ViewShown, Projected
        <5> QED BY <3>5, <5>2 DEF Approved, IdsOf
      <4> QED BY <4>1, <4>2
    <3>6. shown = Approved \cup AdjacentNonPageNodes(index)
      BY <3>1, <3>3, <3>4, <3>5 DEF VisibleNodes, Approved
    <3> QED BY <2>2, <3>2, <3>3, <3>6 DEF Shown
  <2> QED BY <2>1, <2>2
<1>4. ToSet(view.edges) = {e \in ToSet(edges) : EndsOf(e) \subseteq Shown}
  <2> DEFINE set == {e \in Edge : EndsOf(e) \subseteq Shown}
  <2>1. view.edges = EdgesBetween(edges, view.nodes)
    BY DEF ViewShown, View
  <2>2. view.edges = Picked(edges, set)
    BY <1>3, <2>1 DEF EdgesBetween
  <2>3. ToSet(view.edges) = ToSet(edges) \cap set
    BY <1>1, <2>2, PickedIs
  <2>4. ToSet(edges) \subseteq Edge
    BY <1>1 DEF ToSet
  <2> QED BY <2>3, <2>4
<1>5. ASSUME ~request.drafts, NEW n \in view.nodes
      PROVE  LET page == view.paths[n]
             IN  \/ page \in index.approved
                 \/ n \in Approved /\ page \in Pages /\ Shares(page) /\ index.id[page] = n
  <2>1. view.paths[n] = ApprovedPath(index, n)
    BY <1>5 DEF ViewShown, View
  <2>2. n \in Approved \/ n \in Others
    BY <1>3, <1>5 DEF Shown
  <2>3. CASE n \in AdjacentNonPageNodes(index)
    BY <2>1, <2>3, ApprovedPaths DEF ViewShown
  <2>4. CASE n \notin AdjacentNonPageNodes(index)
    <3>1. view.paths[n] = index.paths[n]
      BY <2>1, <2>4 DEF ApprovedPath
    <3>2. CASE n \in Approved
      <4>1. PICK p \in Pages : n = index.id[p]
        BY <1>1, <3>2 DEF Approved, IdsOf
      <4>2. index.paths[n] \in Pages /\ index.id[index.paths[n]] = n
        BY <4>1 DEF ViewShown, Projected
      <4> QED BY <3>1, <3>2, <4>2 DEF Shares
    <3>3. CASE n \in Others
      <4>1. shown = VisibleNodes(index)
        BY <1>5 DEF ViewShown, View
      <4>2. n \notin Approved
        BY <1>2, <3>3
      <4> QED BY <1>5, <2>4, <3>1, <4>1, <4>2 DEF VisibleNodes, Approved
    <3> QED BY <2>2, <3>2, <3>3
  <2> QED BY <2>3, <2>4
<1> QED BY <1>3, <1>4, <1>5 DEF ApprovedOnly

LEMMA ViewIsShown == ASSUME Init PROVE ViewShown
<1>1. index \in Index /\ request \in Request /\ view = View(index, request.drafts)
  BY DEF Init
<1>2. PICK wiki \in Wiki : ToSet(wiki.order) = Pages /\ index = ProjectWiki(wiki)
  BY DEF Init
<1>3. Projected(index)
  BY <1>1, <1>2, ProjectionIs
<1> QED BY <1>1, <1>3 DEF ViewShown

\* Without drafts a request sees nothing of a page that is not approved, whatever the wiki names:
\* no node, no edge, no path of one, unless a draft has the id of an approved page.
\* (service.py approved_graph_view.)
THEOREM ApprovedIsShown == Spec => []ApprovedOnly
<1>1. Init => ViewShown
  BY ViewIsShown
<1>2. ViewShown /\ [Next]_vars => ViewShown'
  <2> SUFFICES ASSUME ViewShown, [Next]_vars PROVE ViewShown'
    OBVIOUS
  <2>1. index' = index /\ view' = view /\ request' = request
    BY DEF Next, vars, input, Refuse, StartWalk, StartPaths, Take, Follow, FollowPath, Respond
  <2> QED BY <2>1 DEF ViewShown
<1> QED BY <1>1, <1>2, ShownIsView, PTL DEF Spec

-----------------------------------------------------------------------------
\* What depends on the request and the view alone stays
LEMMA InputStays ==
    ASSUME UNCHANGED input, NEW w, NEW n, NEW m
    PROVE  /\ Between(n, m)' = Between(n, m)
           /\ Adjacent(n)' = Adjacent(n)
           /\ Starts' = Starts /\ E' = E /\ Way' = Way
           /\ Ways' = Ways /\ Marked' = Marked /\ Walks' = Walks
           /\ GoodWay(w)' = GoodWay(w)
<1>1. UNCHANGED <<index, view, request>>
  BY DEF input
<1>2. \A a, b : Between(a, b)' = Between(a, b)
  BY <1>1 DEF Between, Allowed, Direction, Marked
<1>3. Adjacent(n)' = Adjacent(n)
  BY <1>1 DEF Adjacent, From, To, Forward, EdgeOf, E, Allowed, Direction, Marked
<1>4. Starts' = Starts /\ E' = E /\ Way' = Way /\ Ways' = Ways /\ Marked' = Marked /\ Walks' = Walks
  BY <1>1 DEF Starts, StartNode, Listing, E, Way, Ways, Marked, Walks
<1>5. GoodWay(w)' = GoodWay(w)
  BY <1>1, <1>2, <1>4 DEF GoodWay, RealWay
<1> QED BY <1>2, <1>3, <1>4, <1>5

\* An end of an edge leads from the node along an edge the request may go along
LEMMA AdjacentLeads ==
    ASSUME TypeOK, NEW n, NEW k \in Adjacent(n)
    PROVE  k \in 1..(2 * E) /\ EdgeOf(k) \in 1..E /\ To(k) \in Nodes
           /\ EdgeOf(k) \in Between(n, To(k))
<1> DEFINE e == EdgeOf(k)
<1>1. view.edges \in Seq(Edge) /\ E \in Nat /\ DOMAIN view.edges = 1..E
  BY DEF TypeOK, E
<1>2. k \in 1..(2 * E) /\ From(k) = n /\ Allowed(view.edges[e])
      /\ Direction \in {"both", IF Forward(k) THEN "out" ELSE "in"}
  BY DEF Adjacent
<1>3. e \in 1..E
  BY <1>1, <1>2 DEF EdgeOf
<1>4. view.edges[e] \in Edge
  BY <1>1, <1>3
<1>5. To(k) \in Nodes
  BY <1>4 DEF To, Edge
<1>6. e \in Between(n, To(k))
  BY <1>1, <1>2, <1>3 DEF Between, From, To
<1> QED BY <1>2, <1>3, <1>5, <1>6
-----------------------------------------------------------------------------
(* The first steps *)

LEMMA InitHolds == Init => GInv
<1> SUFFICES ASSUME Init PROVE GInv
  OBVIOUS
<1>1. index \in Index /\ request \in Request /\ view \in Views
  BY DEF Init
<1>2. view.nodes \subseteq Nodes /\ view.edges \in Seq(Edge)
  BY <1>1 DEF Views
<1>3. queue = <<>> /\ way = NoWay /\ todo = {} /\ selected = <<>> /\ used = <<>>
      /\ paths = <<>> /\ phase = "ask"
  BY DEF Init
<1>4. way \in Way
  BY <1>3 DEF NoWay, Way
<1>5. TypeOK
  BY <1>1, <1>2, <1>3, <1>4 DEF TypeOK
<1>6. InputOK
  BY DEF Init, InputOK
<1>7. Pending /\ Current /\ Found /\ Phased /\ Onto /\ SelectedAreReached /\ SelectedAreJoined
  BY <1>3 DEF Pending, Current, Found, Phased, Onto, SelectedAreReached, SelectedAreJoined, ToSet,
              IsInjective
<1> QED BY <1>5, <1>6, <1>7 DEF GInv

\* The way of one node
LEMMA StartIsGood ==
    ASSUME TypeOK, InputOK, NEW n \in Nodes, n \in ToSet(Starts)
    PROVE  At(n) \in Way /\ GoodWay(At(n)) /\ Last(At(n).nodes) = n
<1>1. request.depth \in Nat
  BY QueryAssumption DEF TypeOK, Request
<1>2. At(n).nodes = <<n>> /\ At(n).edges = <<>>
  BY DEF At
<1>3. At(n) \in Way
  BY DEF At, Way
<1>4. GoodWay(At(n))
  BY <1>1, <1>2 DEF GoodWay, RealWay, IsInjective
<1>5. Last(At(n).nodes) = n
  BY <1>2 DEF Last
<1> QED BY <1>3, <1>4, <1>5

\* One more edge
LEMMA OnwardIsGood ==
    ASSUME TypeOK, Current, NEW k \in todo, ~Marked,
           Ways => ~Again(k)
    PROVE  Onward(k) \in Way /\ GoodWay(Onward(k)) /\ Last(Onward(k).nodes) = To(k)
<1> DEFINE o == Onward(k)
<1>1. way \in Way /\ way.nodes \in Seq(Nodes) /\ way.edges \in Seq(1..E)
  BY DEF TypeOK, Way
<1>2. GoodWay(way) /\ k \in Adjacent(Last(way.nodes)) /\ Len(way.edges) < request.depth
  BY DEF Current
<1>3. EdgeOf(k) \in 1..E /\ To(k) \in Nodes /\ EdgeOf(k) \in Between(Last(way.nodes), To(k))
  BY <1>2, AdjacentLeads
<1>4. o.nodes = Append(way.nodes, To(k)) /\ o.edges = Append(way.edges, EdgeOf(k))
  BY DEF Onward
<1>5. o.nodes \in Seq(Nodes) /\ o.edges \in Seq(1..E)
  BY <1>1, <1>3, <1>4
<1>6. o \in Way
  BY <1>5 DEF Onward, Way
<1>7. Len(way.nodes) = Len(way.edges) + 1 /\ way.nodes # <<>>
  BY <1>2 DEF GoodWay, RealWay
<1>8. Len(o.nodes) = Len(way.nodes) + 1 /\ Len(o.edges) = Len(way.edges) + 1
      /\ o.nodes[Len(o.nodes)] = To(k)
  BY <1>1, <1>3, <1>4
<1>9. \A i \in 1..Len(way.nodes) : o.nodes[i] = way.nodes[i]
  BY <1>1, <1>3, <1>4
<1>10. \A i \in 1..Len(way.edges) : o.edges[i] = way.edges[i]
  BY <1>1, <1>3, <1>4
<1>11. o.edges[Len(o.edges)] = EdgeOf(k)
  BY <1>1, <1>3, <1>4
<1>12. RealWay(o)
  <2>1. o.nodes # <<>> /\ o.nodes[1] \in ToSet(Starts)
    <3>1. Len(way.nodes) >= 1 /\ way.nodes[1] \in ToSet(Starts)
      BY <1>1, <1>2, <1>7 DEF GoodWay, RealWay
    <3>2. o.nodes[1] = way.nodes[1]
      BY <1>1, <1>9, <3>1
    <3> QED BY <3>1, <3>2, <1>5, <1>8
  <2>2. Len(o.nodes) = Len(o.edges) + 1
    BY <1>1, <1>7, <1>8
  <2>3. ASSUME NEW i \in DOMAIN o.edges
        PROVE  o.edges[i] \in Between(o.nodes[i], o.nodes[i + 1])
    <3>1. i \in 1..(Len(way.edges) + 1)
      BY <1>1, <1>5, <1>8
    <3>2. CASE i \in 1..Len(way.edges)
      <4>1. way.edges[i] \in Between(way.nodes[i], way.nodes[i + 1])
        BY <1>1, <1>2, <3>2 DEF GoodWay, RealWay
      <4>2. i \in 1..Len(way.nodes) /\ i + 1 \in 1..Len(way.nodes)
        BY <1>1, <1>7, <3>2
      <4> QED BY <4>1, <4>2, <3>2, <1>9, <1>10
    <3>3. CASE i = Len(way.edges) + 1
      <4>1. o.edges[i] = EdgeOf(k) /\ o.nodes[i + 1] = To(k)
        BY <1>1, <1>7, <1>8, <1>11, <3>3
      <4>2. o.nodes[i] = Last(way.nodes)
        BY <1>1, <1>7, <1>9, <3>3 DEF Last
      <4> QED BY <4>1, <4>2, <1>3
    <3> QED BY <1>1, <3>1, <3>2, <3>3
  <2> QED BY <2>1, <2>2, <2>3 DEF RealWay
<1>13. Len(o.edges) <= request.depth
  BY <1>1, <1>2, <1>8, QueryAssumption DEF TypeOK, Request
<1>14. ASSUME Ways PROVE IsInjective(o.nodes)
  <2>1. IsInjective(way.nodes)
    BY <1>2, <1>14 DEF GoodWay
  <2>2. \A i \in DOMAIN way.nodes : way.nodes[i] # To(k)
    BY <1>14 DEF Again, ToSet
  <2>3. DOMAIN o.nodes = 1..(Len(way.nodes) + 1) /\ DOMAIN way.nodes = 1..Len(way.nodes)
    BY <1>1, <1>5, <1>8
  <2>4. o.nodes[Len(way.nodes) + 1] = To(k)
    BY <1>8
  <2>5. ASSUME NEW i \in DOMAIN o.nodes, NEW j \in DOMAIN o.nodes, o.nodes[i] = o.nodes[j]
        PROVE  i = j
    <3>1. CASE i \in DOMAIN way.nodes /\ j \in DOMAIN way.nodes
      BY <1>9, <2>1, <2>3, <2>5, <3>1 DEF IsInjective
    <3>2. CASE i \in DOMAIN way.nodes /\ j = Len(way.nodes) + 1
      BY <1>9, <2>2, <2>3, <2>4, <2>5, <3>2
    <3>3. CASE i = Len(way.nodes) + 1 /\ j \in DOMAIN way.nodes
      BY <1>9, <2>2, <2>3, <2>4, <2>5, <3>3
    <3>4. Len(way.nodes) \in Nat
      BY <1>1, <1>5
    <3> QED BY <2>3, <3>1, <3>2, <3>3, <3>4
  <2> QED BY <2>5 DEF IsInjective
<1>15. Last(o.nodes) = To(k)
  BY <1>8 DEF Last
<1> QED BY <1>6, <1>12, <1>13, <1>14, <1>15 DEF GoodWay

-----------------------------------------------------------------------------
(* Every step *)

LEMMA TypesStay == ASSUME GInv, [Next]_vars PROVE TypeOK'
<1> USE DEF GInv
<1>1. CASE UNCHANGED vars
  BY <1>1 DEF vars, TypeOK, Way, E
<1>2. CASE Refuse
  BY <1>2 DEF Refuse, input, TypeOK, Way, E
<1>3. CASE StartWalk
  <2>1. Starts \in Seq(Nodes)
    BY <1>3 DEF TypeOK, Request, Starts, StartNode, InputOK, Listing
  <2>2. queue' \in Seq(Way)
    <3>1. \A i \in DOMAIN Starts : At(Starts[i]) \in Way
      BY <2>1 DEF At, Way
    <3>2. queue' = [i \in 1..Len(Starts) |-> At(Starts[i])] /\ Len(Starts) \in Nat
      BY <1>3, <2>1 DEF StartWalk
    <3> QED BY <2>1, <3>1, <3>2
  <2>3. selected' \in Seq(Nodes)
    BY <1>3, <2>1 DEF StartWalk
  <2> QED BY <1>3, <2>2, <2>3 DEF StartWalk, input, TypeOK, Way, E
<1>4. CASE StartPaths
  <2>1. StartNode \in Nodes
    BY <1>4 DEF StartPaths, TypeOK, Request, StartNode, InputOK, Listing, Ways
  <2>2. At(StartNode) \in Way
    BY <2>1 DEF At, Way
  <2>3. queue' \in Seq(Way) /\ paths' \in Seq(Way)
    <3>1. queue \in Seq(Way) /\ paths \in Seq(Way) /\ <<At(StartNode)>> \in Seq(Way)
      BY <2>2 DEF TypeOK
    <3>2. queue' \in {queue, <<At(StartNode)>>} /\ paths' \in {paths, <<At(StartNode)>>}
      BY <1>4 DEF StartPaths
    <3> QED BY <3>1, <3>2
  <2>4. phase' \in {"walk", "answered"}
    BY <1>4 DEF StartPaths
  <2> QED BY <1>4, <2>3, <2>4 DEF StartPaths, input, TypeOK, Way, E
<1>5. CASE Take
  <2>1. Head(queue) \in Way /\ Tail(queue) \in Seq(Way)
    BY <1>5 DEF Take, TypeOK
  <2>2. todo' \subseteq 1..(2 * E)
    BY <1>5 DEF Take, Adjacent
  <2>3. selected' \in Seq(Nodes)
    <3>1. CASE Marked
      <4>1. Head(queue).nodes # <<>> /\ Head(queue).nodes \in Seq(Nodes)
        <5>1. Head(queue) = queue[1] /\ 1 \in DOMAIN queue
          BY <1>5 DEF Take, TypeOK
        <5>2. GoodWay(queue[1])
          BY <5>1 DEF Pending, ToSet
        <5> QED BY <5>1, <5>2, <2>1 DEF GoodWay, RealWay, Way
      <4>2. Last(Head(queue).nodes) \in Nodes
        BY <4>1 DEF Last
      <4>3. selected' \in {selected, Append(selected, Last(Head(queue).nodes))}
        BY <1>5, <3>1 DEF Take
      <4>4. selected \in Seq(Nodes)
        BY DEF TypeOK
      <4>5. Append(selected, Last(Head(queue).nodes)) \in Seq(Nodes)
        BY <4>2, <4>4
      <4> QED BY <4>3, <4>4, <4>5
    <3>2. CASE ~Marked
      BY <1>5, <3>2 DEF Take, TypeOK
    <3> QED BY <3>1, <3>2
  <2> QED BY <1>5, <2>1, <2>2, <2>3 DEF Take, input, TypeOK, Way, E
<1>6. CASE Follow
  <2> DEFINE k == Min(todo)
  <2>1. k \in todo
    <3>1. todo \in SUBSET Nat /\ todo # {}
      BY <1>6 DEF Follow, TypeOK, E
    <3> QED BY <3>1, MinIsLeast
  <2>2. k \in Adjacent(Last(way.nodes))
    BY <1>6, <2>1 DEF Current, Follow
  <2>3. EdgeOf(k) \in 1..E /\ To(k) \in Nodes
    BY <2>2, AdjacentLeads
  <2>4. used' \in Seq(1..E)
    <3>1. used' \in {used, Append(used, EdgeOf(k))}
      BY <1>6 DEF Follow
    <3>2. used \in Seq(1..E)
      BY DEF TypeOK
    <3>3. Append(used, EdgeOf(k)) \in Seq(1..E)
      BY <2>3, <3>2
    <3> QED BY <3>1, <3>2, <3>3
  <2>5. selected' \in Seq(Nodes)
    <3>1. selected' \in {selected, Append(selected, To(k))}
      BY <1>6 DEF Follow
    <3>2. selected \in Seq(Nodes)
      BY DEF TypeOK
    <3>3. Append(selected, To(k)) \in Seq(Nodes)
      BY <2>3, <3>2
    <3> QED BY <3>1, <3>2, <3>3
  <2>6. queue' \in Seq(Way)
    <3>1. CASE Marked
      BY <1>6, <3>1 DEF Follow, TypeOK
    <3>2. CASE ~Marked
      <4>1. Onward(k) \in Way
        BY <1>6, <2>1, <3>2, OnwardIsGood DEF Follow
      <4> QED BY <1>6, <4>1 DEF Follow, TypeOK
    <3> QED BY <3>1, <3>2
  <2>7. todo' \subseteq 1..(2 * E)
    BY <1>6 DEF Follow, TypeOK
  <2> QED BY <1>6, <2>4, <2>5, <2>6, <2>7 DEF Follow, input, TypeOK, Way, E
<1>7. CASE FollowPath
  <2> DEFINE k == Min(todo)
  <2>1. k \in todo
    <3>1. todo \in SUBSET Nat /\ todo # {}
      BY <1>7 DEF FollowPath, TypeOK, E
    <3> QED BY <3>1, MinIsLeast
  <2>2. ~Again(k) => Onward(k) \in Way
    BY <1>7, <2>1, OnwardIsGood DEF FollowPath, Ways, Marked
  <2>3. queue' \in Seq(Way) /\ paths' \in Seq(Way)
    BY <1>7, <2>2 DEF FollowPath, TypeOK
  <2>4. todo' \subseteq 1..(2 * E)
    BY <1>7 DEF FollowPath, TypeOK
  <2> QED BY <1>7, <2>3, <2>4 DEF FollowPath, input, TypeOK, Way, E
<1>8. CASE Respond
  BY <1>8 DEF Respond, input, TypeOK, Way, E
<1> QED BY <1>1, <1>2, <1>3, <1>4, <1>5, <1>6, <1>7, <1>8 DEF Next

LEMMA PathsStay == ASSUME GInv, [Next]_vars PROVE Pending' /\ Current' /\ Found'
<1> USE DEF GInv
<1>0. UNCHANGED input
  BY DEF Next, vars, input, Refuse, StartWalk, StartPaths, Take, Follow, FollowPath, Respond
<1>a. /\ Starts' = Starts /\ Ways' = Ways /\ Marked' = Marked
      /\ \A w : GoodWay(w)' = GoodWay(w)
      /\ \A n : Adjacent(n)' = Adjacent(n)
      /\ request' = request
  BY <1>0, InputStays DEF input
<1>1. CASE UNCHANGED <<queue, way, todo, paths>>
  BY <1>1, <1>a DEF Pending, Current, Found
<1>2. CASE StartWalk
  <2>1. Starts \in Seq(Nodes)
    BY <1>2 DEF StartWalk, TypeOK, Request, Starts, StartNode, InputOK, Listing
  <2>2. \A i \in DOMAIN Starts : GoodWay(At(Starts[i]))
    <3>1. \A i \in DOMAIN Starts : Starts[i] \in Nodes /\ Starts[i] \in ToSet(Starts)
      BY <2>1 DEF ToSet
    <3> QED BY <3>1, StartIsGood
  <2>3. \A w \in ToSet(queue') : GoodWay(w)
    BY <1>2, <2>2 DEF StartWalk, ToSet
  <2> QED BY <1>2, <2>3, <1>a DEF StartWalk, Pending, Current, Found
<1>3. CASE StartPaths
  <2>1. StartNode \in Nodes /\ StartNode \in ToSet(Starts)
    BY <1>3 DEF StartPaths, TypeOK, Request, StartNode, InputOK, Listing, Ways, Starts, ToSet
  <2>2. GoodWay(At(StartNode)) /\ Last(At(StartNode).nodes) = StartNode
    BY <2>1, StartIsGood
  <2>3. \A w \in ToSet(<<At(StartNode)>>) : w = At(StartNode)
    BY DEF ToSet
  <2>4. CASE StartNode = request.target
    BY <1>3, <2>2, <2>3, <2>4, <1>a DEF StartPaths, Pending, Current, Found
  <2>5. CASE StartNode # request.target
    BY <1>3, <2>2, <2>3, <2>5, <1>a DEF StartPaths, Pending, Current, Found
  <2> QED BY <2>4, <2>5
<1>4. CASE Take
  <2>1. queue \in Seq(Way) /\ queue # <<>> /\ way' = Head(queue) /\ queue' = Tail(queue)
    BY <1>4 DEF Take, TypeOK
  <2>2. Head(queue) \in Way /\ Head(queue) \in ToSet(queue)
        /\ ToSet(Tail(queue)) \subseteq ToSet(queue)
    BY <2>1, Elements
  <2>3. GoodWay(way') /\ \A w \in ToSet(queue') : GoodWay(w)
    BY <2>1, <2>2 DEF Pending
  <2>4. Len(way'.edges) \in Nat /\ request.depth \in Nat
    <3>1. Len(way'.edges) \in Nat
      BY <2>1, <2>2 DEF Way
    <3>2. request.depth \in Nat
      BY QueryAssumption DEF TypeOK, Request
    <3> QED BY <3>1, <3>2
  <2>5. todo' # {} => /\ todo' = Adjacent(Last(way'.nodes))
                      /\ ~Marked => Len(way'.edges) < request.depth
    BY <1>4, <2>4 DEF Take, Deep
  <2> QED BY <1>4, <2>3, <2>5, <1>a DEF Take, Pending, Current, Found
<1>5. CASE Follow
  <2> DEFINE k == Min(todo)
  <2>1. k \in todo
    <3>1. todo \in SUBSET Nat /\ todo # {}
      BY <1>5 DEF Follow, TypeOK, E
    <3> QED BY <3>1, MinIsLeast
  <2>2. \A w \in ToSet(queue') : GoodWay(w)
    <3>1. CASE Marked
      BY <1>5, <3>1 DEF Follow, Pending
    <3>2. CASE ~Marked
      <4>1. Onward(k) \in Way /\ GoodWay(Onward(k))
        BY <1>5, <2>1, <3>2, OnwardIsGood DEF Follow
      <4>2. queue' = queue \/ queue' = Append(queue, Onward(k))
        BY <1>5 DEF Follow
      <4>3. ToSet(Append(queue, Onward(k))) = ToSet(queue) \cup {Onward(k)}
        BY <4>1, Elements DEF TypeOK
      <4> QED BY <4>1, <4>2, <4>3 DEF Pending
    <3> QED BY <3>1, <3>2
  <2>3. todo' \subseteq todo
    BY <1>5 DEF Follow
  <2> QED BY <1>5, <2>1, <2>2, <2>3, <1>a DEF Follow, Pending, Current, Found
<1>6. CASE FollowPath
  <2> DEFINE k == Min(todo)
  <2>1. k \in todo
    <3>1. todo \in SUBSET Nat /\ todo # {}
      BY <1>6 DEF FollowPath, TypeOK, E
    <3> QED BY <3>1, MinIsLeast
  <2>2. ASSUME ~Again(k)
        PROVE  /\ Onward(k) \in Way /\ GoodWay(Onward(k)) /\ Last(Onward(k).nodes) = To(k)
               /\ ToSet(Append(queue, Onward(k))) = ToSet(queue) \cup {Onward(k)}
               /\ ToSet(Append(paths, Onward(k))) = ToSet(paths) \cup {Onward(k)}
    <3>1. Onward(k) \in Way /\ GoodWay(Onward(k)) /\ Last(Onward(k).nodes) = To(k)
      BY <1>6, <2>1, <2>2, OnwardIsGood DEF FollowPath, Ways, Marked
    <3> QED BY <3>1, Elements DEF TypeOK
  <2>3. \A w \in ToSet(queue') : GoodWay(w)
    <3>1. queue' = queue \/ (~Again(k) /\ queue' = Append(queue, Onward(k)))
      BY <1>6 DEF FollowPath
    <3> QED BY <2>2, <3>1 DEF Pending
  <2>4. \A w \in ToSet(paths') : GoodWay(w) /\ Last(w.nodes) = request.target
    <3>1. \/ paths' = paths
          \/ ~Again(k) /\ To(k) = request.target /\ paths' = Append(paths, Onward(k))
      BY <1>6 DEF FollowPath
    <3> QED BY <2>2, <3>1 DEF Found
  <2>5. todo' \subseteq todo /\ way' = way
    BY <1>6 DEF FollowPath
  <2> QED BY <1>6, <2>1, <2>3, <2>4, <2>5, <1>a DEF FollowPath, Pending, Current, Found
<1>7. CASE Refuse \/ Respond \/ UNCHANGED vars
  BY <1>7, <1>1 DEF Refuse, Respond, vars
<1> QED BY <1>2, <1>3, <1>4, <1>5, <1>6, <1>7 DEF Next

LEMMA PhasedStays == ASSUME GInv, [Next]_vars PROVE Phased'
<1>1. CASE UNCHANGED vars
  BY <1>1 DEF GInv, Phased, vars, Ways
<1>2. CASE Next
  <2>1. request' = request
    BY <1>2 DEF Next, input, Refuse, StartWalk, StartPaths, Take, Follow, FollowPath, Respond
  <2>2. paths' # <<>> => Ways
    BY <1>2 DEF Next, Refuse, StartWalk, StartPaths, Take, Follow, FollowPath, Respond, GInv,
                Phased
  <2>3. phase' # "ask"
    BY <1>2 DEF Next, Refuse, StartWalk, StartPaths, Take, Follow, FollowPath, Respond
  <2> QED BY <2>1, <2>2, <2>3 DEF Phased, Ways
<1> QED BY <1>1, <1>2

\* One edge of a walk: the node it leads to, if new, and the edge
LEMMA FollowSelects ==
    ASSUME GInv, Follow, Walks
    PROVE  LET k == Min(todo) IN
           /\ k \in todo /\ To(k) \in Nodes /\ EdgeOf(k) \in 1..E
           /\ EdgeOf(k) \in Between(Last(way.nodes), To(k))
           /\ Last(way.nodes) \in ToSet(selected)
           /\ Onward(k) \in Way /\ GoodWay(Onward(k)) /\ Last(Onward(k).nodes) = To(k)
           /\ \/ To(k) \in ToSet(selected) /\ selected' = selected /\ queue' = queue
              \/ /\ To(k) \notin ToSet(selected) /\ selected' = Append(selected, To(k))
                 /\ queue' = queue \/ queue' = Append(queue, Onward(k))
           /\ ToSet(used) \subseteq ToSet(used')
           /\ \E e \in ToSet(used') : e \in Between(Last(way.nodes), To(k))
<1> USE DEF GInv
<1> DEFINE k == Min(todo)
<1>1. k \in todo
  <2>1. todo \in SUBSET Nat /\ todo # {}
    BY DEF Follow, TypeOK, E
  <2> QED BY <2>1, MinIsLeast
<1>2. k \in Adjacent(Last(way.nodes)) /\ Last(way.nodes) \in ToSet(selected)
  BY <1>1 DEF Current, Onto
<1>3. To(k) \in Nodes /\ EdgeOf(k) \in 1..E /\ EdgeOf(k) \in Between(Last(way.nodes), To(k))
  BY <1>2, AdjacentLeads
<1>4. Onward(k) \in Way /\ GoodWay(Onward(k)) /\ Last(Onward(k).nodes) = To(k)
  BY <1>1, OnwardIsGood DEF Walks
<1>5. \/ To(k) \in ToSet(selected) /\ selected' = selected /\ queue' = queue
      \/ /\ To(k) \notin ToSet(selected) /\ selected' = Append(selected, To(k))
         /\ queue' = queue \/ queue' = Append(queue, Onward(k))
  BY DEF Follow
<1>6. used \in Seq(1..E)
  BY DEF TypeOK
<1>7. ToSet(Append(used, EdgeOf(k))) = ToSet(used) \cup {EdgeOf(k)}
  <2> DEFINE S == 1..E
             x == EdgeOf(k)
  <2>1. used \in Seq(S) /\ x \in S
    BY <1>3, <1>6
  <2> HIDE DEF S, x
  <2>2. ToSet(Append(used, x)) = ToSet(used) \cup {x}
    BY <2>1, Elements
  <2> QED BY <2>2 DEF x
<1>8. (IsUsed(EdgeOf(k)) /\ used' = used) \/ used' = Append(used, EdgeOf(k))
  BY DEF Follow
<1>9. ASSUME IsUsed(EdgeOf(k))
      PROVE  \E e \in ToSet(used) : e \in Between(Last(way.nodes), To(k))
  <2>1. PICK e \in ToSet(used) : view.edges[e] = view.edges[EdgeOf(k)]
    BY <1>9 DEF IsUsed, ToSet
  <2>2. e \in 1..E
    BY <1>6, <2>1, ElementOf
  <2>3. e \in DOMAIN view.edges
    BY <2>2 DEF E, TypeOK
  <2>4. e \in Between(Last(way.nodes), To(k))
    BY <1>3, <2>1, <2>3 DEF Between
  <2> QED BY <2>1, <2>4
<1>10. ToSet(used) \subseteq ToSet(used')
       /\ \E e \in ToSet(used') : e \in Between(Last(way.nodes), To(k))
  BY <1>3, <1>7, <1>8, <1>9
<1> QED BY <1>1, <1>2, <1>3, <1>4, <1>5, <1>10

LEMMA WalksStay ==
    ASSUME GInv, [Next]_vars
    PROVE  Onto' /\ SelectedAreReached' /\ SelectedAreJoined'
<1> USE DEF GInv
<1>0. UNCHANGED input
  BY DEF Next, vars, input, Refuse, StartWalk, StartPaths, Take, Follow, FollowPath, Respond
<1>a. /\ Starts' = Starts /\ Walks' = Walks /\ Way' = Way
      /\ \A w : GoodWay(w)' = GoodWay(w)
      /\ \A n, m : Between(n, m)' = Between(n, m)
  BY <1>0, InputStays
<1>b. CASE ~Walks
  BY <1>b, <1>a DEF Onto, SelectedAreReached, SelectedAreJoined
<1>1. CASE UNCHANGED <<queue, way, todo, selected, used>>
  BY <1>1, <1>a DEF Onto, SelectedAreReached, SelectedAreJoined
<1>2. CASE Walks /\ StartWalk
  <2>1. Starts \in Seq(Nodes) /\ IsInjective(Starts)
    BY <1>2 DEF StartWalk, TypeOK, Request, Starts, StartNode, InputOK, Listing, IsInjective
  <2>2. selected' = Starts /\ queue' = [i \in DOMAIN Starts |-> At(Starts[i])] /\ todo' = {}
    BY <1>2 DEF StartWalk, Walks, Phased
  <2>3. \A n \in ToSet(Starts) : At(n) \in Way /\ GoodWay(At(n)) /\ Last(At(n).nodes) = n
    <3>1. \A n \in ToSet(Starts) : n \in Nodes
      BY <2>1 DEF ToSet
    <3> QED BY <3>1, StartIsGood
  <2>4. Onto'
    BY <2>2, <2>3 DEF Onto, ToSet
  <2>5. SelectedAreReached'
    BY <2>1, <2>2, <2>3, <1>a DEF SelectedAreReached
  <2>6. SelectedAreJoined'
    BY <2>1, <2>2, <1>a DEF SelectedAreJoined
  <2> QED BY <2>4, <2>5, <2>6
<1>3. CASE Walks /\ Take
  <2>1. queue \in Seq(Way) /\ queue # <<>> /\ way' = Head(queue) /\ queue' = Tail(queue)
        /\ selected' = selected /\ used' = used
    BY <1>3 DEF Take, TypeOK, Walks
  <2>2. Head(queue) \in ToSet(queue) /\ ToSet(Tail(queue)) \subseteq ToSet(queue)
    BY <2>1, Elements
  <2>3. Onto'
    BY <1>3, <2>1, <2>2 DEF Onto
  <2> QED BY <1>a, <2>1, <2>3 DEF SelectedAreReached, SelectedAreJoined
<1>4. CASE Walks /\ Follow
  <2> DEFINE k == Min(todo)
  <2>1. /\ k \in todo /\ To(k) \in Nodes
        /\ Last(way.nodes) \in ToSet(selected)
        /\ Onward(k) \in Way /\ GoodWay(Onward(k)) /\ Last(Onward(k).nodes) = To(k)
        /\ \/ To(k) \in ToSet(selected) /\ selected' = selected /\ queue' = queue
           \/ /\ To(k) \notin ToSet(selected) /\ selected' = Append(selected, To(k))
              /\ queue' = queue \/ queue' = Append(queue, Onward(k))
        /\ ToSet(used) \subseteq ToSet(used')
        /\ \E e \in ToSet(used') : e \in Between(Last(way.nodes), To(k))
    BY <1>4, FollowSelects
  <2>2. selected \in Seq(Nodes) /\ queue \in Seq(Way)
    BY DEF TypeOK
  <2>3. ToSet(Append(selected, To(k))) = ToSet(selected) \cup {To(k)}
        /\ ToSet(Append(queue, Onward(k))) = ToSet(queue) \cup {Onward(k)}
    BY <2>1, <2>2, Elements
  <2>4. way' = way
    BY <1>4 DEF Follow
  <2>5. Onto'
    <3>1. ToSet(selected) \subseteq ToSet(selected') /\ To(k) \in ToSet(selected')
      BY <2>1, <2>3
    <3>2. \A w \in ToSet(queue) : Last(w.nodes) \in ToSet(selected')
      BY <1>4, <3>1 DEF Onto
    <3>3. \A w \in ToSet(queue') : w \in ToSet(queue) \/ w = Onward(k)
      BY <2>1, <2>3
    <3>4. \A w \in ToSet(queue') : Last(w.nodes) \in ToSet(selected')
      BY <2>1, <3>1, <3>2, <3>3
    <3> QED BY <2>1, <2>4, <3>1, <3>4 DEF Onto
  <2>6. SelectedAreReached'
    <3>1. CASE selected' = selected
      BY <1>a, <3>1 DEF SelectedAreReached
    <3>2. CASE To(k) \notin ToSet(selected) /\ selected' = Append(selected, To(k))
      <4>1. \A n \in ToSet(selected') : \E w \in Way : GoodWay(w) /\ Last(w.nodes) = n
        BY <1>4, <2>1, <2>3, <3>2 DEF SelectedAreReached
      <4>2. IsInjective(selected')
        <5>1. IsInjective(selected)
          BY <1>4 DEF SelectedAreReached
        <5>2. \A i \in 1..Len(selected) : selected[i] # To(k)
          BY <2>2, <3>2 DEF ToSet
        <5>3. /\ DOMAIN selected' = 1..(Len(selected) + 1) /\ Len(selected) \in Nat
              /\ selected'[Len(selected) + 1] = To(k)
              /\ \A i \in 1..Len(selected) : selected'[i] = selected[i]
          BY <2>1, <2>2, <3>2
        <5> QED BY <2>2, <5>1, <5>2, <5>3 DEF IsInjective
      <4> QED BY <1>a, <4>1, <4>2 DEF SelectedAreReached
    <3> QED BY <2>1, <3>1, <3>2
  <2>7. SelectedAreJoined'
    <3>1. \A i \in DOMAIN selected :
             i <= Len(Starts) \/ \E j \in 1..(i - 1), e \in ToSet(used') :
                                     e \in Between(selected[j], selected[i])
      BY <1>4, <2>1 DEF SelectedAreJoined
    <3>2. CASE selected' = selected
      BY <1>a, <3>1, <3>2 DEF SelectedAreJoined
    <3>3. CASE selected' = Append(selected, To(k))
      <4>1. /\ DOMAIN selected' = 1..(Len(selected) + 1) /\ Len(selected) \in Nat
            /\ selected'[Len(selected) + 1] = To(k)
            /\ DOMAIN selected = 1..Len(selected)
            /\ \A i \in 1..Len(selected) : selected'[i] = selected[i]
        BY <2>1, <2>2, <3>3
      <4>2. \A i \in 1..Len(selected) :
               i <= Len(Starts) \/ \E j \in 1..(i - 1), e \in ToSet(used') :
                                       e \in Between(selected'[j], selected'[i])
        <5> SUFFICES ASSUME NEW i \in 1..Len(selected), ~(i <= Len(Starts))
                     PROVE  \E j \in 1..(i - 1), e \in ToSet(used') :
                                e \in Between(selected'[j], selected'[i])
          OBVIOUS
        <5>1. PICK j \in 1..(i - 1), e \in ToSet(used') : e \in Between(selected[j], selected[i])
          BY <3>1, <4>1
        <5>2. selected'[j] = selected[j] /\ selected'[i] = selected[i]
          BY <4>1, <5>1
        <5> QED BY <5>1, <5>2
      <4>3. \E j \in 1..Len(selected), e \in ToSet(used') :
                e \in Between(selected'[j], selected'[Len(selected) + 1])
        <5>1. PICK j \in 1..Len(selected) : selected[j] = Last(way.nodes)
          BY <2>1, <2>2 DEF ToSet
        <5>2. selected'[j] = Last(way.nodes)
          BY <4>1, <5>1
        <5> QED BY <2>1, <4>1, <5>2
      <4>4. \A i \in DOMAIN selected' :
               i <= Len(Starts) \/ \E j \in 1..(i - 1), e \in ToSet(used') :
                                       e \in Between(selected'[j], selected'[i])
        <5> SUFFICES ASSUME NEW i \in DOMAIN selected'
                     PROVE  i <= Len(Starts) \/ \E j \in 1..(i - 1), e \in ToSet(used') :
                                                    e \in Between(selected'[j], selected'[i])
          OBVIOUS
        <5>1. CASE i \in 1..Len(selected)
          BY <4>2, <5>1
        <5>2. CASE i = Len(selected) + 1
          <6>1. i - 1 = Len(selected)
            BY <4>1, <5>2
          <6> QED BY <4>3, <5>2, <6>1
        <5> QED BY <4>1, <5>1, <5>2
      <4> QED BY <1>a, <4>4 DEF SelectedAreJoined
    <3> QED BY <2>1, <3>2, <3>3
  <2> QED BY <2>5, <2>6, <2>7
<1>5. CASE Refuse \/ Respond \/ UNCHANGED vars
  BY <1>5, <1>1 DEF Refuse, Respond, vars
<1>6. CASE StartPaths \/ FollowPath
  BY <1>6, <1>b DEF StartPaths, FollowPath, Walks
<1> QED BY <1>b, <1>2, <1>3, <1>4, <1>5, <1>6 DEF Next

LEMMA Inductive == Spec => []GInv
<1>1. Init => GInv
  BY InitHolds
<1>2. GInv /\ [Next]_vars => GInv'
  <2> SUFFICES ASSUME GInv, [Next]_vars PROVE GInv'
    OBVIOUS
  <2>1. InputOK'
    <3>1. request' = request
      BY DEF Next, vars, input, Refuse, StartWalk, StartPaths, Take, Follow, FollowPath, Respond
    <3> QED BY <3>1 DEF GInv, InputOK, Listing
  <2> QED BY <2>1, TypesStay, PathsStay, PhasedStays, WalksStay DEF GInv
<1> QED BY <1>1, <1>2, PTL DEF Spec

\* The ways, the ends of edges and the edges a request keeps are of its view.
\* (graph_engine.py, service.py neighborhood: the indexes of edges.)
THEOREM QueryTypes == Spec => []TypeOK
BY Inductive, PTL DEF GInv

\* Every path returned is one: along edges of the view in a direction and relation asked for, no
\* node twice, from the start to the target within the depth.  (graph_engine.py _paths.)
THEOREM PathsReal == Spec => []PathsAreReal
<1>1. GInv => PathsAreReal
  <2> SUFFICES ASSUME GInv, NEW w \in ToSet(paths)
               PROVE  /\ w.nodes # <<>> /\ w.nodes[1] = StartNode /\ Last(w.nodes) = request.target
                      /\ IsInjective(w.nodes)
                      /\ Len(w.nodes) = Len(w.edges) + 1 /\ Len(w.edges) <= request.depth
                      /\ \A i \in DOMAIN w.edges :
                            w.edges[i] \in Between(w.nodes[i], w.nodes[i + 1])
    BY DEF PathsAreReal
  <2>1. GoodWay(w) /\ Last(w.nodes) = request.target
    BY DEF GInv, Found
  <2>2. Ways
    BY DEF GInv, Phased, ToSet
  <2>3. \A n \in ToSet(Starts) : n = StartNode
    BY <2>2 DEF Ways, Starts, Listing, ToSet
  <2> QED BY <2>1, <2>2, <2>3 DEF GoodWay, RealWay
<1> QED BY <1>1, Inductive, PTL

\* Every node a walk selects is at the end of a way within the depth, and none is there twice.
\* (graph_engine.py _neighbors, service.py neighborhood.)
THEOREM WalksReach == Spec => []SelectedAreReached
BY Inductive, PTL DEF GInv

\* Every node a walk selects but those it starts at is joined to an earlier one by an edge it
\* keeps, before edges are cut at the limit.  (graph_engine.py _neighbors, service.py neighborhood.)
THEOREM WalksJoin == Spec => []SelectedAreJoined
BY Inductive, PTL DEF GInv

-----------------------------------------------------------------------------
(* How far a node is from where a walk starts *)

\* How many edges a node is from where a walk starts
Distance(n) == LET within == Within IN Min({d \in 0..request.depth : n \in within[d]})
Reachable == Within[request.depth]
\* Those in one more edge than those of W
Neighbours(W) == {m \in Shown : \E n \in W : Between(n, m) # {}}
WithinStep(g, d) == IF d = 0 THEN ToSet(Starts) ELSE g[d - 1] \cup Neighbours(g[d - 1])
IsWithin(g) == g = [d \in 0..request.depth |-> WithinStep(g, d)]

LEMMA DepthIsNat == TypeOK => request.depth \in Nat
BY QueryAssumption DEF TypeOK, Request

LEMMA WithinExists == ASSUME request.depth \in Nat PROVE \E g : IsWithin(g)
<1> DEFINE L == request.depth
           N == {l \in 0..L : \E g : g = [n \in 0..l |-> WithinStep(g, n)]}
<1>1. 0 \in N
  <2> DEFINE g == [n \in 0..0 |-> ToSet(Starts)]
  <2>1. g = [n \in 0..0 |-> WithinStep(g, n)]
    BY DEF WithinStep
  <2> QED BY <2>1
<1>2. ASSUME NEW l \in 0..L, l \in N, l < L PROVE l + 1 \in N
  <2>1. PICK g : g = [n \in 0..l |-> WithinStep(g, n)]
    BY <1>2
  <2> DEFINE h == [n \in 0..(l + 1) |-> IF n = l + 1 THEN WithinStep(g, n) ELSE g[n]]
  <2>2. \A n \in 0..(l + 1) : WithinStep(h, n) = WithinStep(g, n)
    <3>1. l \in Nat /\ \A n \in 0..(l + 1) : n # 0 => n - 1 \in 0..l /\ n - 1 # l + 1
      OBVIOUS
    <3>2. \A n \in 0..(l + 1) : n # 0 => h[n - 1] = g[n - 1]
      BY <3>1
    <3> HIDE DEF h
    <3> QED BY <3>2 DEF WithinStep
  <2>3. \A n \in 0..l : g[n] = WithinStep(g, n)
    BY <2>1
  <2>4. \A n \in 0..(l + 1) : h[n] = WithinStep(h, n)
    BY <2>2, <2>3
  <2>5. h = [n \in 0..(l + 1) |-> WithinStep(h, n)]
    BY <2>4
  <2>6. l + 1 \in 0..L
    BY <1>2
  <2> QED BY <2>5, <2>6
<1>3. \A l \in 0..L : l \in N /\ l < L => l + 1 \in N
  BY <1>2, Zenon
<1>4. L \in Nat /\ L \in 0..L
  OBVIOUS
<1> HIDE DEF N
<1>5. 0..L \subseteq N
  BY <1>1, <1>3, <1>4, Upto, Zenon
<1>6. L \in N
  BY <1>4, <1>5
<1> QED BY <1>6 DEF N, IsWithin

LEMMA WithinIs == TypeOK => IsWithin(Within)
<1> SUFFICES ASSUME TypeOK PROVE IsWithin(Within)
  OBVIOUS
<1>1. \E g : IsWithin(g)
  BY DepthIsNat, WithinExists
<1>2. Within = CHOOSE g : IsWithin(g)
  BY DEF Within, IsWithin, WithinStep, Neighbours
<1> QED BY <1>1, <1>2

\* The nodes within more edges have those within fewer
LEMMA WithinGrows ==
    ASSUME TypeOK, NEW d \in 0..request.depth, NEW e \in 0..request.depth, d <= e
    PROVE  Within[d] \subseteq Within[e]
<1> DEFINE L == request.depth
           N == {n \in 0..L : d <= n => Within[d] \subseteq Within[n]}
<1>1. L \in Nat
  BY DepthIsNat
<1>2. 0 \in N
  BY <1>1
<1>3. ASSUME NEW n \in 0..L, n \in N, n < L PROVE n + 1 \in N
  <2>1. Within[n + 1] = Within[n] \cup Neighbours(Within[n])
    <3>1. n + 1 \in 0..L /\ n + 1 # 0 /\ (n + 1) - 1 = n
      BY <1>1, <1>3
    <3> QED BY <3>1, WithinIs DEF IsWithin, WithinStep
  <2>2. n + 1 \in 0..L
    BY <1>1, <1>3
  <2>3. CASE d <= n
    BY <1>3, <2>1, <2>2, <2>3
  <2>4. CASE ~(d <= n)
    <3>1. d <= n + 1 => d = n + 1
      BY <1>1, <1>3, <2>4
    <3> QED BY <2>2, <3>1
  <2> QED BY <2>3, <2>4
<1>4. \A n \in 0..L : n \in N /\ n < L => n + 1 \in N
  BY <1>3, Zenon
<1> HIDE DEF N
<1>5. 0..L \subseteq N
  BY <1>1, <1>2, <1>4, Upto, Zenon
<1>6. e \in N
  BY <1>5
<1> QED BY <1>6 DEF N

LEMMA Distances ==
    ASSUME TypeOK, NEW n \in Reachable
    PROVE  /\ Distance(n) \in 0..request.depth
           /\ \A d \in 0..request.depth : n \in Within[d] <=> Distance(n) <= d
<1> DEFINE S == {d \in 0..request.depth : n \in Within[d]}
<1>1. request.depth \in Nat /\ request.depth \in 0..request.depth
  BY DepthIsNat
<1>2. S \in SUBSET Nat /\ request.depth \in S
  BY <1>1 DEF Reachable
<1>3. Distance(n) = Min(S)
  BY DEF Distance
<1>4. Min(S) \in S /\ \A m \in S : Min(S) <= m
  BY <1>2, MinIsLeast
<1>5. ASSUME NEW d \in 0..request.depth, Distance(n) <= d PROVE n \in Within[d]
  <2>1. n \in Within[Distance(n)]
    BY <1>3, <1>4
  <2> QED BY <1>3, <1>4, <1>5, <2>1, WithinGrows
<1> QED BY <1>3, <1>4, <1>5

LEMMA StartsAreNear ==
    ASSUME TypeOK, NEW n
    PROVE  /\ n \in ToSet(Starts) => n \in Reachable /\ Distance(n) = 0
           /\ n \in Reachable /\ Distance(n) = 0 => n \in ToSet(Starts)
<1>1. request.depth \in Nat
  BY DepthIsNat
<1>2. Within[0] = ToSet(Starts)
  BY <1>1, WithinIs DEF IsWithin, WithinStep
<1>3. ASSUME n \in ToSet(Starts) PROVE n \in Reachable /\ Distance(n) = 0
  <2>1. n \in Reachable
    BY <1>1, <1>2, <1>3, WithinGrows DEF Reachable
  <2>2. Distance(n) \in Nat /\ Distance(n) <= 0
    BY <1>1, <1>2, <1>3, <2>1, Distances
  <2> QED BY <2>1, <2>2
<1>4. ASSUME n \in Reachable, Distance(n) = 0 PROVE n \in ToSet(Starts)
  BY <1>1, <1>2, <1>4, Distances
<1> QED BY <1>3, <1>4

\* One edge leads at most one further
LEMMA NextIsNear ==
    ASSUME TypeOK, NEW n \in Reachable, Distance(n) < request.depth,
           NEW m \in Shown, Between(n, m) # {}
    PROVE  m \in Reachable /\ Distance(m) <= Distance(n) + 1
<1> DEFINE d == Distance(n)
<1>1. request.depth \in Nat /\ d \in 0..request.depth /\ n \in Within[d]
  BY DepthIsNat, Distances
<1>2. d + 1 \in 0..request.depth /\ d + 1 # 0 /\ (d + 1) - 1 = d
  BY <1>1
<1>3. Within[d + 1] = Within[d] \cup Neighbours(Within[d])
  BY <1>2, WithinIs DEF IsWithin, WithinStep
<1>4. m \in Within[d + 1]
  BY <1>1, <1>3 DEF Neighbours
<1>5. m \in Reachable
  BY <1>1, <1>2, <1>4, WithinGrows DEF Reachable
<1> QED BY <1>2, <1>4, <1>5, Distances

\* What is further than the starts is next to one that is nearer
LEMMA NearerBefore ==
    ASSUME TypeOK, NEW m \in Reachable, Distance(m) > 0
    PROVE  \E n \in Reachable : Distance(n) < Distance(m) /\ Between(n, m) # {}
<1> DEFINE d == Distance(m) - 1
<1>1. request.depth \in Nat /\ Distance(m) \in 0..request.depth /\ m \in Within[Distance(m)]
  BY DepthIsNat, Distances
<1>2. d \in 0..request.depth /\ d + 1 = Distance(m) /\ d < Distance(m) /\ ~(Distance(m) <= d)
  BY <1>1
<1>3. Within[Distance(m)] = Within[d] \cup Neighbours(Within[d])
  BY <1>1, <1>2, WithinIs DEF IsWithin, WithinStep
<1>4. m \notin Within[d]
  BY <1>2, Distances
<1>5. PICK n \in Within[d] : Between(n, m) # {}
  BY <1>1, <1>3, <1>4 DEF Neighbours
<1>6. n \in Reachable
  BY <1>1, <1>2, <1>5, WithinGrows DEF Reachable
<1>7. Distance(n) <= d /\ Distance(n) \in Nat
  BY <1>1, <1>2, <1>5, <1>6, Distances
<1>8. Distance(n) < Distance(m)
  BY <1>1, <1>2, <1>7
<1> QED BY <1>5, <1>6, <1>8

\* No step changes any of it
LEMMA WithinStays ==
    ASSUME TypeOK, TypeOK', UNCHANGED input
    PROVE  Within' = Within /\ Shown' = Shown /\ Reachable' = Reachable
           /\ \A n : Distance(n)' = Distance(n)
<1> DEFINE L == request.depth
           N == {l \in 0..L : Within'[l] = Within[l]}
<1>1. index' = index /\ view' = view /\ request' = request /\ L \in Nat
  BY DepthIsNat DEF input
<1>2. Starts' = Starts /\ Shown' = Shown /\ \A n, m : Between(n, m)' = Between(n, m)
  BY <1>1 DEF Starts, StartNode, Listing, Shown, Approved, Between, Allowed, Direction, Marked
<1>3. \A W : Neighbours(W)' = Neighbours(W)
  BY <1>2 DEF Neighbours
<1>4. IsWithin(Within)'
  BY WithinIs, PTL
<1>5. \A W, d : WithinStep(W, d)' = WithinStep(W, d)
  BY <1>2, <1>3 DEF WithinStep
<1>6. Within' = [d \in 0..L |-> WithinStep(Within', d)]
  BY <1>1, <1>4, <1>5 DEF IsWithin
<1>7. Within = [d \in 0..L |-> WithinStep(Within, d)]
  BY WithinIs DEF IsWithin
<1>8. \A l \in 0..L : Within'[l] = WithinStep(Within', l) /\ Within[l] = WithinStep(Within, l)
  BY <1>6, <1>7
<1>9. 0 \in N
  <2>1. \A W : WithinStep(W, 0) = ToSet(Starts)
    BY DEF WithinStep
  <2>2. 0 \in 0..L
    BY <1>1
  <2> QED BY <1>8, <2>1, <2>2
<1>10. ASSUME NEW l \in 0..L, l \in N, l < L PROVE l + 1 \in N
  <2>1. l + 1 \in 0..L /\ l + 1 # 0 /\ (l + 1) - 1 = l
    BY <1>1, <1>10
  <2>2. \A W : WithinStep(W, l + 1) = W[l] \cup Neighbours(W[l])
    BY <2>1 DEF WithinStep
  <2>3. Within'[l] = Within[l]
    BY <1>10
  <2> QED BY <1>8, <2>1, <2>2, <2>3
<1>11. \A l \in 0..L : l \in N /\ l < L => l + 1 \in N
  BY <1>10, Zenon
<1> HIDE DEF N
<1>12. 0..L \subseteq N
  BY <1>1, <1>9, <1>11, Upto, Zenon
<1>13. \A l \in 0..L : Within'[l] = Within[l]
  BY <1>12 DEF N
<1>14. Within' = Within
  BY <1>6, <1>7, <1>13
<1>15. Reachable' = Reachable /\ \A n : Distance(n)' = Distance(n)
  BY <1>1, <1>14 DEF Reachable, Distance
<1> QED BY <1>2, <1>14, <1>15

-----------------------------------------------------------------------------
(* A walk takes the nodes it selected one after the other: what is near is selected first *)

Begun == phase \in {"walk", "answered"}

\* An answered request has nothing left to follow, and no way left to go on from or its limit
Ended == phase = "answered" => todo = {} /\ (queue = <<>> \/ Full)

Ordered == \A i, j \in DOMAIN selected : i <= j => Distance(selected[i]) <= Distance(selected[j])
\* t nodes were taken, and those selected after them wait in the queue
Waiting(t) ==
    ~Full => /\ Len(queue) = Len(selected) - t
             /\ \A i \in DOMAIN queue : /\ Last(queue[i].nodes) = selected[t + i]
                                        /\ Len(queue[i].edges) = Distance(selected[t + i])
Going(t) ==
    todo # {} => /\ t > 0 /\ ~Full
                 /\ Last(way.nodes) = selected[t] /\ Len(way.edges) = Distance(selected[t])
Radius(t) == IF t = 0 THEN 0 ELSE Distance(selected[t])
Beyond(t) == IF t = 0 THEN 0 ELSE Distance(selected[t]) + 1
\* Everything as near as the last one taken is selected, and nothing more than an edge further
Covered(t) ==
    /\ \A n \in Reachable : Distance(n) <= Radius(t) => n \in ToSet(selected)
    /\ \A i \in DOMAIN selected : Distance(selected[i]) <= Beyond(t)
\* What is next to one taken is selected, or still to follow
Closed(t) ==
    \A j \in 1..t : Distance(selected[j]) < request.depth =>
        \A m \in Shown : Between(selected[j], m) # {} =>
            \/ m \in ToSet(selected)
            \/ j = t /\ Full
            \/ \E k \in todo : j = t /\ To(k) = m
NearestAt(t) == Waiting(t) /\ Going(t) /\ Covered(t) /\ Closed(t)
Nearest ==
    Walks /\ Begun =>
        /\ ToSet(selected) \subseteq Reachable /\ Ordered
        /\ Listing \/ Len(selected) <= request.limit
        /\ \E t \in 0..Len(selected) : NearestAt(t)

-----------------------------------------------------------------------------
\* What an edge of the view joins is shown
LEMMA EndsAreShown ==
    ASSUME ViewShown, NEW n, NEW m, Between(n, m) # {}
    PROVE  m \in Shown
<1>1. PICK e \in DOMAIN view.edges : view.edges[e].source = m \/ view.edges[e].target = m
  BY DEF Between
<1>2. view.edges[e] \in ToSet(view.edges) /\ m \in EndsOf(view.edges[e])
  BY <1>1 DEF ToSet, EndsOf
<1> QED BY <1>2, ShownIsView DEF ApprovedOnly

\* Every edge a request may go along is an end to follow
LEMMA AdjacentAll ==
    ASSUME TypeOK, NEW n, NEW m, NEW e \in Between(n, m)
    PROVE  \E k \in Adjacent(n) : EdgeOf(k) = e /\ To(k) = m
<1>1. view.edges \in Seq(Edge) /\ E \in Nat /\ DOMAIN view.edges = 1..E /\ e \in 1..E
  BY DEF TypeOK, E, Between
<1>2. /\ Allowed(view.edges[e])
      /\ \/ Direction # "in" /\ view.edges[e].source = n /\ view.edges[e].target = m
         \/ Direction # "out" /\ view.edges[e].source = m /\ view.edges[e].target = n
  BY DEF Between
<1>3. Direction \in {"in", "out", "both"}
  BY DEF Direction, TypeOK, Request, Directions
<1>4. CASE request.operation = "neighborhood"
  <2>1. /\ e \in 1..(2 * E) /\ EdgeOf(e) = e /\ Forward(e)
        /\ e + E \in 1..(2 * E) /\ EdgeOf(e + E) = e /\ ~Forward(e + E)
    BY <1>1, <1>4 DEF EdgeOf, Forward
  <2>2. CASE Direction # "in" /\ view.edges[e].source = n /\ view.edges[e].target = m
    <3>1. From(e) = n /\ To(e) = m
      BY <2>1, <2>2 DEF From, To
    <3>2. e \in Adjacent(n)
      BY <1>2, <1>3, <2>1, <2>2, <3>1 DEF Adjacent
    <3> QED BY <2>1, <3>1, <3>2
  <2>3. CASE Direction # "out" /\ view.edges[e].source = m /\ view.edges[e].target = n
    <3>1. From(e + E) = n /\ To(e + E) = m
      BY <2>1, <2>3 DEF From, To
    <3>2. e + E \in Adjacent(n)
      BY <1>2, <1>3, <2>1, <2>3, <3>1 DEF Adjacent
    <3> QED BY <2>1, <3>1, <3>2
  <2> QED BY <1>2, <2>2, <2>3
<1>5. CASE request.operation # "neighborhood"
  <2>1. /\ 2 * e - 1 \in 1..(2 * E) /\ ((2 * e - 1) + 1) \div 2 = e /\ (2 * e - 1) % 2 = 1
        /\ 2 * e \in 1..(2 * E) /\ (2 * e + 1) \div 2 = e /\ (2 * e) % 2 # 1
    BY <1>1
  <2>2. EdgeOf(2 * e - 1) = e /\ Forward(2 * e - 1) /\ EdgeOf(2 * e) = e /\ ~Forward(2 * e)
    BY <1>5, <2>1 DEF EdgeOf, Forward
  <2>3. CASE Direction # "in" /\ view.edges[e].source = n /\ view.edges[e].target = m
    <3>1. From(2 * e - 1) = n /\ To(2 * e - 1) = m
      BY <2>2, <2>3 DEF From, To
    <3>2. 2 * e - 1 \in Adjacent(n)
      BY <1>2, <1>3, <2>1, <2>2, <2>3, <3>1 DEF Adjacent
    <3> QED BY <2>2, <3>1, <3>2
  <2>4. CASE Direction # "out" /\ view.edges[e].source = m /\ view.edges[e].target = n
    <3>1. From(2 * e) = n /\ To(2 * e) = m
      BY <2>2, <2>4 DEF From, To
    <3>2. 2 * e \in Adjacent(n)
      BY <1>2, <1>3, <2>1, <2>2, <2>4, <3>1 DEF Adjacent
    <3> QED BY <2>2, <3>1, <3>2
  <2> QED BY <1>2, <2>3, <2>4
<1> QED BY <1>4, <1>5

\* Where an end of an edge leads stays
LEMMA EndsStay ==
    ASSUME UNCHANGED input, NEW k
    PROVE  To(k)' = To(k) /\ EdgeOf(k)' = EdgeOf(k)
<1>1. view' = view /\ request' = request
  BY DEF input
<1> QED BY <1>1 DEF To, From, EdgeOf, Forward, E

LEMMA StartWalkNearest ==
    ASSUME GInv, StartWalk, Walks, TypeOK'
    PROVE  Nearest'
<1> USE DEF GInv
<1>1. UNCHANGED input /\ request' = request
  BY DEF StartWalk, input
<1>2. Starts \in Seq(Nodes) /\ Len(Starts) \in Nat
  BY DEF StartWalk, TypeOK, Request, Starts, StartNode, InputOK, Listing
<1>3. selected' = Starts /\ queue' = [i \in DOMAIN Starts |-> At(Starts[i])] /\ todo' = {}
  BY DEF StartWalk, Walks, Phased
<1>4. /\ Reachable' = Reachable /\ \A n : Distance(n)' = Distance(n)
      /\ Listing' = Listing
  BY <1>1, WithinStays DEF Listing
<1>5. \A n \in ToSet(Starts) : n \in Reachable /\ Distance(n) = 0
  BY StartsAreNear
<1>6. \A i \in DOMAIN Starts : Starts[i] \in ToSet(Starts)
  BY DEF ToSet
<1>7. Ordered' /\ ToSet(selected') \subseteq Reachable'
  BY <1>3, <1>4, <1>5, <1>6 DEF Ordered
<1>8. Listing' \/ Len(selected') <= request'.limit
  <2>1. request.limit \in Nat /\ request.limit >= 1
    BY QueryAssumption DEF TypeOK, Request
  <2>2. ~Listing => Len(Starts) = 1
    BY DEF Starts
  <2> QED BY <1>1, <1>3, <1>4, <2>1, <2>2
<1>9. Waiting(0)'
  <2>1. Len(queue') = Len(Starts) /\ DOMAIN queue' = 1..Len(Starts)
    BY <1>2, <1>3
  <2>2. ASSUME NEW i \in 1..Len(Starts)
        PROVE  Last(queue'[i].nodes) = Starts[i] /\ Len(queue'[i].edges) = 0
    BY <1>2, <1>3 DEF At, Last
  <2>3. \A i \in 1..Len(Starts) : Distance(Starts[i]) = 0 /\ 0 + i = i
    BY <1>2, <1>5, <1>6
  <2> QED BY <1>2, <1>3, <1>4, <2>1, <2>2, <2>3 DEF Waiting
<1>10. Covered(0)'
  <2>1. Radius(0)' = 0 /\ Beyond(0)' = 0
    BY DEF Radius, Beyond
  <2>2. \A n \in Reachable : Distance(n) <= 0 => n \in ToSet(Starts)
    <3>1. \A n \in Reachable : Distance(n) \in Nat
      BY DepthIsNat, Distances
    <3> QED BY <3>1, StartsAreNear
  <2> QED BY <1>2, <1>3, <1>4, <1>5, <1>6, <2>1, <2>2 DEF Covered
<1>11. Going(0)' /\ Closed(0)'
  BY <1>3 DEF Going, Closed
<1>12. NearestAt(0)' /\ 0 \in 0..Len(selected')
  BY <1>2, <1>3, <1>9, <1>10, <1>11 DEF NearestAt
<1> QED BY <1>7, <1>8, <1>12 DEF Nearest

\* Distances of what is selected are numbers
LEMMA SelectedNear ==
    ASSUME TypeOK, ToSet(selected) \subseteq Reachable
    PROVE  /\ Len(selected) \in Nat /\ DOMAIN selected = 1..Len(selected)
           /\ \A i \in 1..Len(selected) :
                selected[i] \in ToSet(selected) /\ selected[i] \in Reachable
                /\ Distance(selected[i]) \in Nat /\ Distance(selected[i]) <= request.depth
<1>1. selected \in Seq(Nodes) /\ request.depth \in Nat
  BY DepthIsNat DEF TypeOK
<1>2. \A i \in 1..Len(selected) : selected[i] \in ToSet(selected)
  BY <1>1 DEF ToSet
<1>3. \A n \in Reachable : Distance(n) \in Nat /\ Distance(n) <= request.depth
  BY <1>1, Distances
<1> QED BY <1>1, <1>2, <1>3

LEMMA TakeNearest ==
    ASSUME GInv, ViewShown, Take, Walks, Nearest, TypeOK'
    PROVE  Nearest'
<1> USE DEF GInv
<1>1. /\ UNCHANGED input /\ request' = request /\ selected' = selected
      /\ phase = "walk" /\ todo = {} /\ queue # <<>> /\ ~Full
      /\ way' = Head(queue) /\ queue' = Tail(queue)
      /\ todo' = IF Deep(way') THEN {} ELSE Adjacent(Last(way'.nodes))
  BY DEF Take, input, Walks
<1>2. /\ Reachable' = Reachable /\ \A n : Distance(n)' = Distance(n)
      /\ Listing' = Listing /\ Shown' = Shown
      /\ \A n, m : Between(n, m)' = Between(n, m)
      /\ \A k : To(k)' = To(k)
      /\ Full' = Full
  BY <1>1, WithinStays, InputStays, EndsStay DEF Listing, Full, Walks
<1>3. /\ ToSet(selected) \subseteq Reachable /\ Ordered
      /\ Listing \/ Len(selected) <= request.limit
  BY <1>1 DEF Nearest, Begun
<1>4. PICK t \in 0..Len(selected) : NearestAt(t)
  BY <1>1 DEF Nearest, Begun
<1> DEFINE u == t + 1
           d == Distance(selected[u])
<1>5. /\ Len(selected) \in Nat /\ DOMAIN selected = 1..Len(selected)
      /\ \A i \in 1..Len(selected) :
           selected[i] \in ToSet(selected) /\ selected[i] \in Reachable
           /\ Distance(selected[i]) \in Nat /\ Distance(selected[i]) <= request.depth
  BY <1>3, SelectedNear
<1>6. queue \in Seq(Way) /\ Len(queue) = Len(selected) - t
      /\ \A i \in 1..Len(queue) : /\ Last(queue[i].nodes) = selected[t + i]
                                  /\ Len(queue[i].edges) = Distance(selected[t + i])
  <2>1. queue \in Seq(Way) /\ DOMAIN queue = 1..Len(queue)
    BY DEF TypeOK
  <2>2. Waiting(t) /\ ~Full
    BY <1>1, <1>4 DEF NearestAt
  <2> QED BY <2>1, <2>2 DEF Waiting
<1>7. u \in 1..Len(selected) /\ t \in Nat /\ d \in Nat /\ d <= request.depth
  BY <1>1, <1>5, <1>6
<1>8. Last(way'.nodes) = selected[u] /\ Len(way'.edges) = d
  <2>1. way' = queue[1] /\ 1 \in 1..Len(queue)
    BY <1>1, <1>6
  <2>2. Last(queue[1].nodes) = selected[u] /\ Len(queue[1].edges) = d
    BY <1>6, <2>1
  <2> QED BY <2>1, <2>2
<1>9. Waiting(u)'
  <2>1. Len(queue') = Len(selected) - u /\ DOMAIN queue' = 1..Len(queue')
        /\ \A i \in 1..Len(queue') : queue'[i] = queue[i + 1] /\ i + 1 \in 1..Len(queue)
    BY <1>1, <1>6, <1>7
  <2>2. \A i \in 1..Len(queue') : /\ Last(queue'[i].nodes) = selected[t + (i + 1)]
                                  /\ Len(queue'[i].edges) = Distance(selected[t + (i + 1)])
    BY <1>6, <2>1
  <2>3. \A i \in 1..Len(queue') : t + (i + 1) = u + i
    BY <1>7
  <2>4. queue' \in Seq(Way) /\ u = t + 1
    BY <1>1, <1>6
  <2>5. \A i \in 1..Len(queue') : /\ Last(queue'[i].nodes) = selected[u + i]
                                  /\ Len(queue'[i].edges) = Distance(selected[u + i])
    BY <2>2, <2>3
  <2> QED BY <1>1, <1>2, <2>1, <2>4, <2>5 DEF Waiting
<1>10. Going(u)'
  BY <1>1, <1>2, <1>7, <1>8 DEF Going
\* All that is one nearer is closed, so that nothing as near as the one taken is missing
<1>11. \A n \in Reachable : Distance(n) <= d => n \in ToSet(selected)
  <2> SUFFICES ASSUME NEW n \in Reachable, Distance(n) <= d, n \notin ToSet(selected)
               PROVE  FALSE
    OBVIOUS
  <2>1. Distance(n) \in Nat /\ request.depth \in Nat
    BY DepthIsNat, Distances
  <2>2. ~(Distance(n) <= Radius(t)) /\ d <= Beyond(t)
    BY <1>4, <1>5, <1>7 DEF NearestAt, Covered
  <2>3. t # 0 /\ Distance(selected[t]) \in Nat /\ Distance(n) = Distance(selected[t]) + 1
        /\ d = Distance(n) /\ Distance(n) > 0
    <3>1. CASE t = 0
      BY <1>7, <2>1, <2>2, <3>1 DEF Radius, Beyond
    <3>2. CASE t # 0
      <4>1. t \in 1..Len(selected) /\ Distance(selected[t]) \in Nat
        BY <1>5, <1>7, <3>2
      <4>2. ~(Distance(n) <= Distance(selected[t])) /\ d <= Distance(selected[t]) + 1
        BY <2>2, <3>2 DEF Radius, Beyond
      <4> QED BY <1>7, <2>1, <3>2, <4>1, <4>2
    <3> QED BY <3>1, <3>2
  <2>4. PICK m \in Reachable : Distance(m) < Distance(n) /\ Between(m, n) # {}
    BY <2>3, NearerBefore
  <2>5. Distance(m) \in Nat /\ Distance(m) <= Distance(selected[t]) /\ Distance(m) < d
    BY <2>1, <2>3, <2>4, DepthIsNat, Distances
  <2>6. m \in ToSet(selected)
    BY <1>4, <2>3, <2>5 DEF NearestAt, Covered, Radius
  <2>7. PICK j \in 1..Len(selected) : selected[j] = m
    BY <1>5, <2>6 DEF ToSet
  <2>8. j \in 1..t
    <3>1. ~(u <= j)
      <4>1. u <= j => d <= Distance(selected[j])
        BY <1>3, <1>5, <1>7 DEF Ordered
      <4> QED BY <1>7, <2>5, <2>7, <4>1
    <3> QED BY <1>7, <3>1
  <2>9. Distance(selected[j]) < request.depth
    BY <1>7, <2>1, <2>5, <2>7
  <2>10. n \in Shown
    BY <2>4, EndsAreShown
  <2> QED BY <1>1, <1>4, <2>4, <2>7, <2>8, <2>9, <2>10 DEF NearestAt, Closed
<1>12. \A i \in 1..Len(selected) : Distance(selected[i]) <= d + 1
  <2> SUFFICES ASSUME NEW i \in 1..Len(selected) PROVE Distance(selected[i]) <= d + 1
    OBVIOUS
  <2>1. Distance(selected[i]) <= Beyond(t) /\ Distance(selected[i]) \in Nat
    BY <1>4, <1>5 DEF NearestAt, Covered
  <2>2. CASE t = 0
    BY <1>7, <2>1, <2>2 DEF Beyond
  <2>3. CASE t # 0
    <3>1. t \in 1..Len(selected) /\ t <= u /\ Distance(selected[t]) \in Nat
      BY <1>5, <1>7, <2>3
    <3>2. Distance(selected[t]) <= d
      BY <1>3, <1>5, <1>7, <3>1 DEF Ordered
    <3> QED BY <1>7, <2>1, <2>3, <3>1, <3>2 DEF Beyond
  <2> QED BY <2>2, <2>3
<1>13. Covered(u)'
  <2>1. u # 0
    BY <1>7
  <2>2. Radius(u)' = d /\ Beyond(u)' = d + 1
    BY <1>1, <1>2, <2>1 DEF Radius, Beyond
  <2> QED BY <1>1, <1>2, <1>5, <1>11, <1>12, <2>2 DEF Covered
<1>14. Closed(u)'
  <2> SUFFICES ASSUME NEW j \in 1..u, Distance(selected[j]) < request.depth,
                      NEW m \in Shown, Between(selected[j], m) # {}
               PROVE  m \in ToSet(selected) \/ \E k \in todo' : j = u /\ To(k) = m
    BY <1>1, <1>2 DEF Closed
  <2>1. CASE j \in 1..t
    BY <1>1, <1>4, <2>1 DEF NearestAt, Closed
  <2>2. CASE j = u
    <3>1. ~Deep(way')
      BY <1>7, <1>8, <2>2, DepthIsNat DEF Deep
    <3>2. todo' = Adjacent(selected[u])
      BY <1>1, <1>8, <3>1
    <3>3. \E k \in Adjacent(selected[u]) : To(k) = m
      BY <2>2, AdjacentAll
    <3> QED BY <2>2, <3>2, <3>3
  <2> QED BY <1>7, <2>1, <2>2
<1>15. NearestAt(u)' /\ u \in 0..Len(selected')
  BY <1>1, <1>7, <1>9, <1>10, <1>13, <1>14 DEF NearestAt
<1>16. Ordered'
  BY <1>1, <1>2, <1>3 DEF Ordered
<1> QED BY <1>1, <1>2, <1>3, <1>15, <1>16 DEF Nearest

LEMMA FollowNearest ==
    ASSUME GInv, ViewShown, Follow, Walks, Nearest, TypeOK'
    PROVE  Nearest'
<1> DEFINE k == Min(todo)
           new == To(k) \notin ToSet(selected)
           full == Len(selected') >= request.limit
<1>1. /\ UNCHANGED input /\ request' = request /\ way' = way
      /\ phase = "walk" /\ todo # {}
      /\ selected' = IF new THEN Append(selected, To(k)) ELSE selected
      /\ queue' = IF new /\ ~full THEN Append(queue, Onward(k)) ELSE queue
      /\ todo' = IF full THEN {} ELSE todo \ {k}
  BY DEF Follow, input, Walks
<1>2. /\ Reachable' = Reachable /\ \A n : Distance(n)' = Distance(n)
      /\ Listing' = Listing /\ Shown' = Shown
      /\ \A n, m : Between(n, m)' = Between(n, m)
      /\ \A i : To(i)' = To(i)
      /\ Full' = (request.limit <= Len(selected'))
  BY <1>1, WithinStays, InputStays, EndsStay DEF GInv, Listing, Full, Walks
<1>3. /\ ToSet(selected) \subseteq Reachable /\ Ordered
      /\ Listing \/ Len(selected) <= request.limit
  BY <1>1 DEF Nearest, Begun
<1>4. PICK t \in 0..Len(selected) : NearestAt(t)
  BY <1>1 DEF Nearest, Begun
<1> DEFINE d == Distance(selected[t])
<1>5. /\ Len(selected) \in Nat /\ DOMAIN selected = 1..Len(selected)
      /\ \A i \in 1..Len(selected) :
           selected[i] \in ToSet(selected) /\ selected[i] \in Reachable
           /\ Distance(selected[i]) \in Nat /\ Distance(selected[i]) <= request.depth
  BY <1>3, SelectedNear DEF GInv
<1>6. request.limit \in Nat /\ ~(request.limit <= Len(selected))
      /\ t \in 1..Len(selected) /\ Last(way.nodes) = selected[t] /\ Len(way.edges) = d
  BY <1>1, <1>4, <1>5, QueryAssumption DEF NearestAt, Going, Full, Walks, GInv, TypeOK, Request
<1>7. /\ k \in todo /\ To(k) \in Nodes /\ Between(selected[t], To(k)) # {}
      /\ Onward(k) \in Way /\ Last(Onward(k).nodes) = To(k)
      /\ selected[t] \in Reachable /\ d \in Nat
  BY <1>5, <1>6, FollowSelects
<1>8. d < request.depth /\ Len(Onward(k).edges) = d + 1
  <2>1. d < request.depth
    BY <1>1, <1>6 DEF GInv, Current, Walks
  <2>2. way.edges \in Seq(1..E) /\ EdgeOf(k) \in 1..E
    BY FollowSelects DEF GInv, TypeOK, Way
  <2> QED BY <1>6, <2>1, <2>2 DEF Onward
<1>9. To(k) \in Shown
  BY <1>7, EndsAreShown
<1>10. To(k) \in Reachable /\ Distance(To(k)) <= d + 1 /\ Distance(To(k)) \in Nat
  <2>1. To(k) \in Reachable /\ Distance(To(k)) <= d + 1
    BY <1>7, <1>8, <1>9, NextIsNear DEF GInv
  <2> QED BY <2>1, DepthIsNat, Distances DEF GInv
<1>11. \A i \in 1..Len(selected) : Distance(selected[i]) <= d + 1
  BY <1>4, <1>5, <1>6 DEF NearestAt, Covered, Beyond
<1>12. Waiting(t)
  BY <1>4 DEF NearestAt
<1>13. queue \in Seq(Way) /\ selected \in Seq(Nodes) /\ Len(queue) = Len(selected) - t
       /\ \A i \in 1..Len(queue) : /\ Last(queue[i].nodes) = selected[t + i]
                                   /\ Len(queue[i].edges) = Distance(selected[t + i])
  <2>1. queue \in Seq(Way) /\ selected \in Seq(Nodes)
    BY DEF GInv, TypeOK
  <2>2. ~Full
    BY <1>6 DEF Full, Walks
  <2>3. DOMAIN queue = 1..Len(queue)
    BY <2>1
  <2>4. Len(queue) = Len(selected) - t
        /\ \A i \in DOMAIN queue : /\ Last(queue[i].nodes) = selected[t + i]
                                   /\ Len(queue[i].edges) = Distance(selected[t + i])
    BY <1>12, <2>2 DEF Waiting
  <2> HIDE DEF d
  <2> QED BY <2>1, <2>3, <2>4
<1>14. CASE ~new
  <2>1. selected' = selected /\ queue' = queue /\ todo' = todo \ {k} /\ Full' = Full /\ ~Full
    BY <1>1, <1>2, <1>5, <1>6, <1>14 DEF Full, Walks
  <2>2. Waiting(t)' /\ Covered(t)' /\ Ordered'
    BY <1>2, <1>3, <1>4, <2>1 DEF NearestAt, Waiting, Covered, Radius, Beyond, Ordered
  <2>3. Going(t)'
    BY <1>1, <1>2, <1>6, <2>1 DEF Going
  <2>4. Closed(t)'
    <3> SUFFICES ASSUME NEW j \in 1..t, Distance(selected[j]) < request.depth,
                        NEW m \in Shown, Between(selected[j], m) # {}, m \notin ToSet(selected)
                 PROVE  \E i \in todo' : j = t /\ To(i) = m
      BY <1>1, <1>2, <2>1 DEF Closed
    <3>1. PICK i \in todo : j = t /\ To(i) = m
      BY <1>4, <2>1 DEF NearestAt, Closed
    <3>2. i # k
      BY <1>14, <3>1
    <3> QED BY <2>1, <3>1, <3>2
  <2>5. NearestAt(t)' /\ t \in 0..Len(selected')
    BY <2>1, <2>2, <2>3, <2>4 DEF NearestAt
  <2> QED BY <1>1, <1>2, <1>3, <2>1, <2>2, <2>5 DEF Nearest
<1>15. CASE new
  <2>1. /\ selected' = Append(selected, To(k)) /\ Len(selected') = Len(selected) + 1
        /\ DOMAIN selected' = 1..Len(selected')
        /\ selected'[Len(selected')] = To(k)
        /\ \A i \in 1..Len(selected) : selected'[i] = selected[i]
    BY <1>1, <1>7, <1>13, <1>15
  <2>2. ToSet(selected') = ToSet(selected) \cup {To(k)}
    BY <1>7, <1>13, <2>1, Elements
  \* It was not as near as what was taken, or it would be selected
  <2>3. Distance(To(k)) = d + 1
    <3>1. ~(Distance(To(k)) <= d)
      BY <1>4, <1>6, <1>10, <1>15 DEF NearestAt, Covered, Radius
    <3> QED BY <1>7, <1>10, <3>1
  <2>4. \A i \in 1..Len(selected') :
           Distance(selected'[i]) <= d + 1
           /\ Distance(selected'[i]) \in Nat
    <3> SUFFICES ASSUME NEW i \in 1..Len(selected')
                 PROVE Distance(selected'[i]) <= d + 1 /\ Distance(selected'[i]) \in Nat
      OBVIOUS
    <3>1. CASE i \in 1..Len(selected)
      BY <1>5, <1>11, <2>1, <3>1
    <3>2. CASE i = Len(selected')
      BY <1>7, <2>1, <2>3, <3>2
    <3> QED BY <1>5, <2>1, <3>1, <3>2
  <2>5. Ordered'
    <3> SUFFICES ASSUME NEW i \in 1..Len(selected'), NEW j \in 1..Len(selected'), i <= j
                 PROVE  Distance(selected'[i]) <= Distance(selected'[j])
      BY <1>2, <2>1 DEF Ordered
    <3>1. CASE j = Len(selected')
      BY <2>1, <2>3, <2>4, <3>1
    <3>2. CASE j # Len(selected')
      <4>1. i \in 1..Len(selected) /\ j \in 1..Len(selected)
        BY <1>5, <2>1, <3>2
      <4> QED BY <1>3, <1>5, <2>1, <4>1 DEF Ordered
    <3> QED BY <3>1, <3>2
  <2>6. ASSUME ~Full' PROVE Waiting(t)'
    <3>1. queue' = Append(queue, Onward(k))
      BY <1>1, <1>2, <1>5, <1>6, <1>15, <2>1, <2>6
    <3>2. Len(queue') = Len(queue) + 1 /\ DOMAIN queue' = 1..Len(queue')
          /\ queue'[Len(queue')] = Onward(k)
          /\ \A i \in 1..Len(queue) : queue'[i] = queue[i]
      BY <1>7, <1>13, <3>1
    <3>3. ASSUME NEW i \in 1..Len(queue')
          PROVE  /\ Last(queue'[i].nodes) = selected'[t + i]
                 /\ Len(queue'[i].edges) = Distance(selected'[t + i])
      <4>1. CASE i \in 1..Len(queue)
        <5>1. t + i \in 1..Len(selected)
          BY <1>5, <1>6, <1>13, <4>1
        <5> QED BY <1>13, <2>1, <3>2, <4>1, <5>1
      <4>2. CASE i = Len(queue')
        <5>1. t + i = Len(selected')
          BY <1>5, <1>6, <1>13, <2>1, <3>2, <4>2
        <5> QED BY <1>7, <1>8, <2>1, <2>3, <3>2, <4>2, <5>1
      <4> QED BY <1>13, <3>2, <4>1, <4>2
    <3>4. Len(queue') = Len(selected') - t
      BY <1>5, <1>6, <1>13, <2>1, <3>2
    <3> QED BY <1>2, <3>2, <3>3, <3>4 DEF Waiting
  <2>7. Waiting(t)'
    BY <2>6 DEF Waiting
  <2>8. Going(t)'
    <3>1. todo' # {} => ~Full'
      BY <1>1, <1>2, <1>5, <1>6, <2>1
    <3>2. selected'[t] = selected[t] /\ t > 0
      BY <1>6, <2>1
    <3> QED BY <1>1, <1>2, <1>6, <3>1, <3>2 DEF Going
  <2>9. Covered(t)'
    <3>1. selected'[t] = selected[t] /\ t # 0
      BY <1>6, <2>1
    <3>2. Radius(t)' = d /\ Beyond(t)' = d + 1
      BY <1>2, <3>1 DEF Radius, Beyond
    <3>3. \A n \in Reachable : Distance(n) <= d => n \in ToSet(selected)
      BY <1>4, <3>1 DEF NearestAt, Covered, Radius
    <3> QED BY <1>2, <2>1, <2>2, <2>4, <3>2, <3>3 DEF Covered
  <2>10. Closed(t)'
    <3> SUFFICES ASSUME NEW j \in 1..t, Distance(selected[j]) < request.depth,
                        NEW m \in Shown, Between(selected[j], m) # {},
                        m \notin ToSet(selected'), ~(j = t /\ Full')
                 PROVE  \E i \in todo' : j = t /\ To(i) = m
      <4>1. \A j \in 1..t : selected'[j] = selected[j]
        BY <1>5, <1>6, <2>1
      <4> QED BY <1>1, <1>2, <4>1 DEF Closed
    <3>1. m \notin ToSet(selected) /\ m # To(k)
      BY <2>2
    <3>2. PICK i \in todo : j = t /\ To(i) = m
      BY <1>4, <1>6, <3>1 DEF NearestAt, Closed, Full, Walks
    <3>3. todo' = todo \ {k}
      BY <1>1, <1>2, <1>5, <1>6, <2>1, <3>2
    <3> QED BY <3>1, <3>2, <3>3
  <2>11. NearestAt(t)' /\ t \in 0..Len(selected')
    BY <1>5, <1>6, <2>1, <2>7, <2>8, <2>9, <2>10 DEF NearestAt
  <2>12. Len(selected') <= request.limit
    BY <1>5, <1>6, <2>1
  <2>13. ToSet(selected') \subseteq Reachable'
    BY <1>2, <1>3, <1>10, <2>2
  <2> QED BY <1>1, <2>5, <2>11, <2>12, <2>13 DEF Nearest
<1> QED BY <1>14, <1>15

LEMMA NearestStays ==
    ASSUME GInv, GInv', ViewShown, [Next]_vars, Nearest
    PROVE  Nearest'
<1>1. TypeOK /\ TypeOK'
  BY DEF GInv
<1>2. UNCHANGED input
  BY DEF Next, vars, input, Refuse, StartWalk, StartPaths, Take, Follow, FollowPath, Respond
<1>3. /\ Walks' = Walks /\ request' = request
      /\ Reachable' = Reachable /\ \A n : Distance(n)' = Distance(n)
      /\ Listing' = Listing /\ Shown' = Shown
      /\ \A n, m : Between(n, m)' = Between(n, m)
      /\ \A i : To(i)' = To(i)
  BY <1>1, <1>2, WithinStays, InputStays, EndsStay DEF Listing, input
<1>4. CASE Walks /\ StartWalk
  BY <1>1, <1>4, StartWalkNearest
<1>5. CASE Walks /\ Take
  BY <1>1, <1>5, TakeNearest
<1>6. CASE Walks /\ Follow
  BY <1>1, <1>6, FollowNearest
<1>7. CASE ~Walks
  BY <1>3, <1>7 DEF Nearest
<1>8. CASE Refuse
  BY <1>8 DEF Refuse, Nearest, Begun
<1>9. CASE Walks /\ (Respond \/ UNCHANGED vars)
  <2>1. UNCHANGED <<queue, way, todo, selected, paths>> /\ (Begun' => Begun)
    BY <1>9 DEF Respond, vars, Begun
  <2>2. Full' = Full
    BY <1>3, <1>9, <2>1 DEF Full, Walks
  <2>3. ASSUME NEW t, NearestAt(t) PROVE NearestAt(t)'
    <3>1. Waiting(t)' /\ Going(t)'
      BY <1>3, <2>1, <2>2, <2>3 DEF NearestAt, Waiting, Going
    <3>2. Covered(t)'
      BY <1>3, <2>1, <2>3 DEF NearestAt, Covered, Radius, Beyond
    <3>3. Closed(t)'
      BY <1>3, <2>1, <2>2, <2>3 DEF NearestAt, Closed
    <3> QED BY <3>1, <3>2, <3>3 DEF NearestAt
  <2>4. Ordered' = Ordered
    BY <1>3, <2>1 DEF Ordered
  <2> QED BY <1>3, <2>1, <2>3, <2>4 DEF Nearest
<1>10. CASE StartPaths \/ FollowPath
  BY <1>7, <1>10 DEF StartPaths, FollowPath, Walks
<1> QED BY <1>4, <1>5, <1>6, <1>7, <1>8, <1>9, <1>10 DEF Next

-----------------------------------------------------------------------------
(* A lookup of markers *)

\* The pages that carry a marker
Carriers(m) == {n \in Shown : Between(m, n) # {}}
MarkedNodes == ToSet(Starts) \cup UNION {Carriers(m) : m \in ToSet(Starts)}
\* t markers were looked up, the others wait
Lookup(t) ==
    /\ Len(queue) = Len(Starts) - t /\ \A i \in DOMAIN queue : queue[i] = At(Starts[t + i])
    /\ todo # {} => /\ t > 0 /\ way = At(Starts[t]) /\ Len(selected) <= request.limit
                    /\ Len(selected) = request.limit => Last(selected) = Starts[t]
\* Below the limit, everything that carries one looked up is selected, or still to follow
LookedUp(t) ==
    Len(selected) < request.limit =>
        \A j \in 1..t : /\ Starts[j] \in ToSet(selected)
                        /\ \A m \in Carriers(Starts[j]) :
                              m \in ToSet(selected) \/ \E k \in todo : j = t /\ To(k) = m
Overfull ==
    Len(selected) > request.limit =>
        /\ Len(selected) = request.limit + 1 /\ todo = {}
        /\ selected[request.limit] \in ToSet(Starts)
        /\ Last(selected) \in Carriers(selected[request.limit])
Carried ==
    Marked /\ Begun =>
        /\ ToSet(selected) \subseteq MarkedNodes /\ IsInjective(selected) /\ Overfull
        /\ \E t \in 0..Len(Starts) : Lookup(t) /\ LookedUp(t)

LEMMA InjectiveIs ==
    ASSUME NEW r, NEW D, DOMAIN r = D, \A i, j \in D : r[i] = r[j] => i = j
    PROVE  IsInjective(r)
BY DEF IsInjective

LEMMA AppendedOnce ==
    ASSUME NEW S, NEW s \in Seq(S), NEW x \in S, NEW r, r = Append(s, x),
           IsInjective(s), x \notin ToSet(s)
    PROVE  IsInjective(r)
<1>1. \A i \in 1..Len(s) : s[i] # x
  BY DEF ToSet
<1>2. /\ DOMAIN r = 1..(Len(s) + 1) /\ Len(s) \in Nat /\ DOMAIN s = 1..Len(s)
      /\ r[Len(s) + 1] = x /\ \A i \in 1..Len(s) : r[i] = s[i]
  OBVIOUS
<1>3. \A i, j \in 1..Len(s) : s[i] = s[j] => i = j
  BY <1>2 DEF IsInjective
<1>4. ASSUME NEW i \in 1..(Len(s) + 1), NEW j \in 1..(Len(s) + 1), r[i] = r[j]
      PROVE  i = j
  <2>1. CASE i = Len(s) + 1 /\ j # Len(s) + 1
    BY <1>1, <1>2, <1>4, <2>1
  <2>2. CASE i # Len(s) + 1 /\ j = Len(s) + 1
    BY <1>1, <1>2, <1>4, <2>2
  <2>3. CASE i # Len(s) + 1 /\ j # Len(s) + 1
    BY <1>2, <1>3, <1>4, <2>3
  <2> QED BY <2>1, <2>2, <2>3
<1>5. \A i, j \in 1..(Len(s) + 1) : r[i] = r[j] => i = j
  BY <1>4
<1>6. DOMAIN r = 1..(Len(s) + 1)
  BY <1>2
<1> QED BY <1>5, <1>6, InjectiveIs, Zenon

LEMMA MarkedStays ==
    ASSUME UNCHANGED input
    PROVE  /\ Shown' = Shown /\ Starts' = Starts /\ Marked' = Marked /\ request' = request
           /\ Ways' = Ways
           /\ \A n, m : Between(n, m)' = Between(n, m)
           /\ \A n : Carriers(n)' = Carriers(n)
           /\ MarkedNodes' = MarkedNodes
           /\ \A i : To(i)' = To(i)
<1>1. index' = index /\ view' = view /\ request' = request
  BY DEF input
<1>2. Shown' = Shown
  BY <1>1 DEF Shown, Approved
<1>3. /\ Starts' = Starts /\ Marked' = Marked /\ Ways' = Ways
      /\ \A n, m : Between(n, m)' = Between(n, m)
      /\ \A i : To(i)' = To(i)
  BY InputStays, EndsStay
<1>4. \A n : Carriers(n)' = Carriers(n)
  BY <1>2, <1>3 DEF Carriers
<1>5. MarkedNodes' = MarkedNodes
  BY <1>3, <1>4 DEF MarkedNodes
<1> QED BY <1>1, <1>2, <1>3, <1>4, <1>5

LEMMA MarkersAreNodes ==
    ASSUME TypeOK, Marked
    PROVE  Starts \in Seq(Nodes) /\ Len(Starts) \in Nat
           /\ \A i \in 1..Len(Starts) : Starts[i] \in ToSet(Starts) /\ Starts[i] \in Nodes
<1>1. Starts \in Seq(Nodes)
  BY DEF TypeOK, Request, Starts, Marked, Listing
<1> QED BY <1>1 DEF ToSet

LEMMA StartWalkCarried ==
    ASSUME GInv, StartWalk, Marked
    PROVE  Carried'
<1>1. UNCHANGED input /\ selected' = <<>> /\ queue' = [i \in DOMAIN Starts |-> At(Starts[i])]
      /\ todo' = {}
  BY DEF StartWalk, GInv, Phased
<1>2. Starts' = Starts /\ request' = request /\ request.limit \in Nat /\ 1 <= request.limit
  BY <1>1, MarkedStays, QueryAssumption DEF GInv, TypeOK, Request
<1>3. Starts \in Seq(Nodes) /\ Len(Starts) \in Nat
  BY MarkersAreNodes DEF GInv
<1>4. Lookup(0)'
  BY <1>1, <1>2, <1>3 DEF Lookup
<1>5. LookedUp(0)'
  BY DEF LookedUp
<1>6. ToSet(selected') = {} /\ IsInjective(selected') /\ Overfull'
  BY <1>1, <1>2 DEF ToSet, IsInjective, Overfull
<1>7. 0 \in 0..Len(Starts')
  BY <1>2, <1>3
<1> QED BY <1>4, <1>5, <1>6, <1>7 DEF Carried

LEMMA TakeCarried ==
    ASSUME GInv, ViewShown, Take, Marked, Carried
    PROVE  Carried'
<1> DEFINE node == Last(way'.nodes)
<1>1. /\ UNCHANGED input /\ phase = "walk" /\ todo = {} /\ queue # <<>> /\ ~Full
      /\ way' = Head(queue) /\ queue' = Tail(queue) /\ todo' = Adjacent(node)
      /\ selected' = IF node \in ToSet(selected) THEN selected ELSE Append(selected, node)
  BY DEF Take
<1>2. /\ Shown' = Shown /\ Starts' = Starts /\ request' = request
      /\ \A n : Carriers(n)' = Carriers(n)
      /\ MarkedNodes' = MarkedNodes
      /\ \A i : To(i)' = To(i)
  BY <1>1, MarkedStays
<1>3. ToSet(selected) \subseteq MarkedNodes /\ IsInjective(selected)
  BY <1>1 DEF Carried, Begun
<1>4. PICK t \in 0..Len(Starts) : Lookup(t) /\ LookedUp(t)
  BY <1>1 DEF Carried, Begun
<1> DEFINE u == t + 1
<1>5. /\ Starts \in Seq(Nodes) /\ Len(Starts) \in Nat
      /\ \A i \in 1..Len(Starts) : Starts[i] \in ToSet(Starts) /\ Starts[i] \in Nodes
  BY MarkersAreNodes DEF GInv
<1>6. queue \in Seq(Way) /\ selected \in Seq(Nodes) /\ Len(selected) \in Nat
      /\ request.limit \in Nat /\ Len(selected) < request.limit
  <2>1. queue \in Seq(Way) /\ selected \in Seq(Nodes) /\ request.limit \in Nat
    BY QueryAssumption DEF GInv, TypeOK, Request
  <2>2. ~(request.limit <= Len(selected))
    BY <1>1 DEF Full, Marked, Ways
  <2> QED BY <2>1, <2>2
<1>7. Len(queue) = Len(Starts) - t /\ \A i \in 1..Len(queue) : queue[i] = At(Starts[t + i])
  BY <1>4, <1>6 DEF Lookup
<1>8. u \in 1..Len(Starts) /\ way' = At(Starts[u]) /\ node = Starts[u]
  <2>1. u \in 1..Len(Starts) /\ 1 \in 1..Len(queue) /\ Head(queue) = queue[1]
    BY <1>1, <1>5, <1>6, <1>7
  <2>2. way' = At(Starts[u])
    BY <1>1, <1>7, <2>1
  <2> QED BY <2>1, <2>2 DEF At, Last
<1>9. /\ ToSet(selected') = ToSet(selected) \cup {node} /\ IsInjective(selected')
      /\ Len(selected') \in Nat /\ Len(selected') <= request.limit
      /\ Len(selected') = request.limit => Last(selected') = Starts[u]
  <2>0. node \in Nodes
    BY <1>5, <1>8
  <2>1. CASE node \in ToSet(selected)
    BY <1>1, <1>3, <1>6, <2>1
  <2>2. CASE node \notin ToSet(selected)
    <3>1. selected' = Append(selected, node)
      BY <1>1, <2>2
    <3>2. ToSet(selected') = ToSet(selected) \cup {node}
      BY <1>6, <2>0, <3>1, Elements
    <3>3. IsInjective(selected')
      <4>1. selected \in Seq(Nodes)
        BY <1>6
      <4>2. IsInjective(selected)
        BY <1>3
      <4> QED BY <2>0, <2>2, <3>1, <4>1, <4>2, AppendedOnce, Zenon
    <3>4. Len(selected') = Len(selected) + 1 /\ Last(selected') = node
      BY <1>6, <2>0, <3>1 DEF Last
    <3> QED BY <1>6, <1>8, <3>2, <3>3, <3>4
  <2> QED BY <2>1, <2>2
<1>10. Lookup(u)'
  <2>1. Len(queue') = Len(Starts) - u /\ DOMAIN queue' = 1..Len(queue')
        /\ \A i \in 1..Len(queue') : queue'[i] = queue[i + 1] /\ i + 1 \in 1..Len(queue)
    BY <1>1, <1>5, <1>6, <1>7
  <2>2. \A i \in 1..Len(queue') : queue'[i] = At(Starts[t + (i + 1)]) /\ t + (i + 1) = u + i
    BY <1>5, <1>7, <2>1
  <2>3. u > 0
    BY <1>5, <1>8
  <2>4. \A i \in 1..Len(queue') : queue'[i] = At(Starts[u + i])
    BY <2>2
  <2> QED BY <1>2, <1>8, <1>9, <2>1, <2>3, <2>4 DEF Lookup, At
<1>11. LookedUp(u)'
  <2>1. \A j \in 1..t : /\ Starts[j] \in ToSet(selected)
                        /\ \A m \in Carriers(Starts[j]) : m \in ToSet(selected)
    BY <1>1, <1>4, <1>6 DEF LookedUp
  <2>2. \A m \in Carriers(Starts[u]) : \E k \in todo' : To(k) = m
    <3> SUFFICES ASSUME NEW m \in Carriers(Starts[u]) PROVE \E k \in Adjacent(Starts[u]) : To(k) = m
      BY <1>1, <1>8
    <3>1. PICK e : e \in Between(Starts[u], m)
      BY DEF Carriers
    <3> QED BY <3>1, AdjacentAll DEF GInv
  <2>3. \A j \in 1..u : j \in 1..t \/ j = u
    BY <1>5
  <2>4. Starts[u] \in ToSet(selected')
    BY <1>8, <1>9
  <2>5. ToSet(selected) \subseteq ToSet(selected')
    BY <1>9
  <2>6. \A j \in 1..u : /\ Starts[j] \in ToSet(selected')
                        /\ \A m \in Carriers(Starts[j]) :
                              m \in ToSet(selected') \/ \E k \in todo' : j = u /\ To(k) = m
    BY <2>1, <2>2, <2>3, <2>4, <2>5
  <2> QED BY <1>2, <2>6 DEF LookedUp
<1>12. Overfull'
  BY <1>2, <1>6, <1>9 DEF Overfull
<1>13. ToSet(selected') \subseteq MarkedNodes
  BY <1>3, <1>5, <1>8, <1>9 DEF MarkedNodes
<1>14. u \in 0..Len(Starts')
  BY <1>2, <1>8
<1> QED BY <1>2, <1>9, <1>10, <1>11, <1>12, <1>13, <1>14 DEF Carried

LEMMA FollowCarried ==
    ASSUME GInv, ViewShown, Follow, Marked, Carried
    PROVE  Carried'
<1> DEFINE k == Min(todo)
           new == To(k) \notin ToSet(selected)
           full == Len(selected') >= request.limit
<1>1. /\ UNCHANGED input /\ phase = "walk" /\ todo # {} /\ way' = way /\ queue' = queue
      /\ selected' = IF new THEN Append(selected, To(k)) ELSE selected
      /\ todo' = IF full THEN {} ELSE todo \ {k}
  BY DEF Follow
<1>2. /\ Shown' = Shown /\ Starts' = Starts /\ request' = request
      /\ \A n : Carriers(n)' = Carriers(n)
      /\ MarkedNodes' = MarkedNodes
      /\ \A i : To(i)' = To(i)
  BY <1>1, MarkedStays
<1>3. ToSet(selected) \subseteq MarkedNodes /\ IsInjective(selected)
  BY <1>1 DEF Carried, Begun
<1>4. PICK t \in 0..Len(Starts) : Lookup(t) /\ LookedUp(t)
  BY <1>1 DEF Carried, Begun
<1>5. /\ Starts \in Seq(Nodes) /\ Len(Starts) \in Nat
      /\ \A i \in 1..Len(Starts) : Starts[i] \in ToSet(Starts) /\ Starts[i] \in Nodes
  BY MarkersAreNodes DEF GInv
<1>6. /\ t \in 1..Len(Starts) /\ way = At(Starts[t]) /\ Last(way.nodes) = Starts[t]
      /\ selected \in Seq(Nodes) /\ Len(selected) \in Nat /\ request.limit \in Nat
      /\ Len(selected) <= request.limit
      /\ Len(selected) = request.limit => Last(selected) = Starts[t]
  <2>1. /\ t > 0 /\ way = At(Starts[t]) /\ Len(selected) <= request.limit
        /\ Len(selected) = request.limit => Last(selected) = Starts[t]
    BY <1>1, <1>4 DEF Lookup
  <2>2. selected \in Seq(Nodes) /\ request.limit \in Nat
    BY QueryAssumption DEF GInv, TypeOK, Request
  <2>3. t \in 1..Len(Starts)
    BY <1>4, <1>5, <2>1
  <2> QED BY <2>1, <2>2, <2>3 DEF At, Last
<1>7. k \in todo /\ To(k) \in Nodes /\ To(k) \in Carriers(Starts[t])
  <2>1. todo \in SUBSET Nat /\ todo # {}
    BY <1>1 DEF GInv, TypeOK, E
  <2>2. k \in todo
    BY <2>1, MinIsLeast
  <2>3. k \in Adjacent(Starts[t])
    BY <1>1, <1>6, <2>2 DEF GInv, Current
  <2>4. To(k) \in Nodes /\ Between(Starts[t], To(k)) # {}
    BY <2>3, AdjacentLeads DEF GInv
  <2> QED BY <2>2, <2>4, EndsAreShown DEF Carriers
<1>8. /\ ToSet(selected') = ToSet(selected) \cup {To(k)} /\ IsInjective(selected')
      /\ Len(selected') \in Nat /\ Len(selected) <= Len(selected')
  <2>1. CASE ~new
    BY <1>1, <1>3, <1>6, <2>1
  <2>2. CASE new
    <3>1. selected' = Append(selected, To(k))
      BY <1>1, <2>2
    <3>2. ToSet(selected') = ToSet(selected) \cup {To(k)}
      BY <1>6, <1>7, <3>1, Elements
    <3>3. IsInjective(selected')
      <4>1. selected \in Seq(Nodes)
        BY <1>6
      <4>2. IsInjective(selected)
        BY <1>3
      <4>3. To(k) \in Nodes
        BY <1>7
      <4> QED BY <2>2, <3>1, <4>1, <4>2, <4>3, AppendedOnce, Zenon
    <3> QED BY <1>6, <1>7, <3>1, <3>2, <3>3
  <2> QED BY <2>1, <2>2
<1>9. todo' # {} => todo' = todo \ {k} /\ Len(selected') < request.limit
  BY <1>1, <1>6, <1>8
<1>10. Lookup(t)'
  <2>1. Len(queue) = Len(Starts) - t /\ \A i \in DOMAIN queue : queue[i] = At(Starts[t + i])
    BY <1>4 DEF Lookup
  <2>2. t > 0
    BY <1>5, <1>6
  <2>3. todo' # {} => Len(selected') <= request.limit /\ Len(selected') # request.limit
    BY <1>6, <1>8, <1>9
  <2> QED BY <1>1, <1>2, <1>6, <2>1, <2>2, <2>3 DEF Lookup, At
<1>11. LookedUp(t)'
  <2> SUFFICES ASSUME Len(selected') < request.limit, NEW j \in 1..t
               PROVE  /\ Starts[j] \in ToSet(selected')
                      /\ \A m \in Carriers(Starts[j]) :
                            m \in ToSet(selected') \/ \E i \in todo' : j = t /\ To(i) = m
    BY <1>2 DEF LookedUp
  <2>1. Len(selected) < request.limit /\ todo' = todo \ {k}
    BY <1>1, <1>6, <1>8
  <2>2. /\ Starts[j] \in ToSet(selected)
        /\ \A m \in Carriers(Starts[j]) :
              m \in ToSet(selected) \/ \E i \in todo : j = t /\ To(i) = m
    BY <1>4, <2>1 DEF LookedUp
  <2> QED BY <1>8, <2>1, <2>2
<1>12. Overfull'
  <2> SUFFICES ASSUME Len(selected') > request.limit
               PROVE  /\ Len(selected') = request.limit + 1 /\ todo' = {}
                      /\ selected'[request.limit] \in ToSet(Starts)
                      /\ Last(selected') \in Carriers(selected'[request.limit])
    BY <1>2 DEF Overfull
  <2>1. new
    BY <1>1, <1>6
  <2>2. /\ Len(selected') = Len(selected) + 1 /\ selected'[Len(selected) + 1] = To(k)
        /\ \A i \in 1..Len(selected) : selected'[i] = selected[i]
    BY <1>1, <1>6, <1>7, <2>1
  <2>3. Len(selected) = request.limit /\ 1 <= request.limit
    BY <1>6, <2>2, QueryAssumption DEF GInv, TypeOK, Request
  <2>4. selected'[request.limit] = Starts[t]
    BY <1>6, <2>2, <2>3 DEF Last
  <2>5. Last(selected') = To(k)
    BY <2>2 DEF Last
  <2> QED BY <1>1, <1>5, <1>6, <1>7, <1>8, <2>2, <2>3, <2>4, <2>5
<1>13. ToSet(selected') \subseteq MarkedNodes
  BY <1>3, <1>5, <1>6, <1>7, <1>8 DEF MarkedNodes
<1> QED BY <1>2, <1>4, <1>8, <1>10, <1>11, <1>12, <1>13 DEF Carried

LEMMA CarriedStays ==
    ASSUME GInv, ViewShown, [Next]_vars, Carried
    PROVE  Carried'
<1>1. UNCHANGED input
  BY DEF Next, vars, input, Refuse, StartWalk, StartPaths, Take, Follow, FollowPath, Respond
<1>2. /\ Shown' = Shown /\ Starts' = Starts /\ Marked' = Marked /\ request' = request
      /\ \A n : Carriers(n)' = Carriers(n)
      /\ MarkedNodes' = MarkedNodes
      /\ \A i : To(i)' = To(i)
  BY <1>1, MarkedStays
<1>3. CASE ~Marked
  BY <1>2, <1>3 DEF Carried
<1>4. CASE Marked /\ StartWalk
  BY <1>4, StartWalkCarried
<1>5. CASE Marked /\ Take
  BY <1>5, TakeCarried
<1>6. CASE Marked /\ Follow
  BY <1>6, FollowCarried
<1>7. CASE Refuse
  BY <1>7 DEF Refuse, Carried, Begun
<1>8. CASE Respond \/ UNCHANGED vars
  <2>1. UNCHANGED <<queue, way, todo, selected>> /\ (Begun' => Begun)
    BY <1>8 DEF Respond, vars, Begun
  <2>2. ASSUME NEW t, Lookup(t), LookedUp(t) PROVE Lookup(t)' /\ LookedUp(t)'
    BY <1>2, <2>1, <2>2 DEF Lookup, LookedUp, At
  <2>3. Overfull' = Overfull
    BY <1>2, <2>1 DEF Overfull
  <2> QED BY <1>2, <2>1, <2>2, <2>3 DEF Carried
<1>9. CASE StartPaths \/ FollowPath
  BY <1>3, <1>9 DEF StartPaths, FollowPath, Ways, Marked
<1> QED BY <1>3, <1>4, <1>5, <1>6, <1>7, <1>8, <1>9 DEF Next

-----------------------------------------------------------------------------
(* What a walk answers with *)

\* A sequence without duplicates has as many elements as entries
LEMMA CountOfOnce ==
    ASSUME NEW S, NEW s \in Seq(S), IsInjective(s)
    PROVE  IsFiniteSet(ToSet(s)) /\ Cardinality(ToSet(s)) = Len(s)
<1>1. Len(s) \in Nat /\ DOMAIN s = 1..Len(s)
  OBVIOUS
<1>2. IsFiniteSet(1..Len(s)) /\ Cardinality(1..Len(s)) = Len(s)
  BY <1>1, FS_Interval
<1> DEFINE T == ToSet(s)
           D == 1..Len(s)
<1>3. s \in [D -> T]
  BY <1>1 DEF ToSet
<1>4. \A x \in T : \E i \in D : s[i] = x
  BY <1>1 DEF ToSet
<1>5. s \in Surjection(D, T)
  BY <1>3, <1>4 DEF Surjection
<1>6. s \in Injection(D, T)
  BY <1>1, <1>3 DEF Injection, IsInjective
<1> HIDE DEF D, T
<1>7. IsFiniteSet(D) /\ Cardinality(D) = Len(s)
  BY <1>2 DEF D
<1>8. IsFiniteSet(T) /\ Cardinality(T) = Cardinality(D)
  BY <1>5, <1>6, <1>7, FS_Surjection
<1> QED BY <1>7, <1>8 DEF T

\* The elements of a sequence are finitely many
LEMMA FinitelyMany ==
    ASSUME NEW S, NEW s \in Seq(S)
    PROVE  IsFiniteSet(ToSet(s))
<1> DEFINE T == ToSet(s)
           D == 1..Len(s)
<1>1. Len(s) \in Nat /\ DOMAIN s = 1..Len(s)
  OBVIOUS
<1>2. s \in Surjection(D, T)
  BY <1>1 DEF Surjection, ToSet
<1>3. IsFiniteSet(D)
  BY <1>1, FS_Interval
<1> HIDE DEF D, T
<1>4. IsFiniteSet(T)
  BY <1>2, <1>3, FS_Surjection
<1> QED BY <1>4 DEF T

\* The edges of a view lead to finitely many nodes
LEMMA FinitelyLed ==
    ASSUME TypeOK, InputOK
    PROVE  \E all : /\ IsFiniteSet(all) /\ ToSet(Starts) \subseteq all
                    /\ \A n, m : Between(n, m) # {} => m \in all
<1> DEFINE sources == [i \in 1..E |-> view.edges[i].source]
           targets == [i \in 1..E |-> view.edges[i].target]
           all == ToSet(Starts) \cup (ToSet(sources) \cup ToSet(targets))
<1>1. view.edges \in Seq(Edge) /\ E \in Nat /\ DOMAIN view.edges = 1..E
  BY DEF TypeOK, E
<1>2. ASSUME NEW n, NEW m, Between(n, m) # {} PROVE m \in all
  <2>1. PICK e \in 1..E : view.edges[e].source = m \/ view.edges[e].target = m
    BY <1>1, <1>2 DEF Between
  <2>2. DOMAIN sources = 1..E /\ DOMAIN targets = 1..E
    OBVIOUS
  <2>3. sources[e] = m \/ targets[e] = m
    BY <2>1
  <2>4. m \in ToSet(sources) \/ m \in ToSet(targets)
    BY <2>1, <2>2, <2>3 DEF ToSet
  <2> QED BY <2>4
<1>3. IsFiniteSet(all)
  <2>1. Starts \in Seq(Nodes)
    <3>1. request.start \in Seq(Nodes)
      BY DEF TypeOK, Request
    <3>2. CASE Listing
      BY <3>1, <3>2 DEF Starts
    <3>3. CASE ~Listing
      BY <3>1, <3>3 DEF Starts, StartNode, InputOK
    <3> QED BY <3>2, <3>3
  <2>2. sources \in Seq({view.edges[i].source : i \in 1..E})
        /\ targets \in Seq({view.edges[i].target : i \in 1..E})
    BY <1>1
  <2> HIDE DEF sources, targets
  <2>3. IsFiniteSet(ToSet(Starts)) /\ IsFiniteSet(ToSet(sources)) /\ IsFiniteSet(ToSet(targets))
    BY <2>1, <2>2, FinitelyMany
  <2> QED BY <2>3, FS_Union
<1>4. ToSet(Starts) \subseteq all
  OBVIOUS
<1> HIDE DEF all
<1> QED BY <1>2, <1>3, <1>4

\* A walk can reach finitely many nodes
LEMMA FinitelyReached ==
    ASSUME TypeOK, InputOK
    PROVE  IsFiniteSet(Reachable)
<1> DEFINE L == request.depth
<1>1. PICK all : /\ IsFiniteSet(all) /\ ToSet(Starts) \subseteq all
                 /\ \A n, m : Between(n, m) # {} => m \in all
  BY FinitelyLed
<1> DEFINE N == {d \in 0..L : Within[d] \subseteq all}
<1>2. L \in Nat
  BY DepthIsNat
<1>3. 0 \in N
  BY <1>1, <1>2, WithinIs DEF IsWithin, WithinStep
<1>4. ASSUME NEW d \in 0..L, d \in N, d < L PROVE d + 1 \in N
  <2>1. d + 1 \in 0..L /\ d + 1 # 0 /\ (d + 1) - 1 = d
    BY <1>2, <1>4
  <2>2. Within[d + 1] = Within[d] \cup Neighbours(Within[d])
    BY <2>1, WithinIs DEF IsWithin, WithinStep
  <2>3. Neighbours(Within[d]) \subseteq all
    BY <1>1 DEF Neighbours
  <2> QED BY <1>4, <2>1, <2>2, <2>3
<1>5. \A d \in 0..L : d \in N /\ d < L => d + 1 \in N
  BY <1>4, Zenon
<1> HIDE DEF N
<1>6. 0..L \subseteq N
  BY <1>2, <1>3, <1>5, Upto, Zenon
<1>7. Reachable \subseteq all
  BY <1>2, <1>6 DEF N, Reachable
<1> QED BY <1>1, <1>7, FS_Subset

EndedHolds == (phase = "ask" => queue = <<>> /\ paths = <<>>) /\ Ended

LEMMA EndedStays ==
    ASSUME GInv, [Next]_vars, EndedHolds
    PROVE  EndedHolds'
<1>1. CASE Refuse \/ Take \/ Follow \/ FollowPath \/ StartWalk
  BY <1>1 DEF Refuse, Take, Follow, FollowPath, StartWalk, EndedHolds, Ended
<1>2. CASE StartPaths
  BY <1>2 DEF StartPaths, EndedHolds, Ended, GInv, Phased
<1>3. CASE Respond
  <2>1. request' = request /\ paths' = paths /\ selected' = selected /\ queue' = queue
        /\ todo' = todo
    BY <1>3 DEF Respond, input
  <2>2. Full' = Full
    BY <2>1 DEF Full, Ways
  <2> QED BY <1>3, <2>1, <2>2 DEF Respond, EndedHolds, Ended
<1>4. CASE UNCHANGED vars
  BY <1>4 DEF vars, EndedHolds, Ended, Full, Ways
<1> QED BY <1>1, <1>2, <1>3, <1>4 DEF Next

\* The answer of a walk is the first nodes selected
LEMMA AnswerOfWalk ==
    ASSUME GInv, Walked, Nearest
    PROVE  LET k == Len(AnswerNodes) IN
           /\ k \in 0..Len(selected) /\ AnswerNodes \in Seq(Nodes)
           /\ k <= request.limit /\ (k = Len(selected) \/ k = request.limit)
           /\ \A i \in 1..k : AnswerNodes[i] = selected[i]
<1>1. selected \in Seq(Nodes) /\ Len(selected) \in Nat
      /\ request.limit \in Nat /\ request.limit >= 1
  BY QueryAssumption DEF GInv, TypeOK, Request
<1>2. Walks /\ ~Ways
  BY DEF Walked, Walks, Marked, Ways
<1>3. CASE request.operation = "neighborhood"
  <2> DEFINE m == Min({request.limit, Len(selected)})
  <2>1. AnswerNodes = SubSeq(selected, 1, m)
    BY <1>2, <1>3 DEF AnswerNodes
  <2>2. m \in {request.limit, Len(selected)} /\ m <= request.limit /\ m <= Len(selected)
    <3>1. {request.limit, Len(selected)} \in SUBSET Nat /\ {request.limit, Len(selected)} # {}
      BY <1>1
    <3> QED BY <3>1, MinIsLeast
  <2>3. m \in 0..Len(selected)
    BY <1>1, <2>2
  <2> HIDE DEF m
  <2>4. /\ Len(SubSeq(selected, 1, m)) = m /\ SubSeq(selected, 1, m) \in Seq(Nodes)
        /\ \A i \in 1..m : SubSeq(selected, 1, m)[i] = selected[i]
    BY <1>1, <2>3
  <2> QED BY <2>1, <2>2, <2>3, <2>4
<1>4. CASE request.operation # "neighborhood"
  <2>1. AnswerNodes = selected
    BY <1>2, <1>4 DEF AnswerNodes
  <2>2. ~Listing /\ Begun
    BY <1>2, <1>4 DEF Walked, Walks, Marked, Listing, Begun
  <2>3. Len(selected) <= request.limit
    BY <1>2, <2>2 DEF Nearest
  <2> QED BY <1>1, <2>1, <2>3
<1> QED BY <1>3, <1>4

\* A walk that ends below its limit has selected all that it can reach
LEMMA AllReached ==
    ASSUME GInv, ViewShown, Walked, Nearest, Ended, ~Full
    PROVE  Reachable \subseteq ToSet(selected)
<1> DEFINE L == request.depth
           N == {d \in 0..L : \A n \in Reachable : Distance(n) <= d => n \in ToSet(selected)}
<1>1. TypeOK /\ L \in Nat /\ Walks /\ todo = {} /\ queue = <<>> /\ Begun
      /\ selected \in Seq(Nodes) /\ Len(selected) \in Nat
  BY DepthIsNat DEF GInv, TypeOK, Walked, Walks, Marked, Ways, Ended, Begun
<1>2. PICK t \in 0..Len(selected) : NearestAt(t)
  BY <1>1 DEF Nearest
<1>3. t = Len(selected)
  BY <1>1, <1>2 DEF NearestAt, Waiting
<1>4. \A n \in Reachable : Distance(n) \in 0..L
  BY <1>1, Distances
<1>5. 0 \in N
  <2>1. Radius(t) \in Nat
    <3>1. t > 0 => selected[t] \in Reachable
      BY <1>1, <1>2 DEF Nearest, ToSet
    <3> QED BY <1>1, <1>2, <1>4, <3>1 DEF Radius
  <2>2. \A n \in Reachable : Distance(n) <= Radius(t) => n \in ToSet(selected)
    BY <1>2 DEF NearestAt, Covered
  <2> QED BY <1>1, <1>4, <2>1, <2>2
<1>6. ASSUME NEW d \in 0..L, d \in N, d < L PROVE d + 1 \in N
  <2> SUFFICES ASSUME NEW m \in Reachable, Distance(m) <= d + 1 PROVE m \in ToSet(selected)
    BY <1>1, <1>6
  <2>1. CASE Distance(m) <= d
    BY <1>6, <2>1
  <2>2. CASE ~(Distance(m) <= d)
    <3>1. Distance(m) > 0
      BY <1>1, <1>4, <2>2
    <3>2. PICK n \in Reachable : Distance(n) < Distance(m) /\ Between(n, m) # {}
      BY <1>1, <3>1, NearerBefore
    <3>3. Distance(n) <= d /\ Distance(n) < request.depth
      BY <1>1, <1>4, <1>6, <3>2
    <3>4. n \in ToSet(selected)
      BY <1>6, <3>3
    <3>5. PICK j \in 1..t : n = selected[j]
      BY <1>1, <1>3, <3>4 DEF ToSet
    <3>6. m \in Shown
      BY <3>2, EndsAreShown
    <3> QED BY <1>1, <1>2, <3>2, <3>3, <3>5, <3>6 DEF NearestAt, Closed
  <2> QED BY <2>1, <2>2
<1>7. \A d \in 0..L : d \in N /\ d < L => d + 1 \in N
  BY <1>6, Zenon
<1> HIDE DEF N
<1>8. 0..L \subseteq N
  BY <1>1, <1>5, <1>7, Upto, Zenon
<1>9. L \in N
  BY <1>1, <1>8
<1> QED BY <1>1, <1>4, <1>9 DEF N

LEMMA WalkedNearest ==
    ASSUME GInv, ViewShown, Nearest, Ended
    PROVE  NearestFirst
<1> SUFFICES ASSUME Walked PROVE NearestFirst
  BY DEF NearestFirst
<1> DEFINE A == AnswerNodes
           k == Len(A)
           all == Within[request.depth]
           distance == [n \in all |-> Min({d \in DOMAIN Within : n \in Within[d]})]
<1>1. /\ TypeOK /\ request.depth \in Nat /\ Walks /\ Begun /\ request.limit \in Nat
      /\ request.limit >= 1 /\ selected \in Seq(Nodes) /\ Len(selected) \in Nat
      /\ DOMAIN selected = 1..Len(selected)
  BY DepthIsNat, QueryAssumption
     DEF GInv, TypeOK, Request, Walked, Walks, Marked, Ways, Begun
<1>2. /\ k \in 0..Len(selected) /\ A \in Seq(Nodes) /\ DOMAIN A = 1..k /\ k \in Nat
      /\ k <= request.limit /\ (k = Len(selected) \/ k = request.limit)
      /\ \A i \in 1..k : A[i] = selected[i]
  BY AnswerOfWalk
<1>a. /\ k \in Nat /\ k <= Len(selected) /\ k <= request.limit
      /\ k = Len(selected) \/ k = request.limit
  <2>1. k \in 0..Len(selected) /\ Len(selected) \in Nat /\ k <= request.limit
        /\ (k = Len(selected) \/ k = request.limit)
    BY <1>1, <1>2, Zenon
  <2> HIDE DEF k
  <2> QED BY <2>1
<1>b. request.limit \in Nat /\ Len(selected) \in Nat
  BY <1>1, Zenon
<1>c. \A i \in 1..k : A[i] = selected[i]
  BY <1>2, Zenon
<1>3. all = Reachable
  BY DEF Reachable
<1>4. \A n \in all : distance[n] = Distance(n)
  <2>1. DOMAIN Within = 0..request.depth
    BY <1>1, WithinIs DEF IsWithin
  <2> QED BY <2>1 DEF Distance
<1>5. \A n \in Reachable : Distance(n) \in Nat
  BY <1>1, Distances
<1> HIDE DEF A, all, distance
<1>6. /\ ToSet(selected) \subseteq Reachable /\ IsInjective(selected)
      /\ \A i, j \in 1..Len(selected) : i <= j => Distance(selected[i]) <= Distance(selected[j])
  BY <1>1 DEF Nearest, Ordered, GInv, SelectedAreReached
<1>7. \A i \in 1..k : i \in 1..Len(selected) /\ A[i] = selected[i] /\ A[i] \in ToSet(selected)
  <2> SUFFICES ASSUME NEW i \in 1..k
               PROVE  i \in 1..Len(selected) /\ A[i] = selected[i] /\ A[i] \in ToSet(selected)
    OBVIOUS
  <2>1. i \in 1..Len(selected) /\ A[i] = selected[i]
    <3>1. A[i] = selected[i]
      BY <1>c
    <3> HIDE DEF k
    <3> QED BY <1>a, <1>b, <3>1
  <2> QED BY <1>1, <2>1 DEF ToSet
<1>8. ToSet(A) \subseteq ToSet(selected)
  BY <1>2, <1>7 DEF ToSet
<1>9. IsInjective(A)
  <2>1. \A i, j \in 1..k : A[i] = A[j] => i = j
    BY <1>1, <1>6, <1>7 DEF IsInjective
  <2> QED BY <1>2, <2>1, InjectiveIs, Zenon
<1>10. IsFiniteSet(Reachable) /\ Cardinality(Reachable) \in Nat
       /\ Cardinality(ToSet(selected)) = Len(selected)
       /\ Cardinality(ToSet(selected)) <= Cardinality(Reachable)
  <2>1. IsFiniteSet(Reachable)
    BY FinitelyReached DEF GInv
  <2> QED BY <1>1, <1>6, <2>1, FS_Subset, FS_CardinalityType, CountOfOnce
<1>11. Full <=> request.limit <= Len(selected)
  BY <1>1 DEF Full, Walks
<1>12. ~Full => Reachable = ToSet(selected)
  BY <1>6, AllReached
<1>13. Len(A) = Min({request.limit, Cardinality(all)})
  <2> DEFINE m == Min({request.limit, Cardinality(Reachable)})
  <2>1. m \in {request.limit, Cardinality(Reachable)} /\ m <= request.limit
        /\ m <= Cardinality(Reachable)
    <3>1. {request.limit, Cardinality(Reachable)} \in SUBSET Nat
          /\ {request.limit, Cardinality(Reachable)} # {}
      BY <1>1, <1>10
    <3> QED BY <3>1, MinIsLeast
  <2> HIDE DEF m
  <2>2. Len(selected) <= Cardinality(Reachable)
        /\ (request.limit <= Len(selected) \/ Len(selected) = Cardinality(Reachable))
    BY <1>10, <1>11, <1>12, Zenon
  <2>3. m = request.limit \/ m = Cardinality(Reachable)
    BY <2>1
  <2>4. k = m
    <3>1. Cardinality(Reachable) \in Nat
      BY <1>10
    <3> HIDE DEF k
    <3> QED BY <1>a, <1>b, <2>1, <2>2, <2>3, <3>1
  <2> QED BY <1>3, <2>4 DEF m
<1>14. ASSUME NEW i \in DOMAIN A, NEW j \in DOMAIN A, i < j
       PROVE  distance[A[i]] <= distance[A[j]]
  <2>1. i \in 1..k /\ j \in 1..k /\ i <= j
    BY <1>2, <1>14
  <2>2. i \in 1..Len(selected) /\ j \in 1..Len(selected) /\ A[i] = selected[i] /\ A[j] = selected[j]
        /\ A[i] \in all /\ A[j] \in all
    BY <1>3, <1>6, <1>7, <2>1
  <2> QED BY <1>4, <1>6, <2>1, <2>2
<1>15. ASSUME NEW n \in all \ ToSet(A) PROVE distance[n] >= distance[Last(A)]
  <2>1. k > 0 /\ Last(A) = selected[k] /\ k \in 1..Len(selected)
    <3>1. k > 0
      <4>1. CASE k = 0
        <5>1. Len(selected) = 0 /\ ~Full
          BY <1>1, <1>2, <1>11, <4>1
        <5>2. ToSet(selected) = {}
          BY <1>1, <5>1 DEF ToSet
        <5> QED BY <1>3, <1>12, <5>1, <5>2
      <4> QED BY <1>2, <4>1
    <3>2. Last(A) = A[k]
      BY DEF Last
    <3> QED BY <1>2, <3>1, <3>2
  <2>2. /\ distance[n] = Distance(n) /\ distance[Last(A)] = Distance(selected[k])
        /\ Distance(n) \in Nat /\ Distance(selected[k]) \in Nat
    <3>1. selected[k] \in Reachable
      BY <1>1, <1>6, <2>1 DEF ToSet
    <3> QED BY <1>3, <1>4, <1>5, <1>15, <2>1, <3>1
  <2>3. CASE n \in ToSet(selected)
    <3>1. PICK i \in 1..Len(selected) : selected[i] = n
      BY <1>1, <2>3 DEF ToSet
    <3>2. ~(i <= k)
      BY <1>2, <1>15, <3>1 DEF ToSet
    <3>3. k <= i
      BY <1>2, <3>1, <3>2
    <3> QED BY <1>6, <2>1, <2>2, <3>1, <3>3
  <2>4. CASE n \notin ToSet(selected)
    <3>1. PICK t \in 0..Len(selected) : NearestAt(t)
      BY <1>1 DEF Nearest
    <3>2. n \in Reachable /\ ~(Distance(n) <= Radius(t)) /\ Distance(selected[k]) <= Beyond(t)
      BY <1>1, <1>3, <1>15, <2>1, <2>4, <3>1 DEF NearestAt, Covered
    <3>3. CASE t = 0
      BY <2>2, <3>2, <3>3 DEF Beyond
    <3>4. CASE t # 0
      <4>1. Distance(selected[t]) \in Nat
        BY <1>1, <1>5, <1>6, <3>1, <3>4 DEF ToSet
      <4> QED BY <2>2, <3>2, <3>4, <4>1 DEF Radius, Beyond
    <3> QED BY <3>3, <3>4
  <2> QED BY <2>3, <2>4
<1>16. ToSet(A) \subseteq all
  BY <1>3, <1>6, <1>8
<1> QED BY <1>9, <1>13, <1>14, <1>15, <1>16, Zenon DEF NearestFirst, A, all, distance

-----------------------------------------------------------------------------
(* The edges of an answer *)

\* Entry p of what is picked is entry q, and comes after all that is picked of what is before it
PickedFrom(g, s, set, p, q) ==
    /\ p <= q /\ g[p] = s[q] /\ s[q] \in set
    /\ \A r \in 1..(q - 1) : s[r] \in set => \E o \in 1..(p - 1) : g[o] = s[r]

\* What is picked comes at its place or before it, after all that is picked of what is before it
LEMMA PickedOrder ==
    ASSUME NEW S, NEW s \in Seq(S), NEW set, NEW p \in DOMAIN Picked(s, set)
    PROVE  \E q \in 1..Len(s) : PickedFrom(Picked(s, set), s, set, p, q)
<1> DEFINE G == CHOOSE g : g = [n \in 0..Len(s) |-> PickStep(s, set, g, n)]
           Good(g, x, q) == PickedFrom(g, s, set, x, q)
           N == {n \in 0..Len(s) :
                   /\ G[n] \in Seq(S) /\ Len(G[n]) <= n
                   /\ \A r \in 1..n : s[r] \in set => \E o \in 1..Len(G[n]) : G[n][o] = s[r]
                   /\ \A x \in 1..Len(G[n]) : \E q \in 1..n : Good(G[n], x, q)}
<1>1. Picked(s, set) = G[Len(s)]
  BY DEF Picked, PickStep
<1>2. G = [n \in 0..Len(s) |-> PickStep(s, set, G, n)]
  BY PickedExists
<1> HIDE DEF G
<1>3. 0 \in N
  <2>1. G[0] = <<>>
    BY <1>2 DEF PickStep
  <2>2. Len(G[0]) = 0 /\ G[0] \in Seq(S) /\ 0 \in 0..Len(s) /\ \A x \in 1..0 : FALSE
    BY <2>1
  <2> HIDE DEF Good
  <2> QED BY <2>2
<1>4. ASSUME NEW n \in 0..Len(s), n \in N, n < Len(s) PROVE n + 1 \in N
  <2>1. n + 1 \in 1..Len(s) /\ s[n + 1] \in S /\ n \in Nat /\ n + 1 \in 0..Len(s)
    BY <1>4
  <2>2. G[n + 1] = IF s[n + 1] \in set THEN Append(G[n], s[n + 1]) ELSE G[n]
    <3>1. G[n + 1] = PickStep(s, set, G, n + 1)
      BY <1>2, <2>1
    <3>2. n + 1 # 0 /\ (n + 1) - 1 = n
      BY <1>4
    <3> QED BY <3>1, <3>2 DEF PickStep
  <2>3. /\ G[n] \in Seq(S) /\ Len(G[n]) \in Nat /\ Len(G[n]) <= n
        /\ \A r \in 1..n : s[r] \in set => \E o \in 1..Len(G[n]) : G[n][o] = s[r]
        /\ \A x \in 1..Len(G[n]) : \E q \in 1..n : Good(G[n], x, q)
    BY <1>4
  <2>4. CASE s[n + 1] \notin set
    <3>1. G[n + 1] = G[n]
      BY <2>2, <2>4
    <3>2. \A x \in 1..Len(G[n]) : \E q \in 1..(n + 1) : Good(G[n], x, q)
      <4> HIDE DEF Good
      <4> QED BY <2>1, <2>3
    <3>3. \A r \in 1..(n + 1) : s[r] \in set => r \in 1..n
      BY <2>1, <2>4
    <3>4. Len(G[n]) <= n + 1
      BY <2>1, <2>3
    <3>5. \A r \in 1..(n + 1) : s[r] \in set => \E o \in 1..Len(G[n]) : G[n][o] = s[r]
      BY <2>3, <3>3, Zenon
    <3> HIDE DEF Good
    <3> QED BY <2>1, <2>3, <3>1, <3>2, <3>4, <3>5
  <2>5. CASE s[n + 1] \in set
    <3> DEFINE h == G[n + 1]
               l == Len(G[n])
    <3>1. /\ h \in Seq(S) /\ Len(h) = l + 1 /\ h[l + 1] = s[n + 1]
          /\ \A x \in 1..l : h[x] = G[n][x]
      BY <2>1, <2>2, <2>3, <2>5
    <3>2. ASSUME NEW x \in 1..l PROVE \E q \in 1..(n + 1) : Good(h, x, q)
      <4>1. PICK q \in 1..n : Good(G[n], x, q)
        BY <2>3
      <4>2. \A o \in 1..(x - 1) : h[o] = G[n][o]
        <5>1. \A o \in 1..(x - 1) : o \in 1..l
          BY <2>3
        <5> QED BY <3>1, <5>1, Zenon
      <4>3. Good(h, x, q)
        <5> HIDE DEF h
        <5> QED BY <3>1, <4>1, <4>2 DEF PickedFrom
      <4>4. q \in 1..(n + 1)
        BY <2>1, <4>1
      <4> QED BY <4>3, <4>4, Zenon
    <3>3. Good(h, l + 1, n + 1)
      <4>1. (l + 1) - 1 = l /\ (n + 1) - 1 = n /\ l + 1 <= n + 1
        BY <2>1, <2>3
      <4>2. \A r \in 1..n : s[r] \in set => \E o \in 1..l : h[o] = s[r]
        <5>1. SUFFICES ASSUME NEW r \in 1..n, s[r] \in set PROVE \E o \in 1..l : h[o] = s[r]
          OBVIOUS
        <5>2. PICK o \in 1..l : G[n][o] = s[r]
          BY <2>3, <5>1, Zenon
        <5>3. h[o] = s[r]
          BY <3>1, <5>2, Zenon
        <5> QED BY <5>2, <5>3, Zenon
      <4> HIDE DEF h, l
      <4> QED BY <2>5, <3>1, <4>1, <4>2 DEF PickedFrom
    <3>4. ASSUME NEW x \in 1..Len(h) PROVE \E q \in 1..(n + 1) : Good(h, x, q)
      <4>1. x \in 1..l \/ x = l + 1
        BY <2>3, <3>1
      <4>2. n + 1 \in 1..(n + 1)
        BY <2>1
      <4> HIDE DEF Good, h, l
      <4> QED BY <3>2, <3>3, <4>1, <4>2, Zenon
    <3>5. ASSUME NEW r \in 1..(n + 1), s[r] \in set PROVE \E o \in 1..Len(h) : h[o] = s[r]
      <4>1. CASE r = n + 1
        <5>1. l + 1 \in 1..Len(h)
          BY <2>3, <3>1
        <5> QED BY <3>1, <4>1, <5>1
      <4>2. CASE r # n + 1
        <5>1. r \in 1..n
          BY <2>1, <4>2
        <5>2. PICK o \in 1..l : G[n][o] = s[r]
          BY <2>3, <3>5, <5>1, Zenon
        <5>3. o \in 1..Len(h)
          BY <2>3, <3>1
        <5> QED BY <3>1, <5>2, <5>3, Zenon
      <4> QED BY <4>1, <4>2
    <3>6. Len(h) <= n + 1
      BY <2>1, <2>3, <3>1
    <3> HIDE DEF Good
    <3> QED BY <2>1, <3>1, <3>4, <3>5, <3>6
  <2> QED BY <2>4, <2>5
<1>5. \A n \in 0..Len(s) : n \in N /\ n < Len(s) => n + 1 \in N
  BY <1>4, Zenon
<1>6. Len(s) \in Nat /\ Len(s) \in 0..Len(s)
  OBVIOUS
<1> HIDE DEF N
<1>7. 0..Len(s) \subseteq N
  BY <1>3, <1>5, <1>6, Upto, Zenon
<1>8. Len(s) \in N
  BY <1>6, <1>7
<1>9. /\ G[Len(s)] \in Seq(S)
      /\ \A x \in 1..Len(G[Len(s)]) : \E q \in 1..Len(s) : Good(G[Len(s)], x, q)
  BY <1>8 DEF N
<1>10. p \in 1..Len(G[Len(s)])
  BY <1>1, <1>9
<1>11. PICK q \in 1..Len(s) : Good(Picked(s, set), p, q)
  BY <1>1, <1>9, <1>10
<1> QED BY <1>11

\* One step of Merged
MergeStep(seqs, g, n) == IF n = 0 THEN <<>> ELSE Merge(g[n - 1], seqs[n])
IsMerged(seqs, g) == g = [n \in 0..Len(seqs) |-> MergeStep(seqs, g, n)]

LEMMA MergedExists ==
    ASSUME NEW S, NEW seqs \in Seq(S)
    PROVE  \E g : IsMerged(seqs, g)
<1> DEFINE L == Len(seqs)
           N == {l \in 0..L : \E g : g = [n \in 0..l |-> MergeStep(seqs, g, n)]}
<1>1. 0 \in N
  <2> DEFINE g == [n \in 0..0 |-> <<>>]
  <2>1. g = [n \in 0..0 |-> MergeStep(seqs, g, n)]
    BY DEF MergeStep
  <2> QED BY <2>1
<1>2. ASSUME NEW l \in 0..L, l \in N, l < L PROVE l + 1 \in N
  <2>1. PICK g : g = [n \in 0..l |-> MergeStep(seqs, g, n)]
    BY <1>2
  <2> DEFINE h == [n \in 0..(l + 1) |-> IF n = l + 1 THEN MergeStep(seqs, g, n) ELSE g[n]]
  <2>2. \A n \in 0..(l + 1) : MergeStep(seqs, h, n) = MergeStep(seqs, g, n)
    <3>1. l \in Nat /\ \A n \in 0..(l + 1) : n # 0 => n - 1 \in 0..l /\ n - 1 # l + 1
      OBVIOUS
    <3>2. \A n \in 0..(l + 1) : n # 0 => h[n - 1] = g[n - 1]
      BY <3>1
    <3> HIDE DEF h
    <3> QED BY <3>2 DEF MergeStep
  <2>3. \A n \in 0..l : g[n] = MergeStep(seqs, g, n)
    BY <2>1
  <2>4. \A n \in 0..(l + 1) : h[n] = MergeStep(seqs, h, n)
    BY <2>2, <2>3
  <2>5. h = [n \in 0..(l + 1) |-> MergeStep(seqs, h, n)]
    BY <2>4
  <2>6. l + 1 \in 0..L
    BY <1>2
  <2> QED BY <2>5, <2>6
<1>3. \A l \in 0..L : l \in N /\ l < L => l + 1 \in N
  BY <1>2, Zenon
<1>4. L \in Nat /\ L \in 0..L
  OBVIOUS
<1> HIDE DEF N
<1>5. 0..L \subseteq N
  BY <1>1, <1>3, <1>4, Upto, Zenon
<1>6. L \in N
  BY <1>4, <1>5
<1> QED BY <1>6 DEF N, IsMerged

\* The elements of what is appended
LEMMA Appended ==
    ASSUME NEW S, NEW s \in Seq(S), NEW t \in Seq(S)
    PROVE  /\ s \o t \in Seq(S) /\ Len(s \o t) = Len(s) + Len(t)
           /\ \A i \in 1..Len(s) : (s \o t)[i] = s[i]
           /\ \A i \in 1..Len(t) : (s \o t)[Len(s) + i] = t[i]
           /\ ToSet(s \o t) = ToSet(s) \cup ToSet(t)
<1>1. /\ s \o t \in Seq(S) /\ Len(s \o t) = Len(s) + Len(t)
      /\ \A i \in 1..Len(s) : (s \o t)[i] = s[i]
      /\ \A i \in 1..Len(t) : (s \o t)[Len(s) + i] = t[i]
  OBVIOUS
<1> DEFINE r == s \o t
           l == Len(s)
           m == Len(t)
<1>2. /\ r \in Seq(S) /\ Len(r) = l + m /\ l \in Nat /\ m \in Nat
      /\ DOMAIN r = 1..(l + m) /\ DOMAIN s = 1..l /\ DOMAIN t = 1..m
      /\ \A i \in 1..l : r[i] = s[i]
      /\ \A i \in 1..m : r[l + i] = t[i]
  BY <1>1
<1> HIDE DEF r, l, m
<1>3. ASSUME NEW i \in 1..(l + m) PROVE r[i] \in ToSet(s) \cup ToSet(t)
  <2>1. CASE i \in 1..l
    BY <1>2, <2>1 DEF ToSet
  <2>2. CASE i \notin 1..l
    <3>1. i - l \in 1..m /\ l + (i - l) = i
      BY <1>2, <2>2
    <3>2. r[i] = t[i - l]
      BY <1>2, <3>1
    <3> QED BY <1>2, <3>1, <3>2 DEF ToSet
  <2> QED BY <2>1, <2>2
<1>4. \A i \in 1..l : s[i] \in ToSet(r)
  <2> SUFFICES ASSUME NEW i \in 1..l PROVE s[i] \in ToSet(r)
    OBVIOUS
  <2>1. i \in 1..(l + m) /\ r[i] = s[i]
    BY <1>2
  <2> QED BY <1>2, <2>1 DEF ToSet
<1>5. \A i \in 1..m : t[i] \in ToSet(r)
  <2> SUFFICES ASSUME NEW i \in 1..m PROVE t[i] \in ToSet(r)
    OBVIOUS
  <2>1. l + i \in 1..(l + m) /\ r[l + i] = t[i]
    BY <1>2
  <2> QED BY <1>2, <2>1 DEF ToSet
<1>6. ToSet(r) = ToSet(s) \cup ToSet(t)
  <2>1. ToSet(r) \subseteq ToSet(s) \cup ToSet(t)
    BY <1>2, <1>3 DEF ToSet
  <2>2. ToSet(s) \subseteq ToSet(r) /\ ToSet(t) \subseteq ToSet(r)
    BY <1>2, <1>4, <1>5 DEF ToSet
  <2> QED BY <2>1, <2>2
<1> QED BY <1>1, <1>6 DEF r

\* What is merged has the elements of each sequence, and no others
LEMMA MergedIs ==
    ASSUME NEW S, NEW seqs \in Seq(Seq(S))
    PROVE  /\ Merged(seqs) \in Seq(S)
           /\ \A i \in DOMAIN seqs : ToSet(seqs[i]) \subseteq ToSet(Merged(seqs))
<1> DEFINE L == Len(seqs)
           G == CHOOSE g : IsMerged(seqs, g)
           N == {n \in 0..L : /\ G[n] \in Seq(S)
                              /\ \A i \in 1..n : ToSet(seqs[i]) \subseteq ToSet(G[n])}
<1>1. Merged(seqs) = G[L]
  BY DEF Merged, IsMerged, MergeStep
<1>2. IsMerged(seqs, G)
  BY MergedExists
<1> HIDE DEF G
<1>3. 0 \in N
  BY <1>2 DEF IsMerged, MergeStep
<1>4. ASSUME NEW n \in 0..L, n \in N, n < L PROVE n + 1 \in N
  <2>1. n + 1 \in 1..L /\ n + 1 \in 0..L /\ seqs[n + 1] \in Seq(S) /\ n + 1 # 0 /\ (n + 1) - 1 = n
    BY <1>4
  <2> DEFINE picked == Picked(seqs[n + 1], ToSet(seqs[n + 1]) \ ToSet(G[n]))
  <2>2. G[n + 1] = G[n] \o picked
    BY <1>2, <2>1 DEF IsMerged, MergeStep, Merge
  <2>3. picked \in Seq(S)
        /\ ToSet(picked) = ToSet(seqs[n + 1]) \cap (ToSet(seqs[n + 1]) \ ToSet(G[n]))
    BY <2>1, PickedIs
  <2>4. G[n] \in Seq(S) /\ \A i \in 1..n : ToSet(seqs[i]) \subseteq ToSet(G[n])
    BY <1>4
  <2> HIDE DEF picked
  <2>5. G[n + 1] \in Seq(S) /\ ToSet(G[n + 1]) = ToSet(G[n]) \cup ToSet(picked)
    BY <2>2, <2>3, <2>4, Appended
  <2>6. ToSet(seqs[n + 1]) \subseteq ToSet(G[n + 1])
    BY <2>3, <2>5
  <2>7. ASSUME NEW i \in 1..(n + 1) PROVE ToSet(seqs[i]) \subseteq ToSet(G[n + 1])
    <3>1. i \in 1..n \/ i = n + 1
      BY <2>1
    <3> QED BY <2>4, <2>5, <2>6, <3>1
  <2> QED BY <2>1, <2>5, <2>7
<1>5. \A n \in 0..L : n \in N /\ n < L => n + 1 \in N
  BY <1>4, Zenon
<1>6. L \in Nat /\ L \in 0..L /\ DOMAIN seqs = 1..L
  OBVIOUS
<1> HIDE DEF N
<1>7. 0..L \subseteq N
  BY <1>3, <1>5, <1>6, Upto, Zenon
<1>8. L \in N
  BY <1>6, <1>7
<1> QED BY <1>1, <1>6, <1>8 DEF N

\* Of sequences that start at a root and lead on by R, each element after the first is led to from
\* an earlier one, however they are merged
LEMMA MergedJoined ==
    ASSUME NEW S, NEW seqs \in Seq(Seq(S)), NEW R, NEW root,
           \A i \in DOMAIN seqs :
              /\ seqs[i] # <<>> /\ seqs[i][1] = root
              /\ \A q \in 1..(Len(seqs[i]) - 1) : <<seqs[i][q], seqs[i][q + 1]>> \in R
    PROVE  \A i \in DOMAIN Merged(seqs) :
              i > 1 => \E j \in 1..(i - 1) : <<Merged(seqs)[j], Merged(seqs)[i]>> \in R
<1> DEFINE L == Len(seqs)
           G == CHOOSE g : IsMerged(seqs, g)
           Led(g) == \A i \in 1..Len(g) : i > 1 => \E j \in 1..(i - 1) : <<g[j], g[i]>> \in R
           N == {n \in 0..L : /\ G[n] \in Seq(S) /\ Led(G[n])
                              /\ G[n] = <<>> \/ root \in ToSet(G[n])}
<1>1. Merged(seqs) = G[L]
  BY DEF Merged, IsMerged, MergeStep
<1>2. IsMerged(seqs, G)
  BY MergedExists
<1> HIDE DEF G
<1>3. 0 \in N
  <2>1. G[0] = <<>> /\ 0 \in 0..L
    BY <1>2 DEF IsMerged, MergeStep
  <2>2. Led(G[0]) /\ G[0] \in Seq(S)
    BY <2>1
  <2> HIDE DEF Led
  <2> QED BY <2>1, <2>2
<1>4. ASSUME NEW n \in 0..L, n \in N, n < L PROVE n + 1 \in N
  <2> DEFINE s == seqs[n + 1]
             g == G[n]
             set == ToSet(s) \ ToSet(g)
             picked == Picked(s, set)
             r == G[n + 1]
  <2>1. /\ n + 1 \in DOMAIN seqs /\ n + 1 \in 0..L /\ s \in Seq(S)
        /\ n + 1 # 0 /\ (n + 1) - 1 = n
    BY <1>4
  <2>2. r = g \o picked
    BY <1>2, <2>1 DEF IsMerged, MergeStep, Merge
  <2>3. picked \in Seq(S) /\ ToSet(picked) = ToSet(s) \cap set
    BY <2>1, PickedIs
  <2>4. g \in Seq(S) /\ Led(g) /\ (g = <<>> \/ root \in ToSet(g))
    BY <1>4
  <2>5. /\ s # <<>> /\ s[1] = root
        /\ \A q \in 1..(Len(s) - 1) : <<s[q], s[q + 1]>> \in R
    BY <2>1
  <2>6. \A p \in DOMAIN picked : \E q \in 1..Len(s) : PickedFrom(picked, s, set, p, q)
    <3>1. s \in Seq(S)
      BY <2>1
    <3> HIDE DEF s, set
    <3> QED BY <3>1, PickedOrder, Zenon
  <2>7. DOMAIN picked = 1..Len(picked) /\ Len(picked) \in Nat /\ Len(g) \in Nat /\ Len(s) \in Nat
        /\ DOMAIN g = 1..Len(g) /\ DOMAIN s = 1..Len(s)
    <3>1. \A x \in Seq(S) : DOMAIN x = 1..Len(x) /\ Len(x) \in Nat
      OBVIOUS
    <3> HIDE DEF picked, s, g
    <3> QED BY <2>1, <2>3, <2>4, <3>1
  <2> HIDE DEF picked, s, g, r
  <2>8. /\ r \in Seq(S) /\ Len(r) = Len(g) + Len(picked)
        /\ \A i \in 1..Len(g) : r[i] = g[i]
        /\ \A i \in 1..Len(picked) : r[Len(g) + i] = picked[i]
        /\ ToSet(r) = ToSet(g) \cup ToSet(picked)
    BY <2>2, <2>3, <2>4, Appended
  <2>9. root \in ToSet(r)
    <3>1. root \in ToSet(s)
      <4>1. 1 \in 1..Len(s)
        BY <2>1, <2>5, <2>7
      <4> QED BY <2>5, <2>7, <4>1 DEF ToSet
    <3> QED BY <2>3, <2>8, <3>1
  <2>10. ASSUME NEW i \in 1..Len(r), i > 1 PROVE \E j \in 1..(i - 1) : <<r[j], r[i]>> \in R
    <3>1. CASE i <= Len(g)
      <4>1. i \in 1..Len(g)
        BY <2>7, <3>1
      <4>2. PICK j \in 1..(i - 1) : <<g[j], g[i]>> \in R
        BY <2>4, <2>10, <4>1
      <4>3. j \in 1..Len(g)
        BY <2>7, <4>1
      <4> QED BY <2>8, <4>1, <4>2, <4>3
    <3>2. CASE ~(i <= Len(g))
      <4> DEFINE p == i - Len(g)
      <4>1. p \in 1..Len(picked) /\ Len(g) + p = i
        BY <2>7, <2>8, <3>2
      <4>2. r[i] = picked[p]
        BY <2>8, <4>1
      <4>3. PICK q \in 1..Len(s) :
              /\ p <= q /\ picked[p] = s[q] /\ s[q] \in set
              /\ \A x \in 1..(q - 1) : s[x] \in set => \E o \in 1..(p - 1) : picked[o] = s[x]
        BY <2>6, <2>7, <4>1 DEF PickedFrom
      <4>4. q # 1
        <5> SUFFICES ASSUME q = 1 PROVE FALSE
          OBVIOUS
        <5>1. root \notin ToSet(g)
          BY <2>5, <4>3
        <5>2. Len(g) = 0
          BY <2>4, <5>1
        <5> QED BY <2>10, <4>1, <4>3, <5>2
      <4> DEFINE x == s[q - 1]
      <4>5. q - 1 \in 1..(Len(s) - 1) /\ q - 1 \in 1..Len(s) /\ q - 1 \in 1..(q - 1)
            /\ (q - 1) + 1 = q
        BY <2>7, <4>4
      <4>6. <<x, s[q]>> \in R /\ x \in ToSet(s)
        <5>1. <<s[q - 1], s[(q - 1) + 1]>> \in R
          BY <2>5, <4>5
        <5>2. x \in ToSet(s)
          BY <2>7, <4>5 DEF ToSet
        <5> QED BY <4>5, <5>1, <5>2
      <4>7. CASE x \in ToSet(g)
        <5>1. PICK j \in 1..Len(g) : g[j] = x
          BY <2>7, <4>7 DEF ToSet
        <5>2. j \in 1..(i - 1) /\ r[j] = x
          BY <2>7, <2>8, <4>1, <5>1
        <5> QED BY <4>2, <4>3, <4>6, <5>2
      <4>8. CASE x \notin ToSet(g)
        <5>1. PICK o \in 1..(p - 1) : picked[o] = x
          BY <4>3, <4>5, <4>6, <4>8
        <5>2. o \in 1..Len(picked) /\ Len(g) + o \in 1..(i - 1)
          BY <2>7, <4>1
        <5>3. r[Len(g) + o] = x
          BY <2>8, <5>1, <5>2
        <5> QED BY <4>2, <4>3, <4>6, <5>2, <5>3
      <4> QED BY <4>7, <4>8
    <3> QED BY <3>1, <3>2
  <2>11. r \in Seq(S) /\ Led(r)
    BY <2>8, <2>10
  <2> HIDE DEF Led
  <2> QED BY <2>1, <2>9, <2>11 DEF r
<1>5. \A n \in 0..L : n \in N /\ n < L => n + 1 \in N
  BY <1>4, Zenon
<1>6. L \in Nat /\ L \in 0..L
  OBVIOUS
<1> HIDE DEF N
<1>7. 0..L \subseteq N
  BY <1>3, <1>5, <1>6, Upto, Zenon
<1>8. L \in N
  BY <1>6, <1>7
<1>9. G[L] \in Seq(S) /\ Led(G[L])
  BY <1>8 DEF N
<1> QED BY <1>1, <1>9

\* The edges between the nodes of an answer are in it, unless the limit cuts them off
LEMMA EdgesOfAnswer ==
    ASSUME Traversed \in Seq(1..E), request.limit \in Nat, Len(ClosedEdges) <= request.limit
    PROVE  ToSet(AnswerEdges) = {e \in ToSet(Traversed) :
                                    EndsOf(view.edges[e]) \subseteq ToSet(AnswerNodes)}
<1> DEFINE set == {e \in 1..E : EndsOf(view.edges[e]) \subseteq ToSet(AnswerNodes)}
           C == ClosedEdges
           D == 1..E
           m == Min({request.limit, Len(C)})
<1>1. C = Picked(Traversed, set)
  BY DEF ClosedEdges
<1>2. AnswerEdges = SubSeq(C, 1, m)
  BY DEF AnswerEdges
<1>3. Len(C) <= request.limit
  OBVIOUS
<1>4. Traversed \in Seq(D)
  OBVIOUS
<1> HIDE DEF set, C, D
<1>5. C \in Seq(D) /\ ToSet(C) = ToSet(Traversed) \cap set
  BY <1>1, <1>4, PickedIs
<1>6. Len(C) \in Nat
  BY <1>5
<1>7. m = Len(C)
  <2>1. m \in {request.limit, Len(C)} /\ m <= request.limit /\ m <= Len(C)
    <3>1. {request.limit, Len(C)} \in SUBSET Nat /\ {request.limit, Len(C)} # {}
      BY <1>6
    <3> QED BY <3>1, MinIsLeast
  <2> HIDE DEF m
  <2> QED BY <1>3, <1>6, <2>1
<1>8. SubSeq(C, 1, Len(C)) = C
  BY <1>5
<1>9. ToSet(Traversed) \subseteq D
  BY <1>4 DEF ToSet
<1> QED BY <1>2, <1>5, <1>7, <1>8, <1>9 DEF set, D

\* Of an edge between two nodes of an answer both ends are
LEMMA BetweenEnds ==
    ASSUME NEW n, NEW m, NEW e \in Between(n, m)
    PROVE  EndsOf(view.edges[e]) = {n, m}
BY DEF Between, EndsOf

LEMMA WalkJoined ==
    ASSUME GInv, Nearest, phase = "answered", Walks, Len(ClosedEdges) <= request.limit,
           NEW i \in DOMAIN AnswerNodes, i > Len(Starts)
    PROVE  \E j \in 1..(i - 1) :
              Between(AnswerNodes[j], AnswerNodes[i]) \cap ToSet(AnswerEdges) # {}
<1> DEFINE A == AnswerNodes
           k == Len(A)
<1>1. Walked
  <2>1. request.operation \in Operations
    BY DEF GInv, TypeOK, Request
  <2> QED BY <2>1 DEF Walked, Walks, Marked, Ways, Operations
<1>2. /\ k \in 0..Len(selected) /\ A \in Seq(Nodes) /\ DOMAIN A = 1..k
      /\ \A x \in 1..k : A[x] = selected[x]
  BY <1>1, AnswerOfWalk
<1>3. selected \in Seq(Nodes) /\ DOMAIN selected = 1..Len(selected) /\ Len(selected) \in Nat
  BY DEF GInv, TypeOK
<1>4. /\ Traversed = used /\ used \in Seq(1..E) /\ request.limit \in Nat
      /\ Starts \in Seq(Nodes) /\ Len(Starts) \in Nat
  BY QueryAssumption DEF GInv, TypeOK, Request, Traversed, Walks, Starts, StartNode, InputOK
<1>5. i \in 1..k /\ i \in 1..Len(selected) /\ ~(i <= Len(Starts)) /\ A[i] = selected[i]
  <2>1. i \in 1..k /\ A[i] = selected[i] /\ k \in 0..Len(selected)
    BY <1>2, Zenon
  <2> HIDE DEF A, k
  <2> QED BY <1>3, <1>4, <2>1
<1>6. PICK j \in 1..(i - 1), e \in ToSet(used) : e \in Between(selected[j], selected[i])
  BY <1>3, <1>5 DEF GInv, SelectedAreJoined
<1>7. j \in 1..k
  <2> HIDE DEF k
  <2> QED BY <1>2, <1>5, <1>6
<1>8. A[j] = selected[j] /\ A[i] \in ToSet(A) /\ A[j] \in ToSet(A)
  BY <1>2, <1>5, <1>7 DEF ToSet
<1>9. EndsOf(view.edges[e]) \subseteq ToSet(A)
  <2>1. EndsOf(view.edges[e]) = {selected[j], selected[i]}
    BY <1>6, BetweenEnds
  <2> QED BY <1>5, <1>8, <2>1
<1>10. e \in ToSet(AnswerEdges)
  BY <1>4, <1>6, <1>9, EdgesOfAnswer
<1> QED BY <1>5, <1>6, <1>8, <1>10

LEMMA PathsJoined ==
    ASSUME GInv, phase = "answered", Ways, Len(ClosedEdges) <= request.limit,
           NEW i \in DOMAIN AnswerNodes, i > Len(Starts)
    PROVE  \E j \in 1..(i - 1) :
              Between(AnswerNodes[j], AnswerNodes[i]) \cap ToSet(AnswerEdges) # {}
<1> DEFINE A == AnswerNodes
           T == Traversed
           nodes == [x \in DOMAIN paths |-> paths[x].nodes]
           edges == [x \in DOMAIN paths |-> paths[x].edges]
           R == {p \in Nodes \X Nodes : Between(p[1], p[2]) \cap ToSet(T) # {}}
           D == 1..E
<1>1. A = Merged(nodes) /\ T = Merged(edges)
  BY DEF AnswerNodes, Traversed, Ways
<1>2. paths \in Seq(Way) /\ DOMAIN paths = 1..Len(paths) /\ Len(paths) \in Nat
      /\ \A x \in DOMAIN paths : paths[x] \in Way
  BY DEF GInv, TypeOK
<1>3. /\ nodes \in Seq(Seq(Nodes)) /\ edges \in Seq(Seq(D))
      /\ DOMAIN nodes = DOMAIN paths /\ DOMAIN edges = DOMAIN paths
  BY <1>2 DEF Way
<1>4. A \in Seq(Nodes) /\ T \in Seq(D)
      /\ \A x \in DOMAIN edges : ToSet(edges[x]) \subseteq ToSet(T)
  <2> HIDE DEF nodes, edges, D
  <2> QED BY <1>1, <1>3, MergedIs
<1>5. ~Listing /\ Len(Starts) = 1 /\ Starts[1] = StartNode /\ ToSet(Starts) = {StartNode}
  BY DEF Ways, Listing, Starts, ToSet
<1>6. ASSUME NEW x \in DOMAIN nodes
      PROVE  /\ nodes[x] # <<>> /\ nodes[x][1] = StartNode
             /\ \A q \in 1..(Len(nodes[x]) - 1) : <<nodes[x][q], nodes[x][q + 1]>> \in R
  <2> DEFINE w == paths[x]
  <2>1. w \in Way /\ w \in ToSet(paths) /\ nodes[x] = w.nodes /\ edges[x] = w.edges
    BY <1>2, <1>3, <1>6 DEF ToSet
  <2>2. RealWay(w)
    BY <2>1 DEF GInv, Found, GoodWay
  <2>3. w.nodes \in Seq(Nodes) /\ w.edges \in Seq(D)
    BY <2>1 DEF Way
  <2> HIDE DEF w, nodes, edges, D
  <2>4. ASSUME NEW q \in 1..(Len(w.nodes) - 1) PROVE <<w.nodes[q], w.nodes[q + 1]>> \in R
    <3>1. q \in DOMAIN w.edges /\ q \in 1..Len(w.nodes) /\ q + 1 \in 1..Len(w.nodes)
      BY <2>2, <2>3 DEF RealWay
    <3>2. w.edges[q] \in Between(w.nodes[q], w.nodes[q + 1])
      BY <2>2, <3>1 DEF RealWay
    <3>3. w.edges[q] \in ToSet(w.edges)
      BY <3>1 DEF ToSet
    <3>4. w.edges[q] \in ToSet(T)
      BY <1>3, <1>4, <1>6, <2>1, <3>3
    <3>5. w.nodes[q] \in Nodes /\ w.nodes[q + 1] \in Nodes
      BY <2>3, <3>1
    <3> QED BY <3>2, <3>4, <3>5
  <2> HIDE DEF R
  <2> QED BY <1>5, <2>1, <2>2, <2>4 DEF RealWay
<1>7. i > 1
  BY <1>5
<1> HIDE DEF nodes, edges, R, D
<1>8. PICK j \in 1..(i - 1) : <<A[j], A[i]>> \in R
  <2>1. \A x \in DOMAIN Merged(nodes) :
          x > 1 => \E y \in 1..(x - 1) : <<Merged(nodes)[y], Merged(nodes)[x]>> \in R
    BY <1>3, <1>6, MergedJoined
  <2> QED BY <1>1, <1>7, <2>1
<1>9. PICK e \in Between(A[j], A[i]) : e \in ToSet(T)
  BY <1>8 DEF R
<1>10. A[i] \in ToSet(A) /\ A[j] \in ToSet(A)
  <2>1. i \in DOMAIN A /\ DOMAIN A = 1..Len(A) /\ Len(A) \in Nat
    BY <1>4
  <2>2. j \in DOMAIN A
    <3> HIDE DEF A
    <3> QED BY <2>1
  <2> QED BY <2>1, <2>2 DEF ToSet
<1>11. e \in ToSet(AnswerEdges)
  <2>1. request.limit \in Nat /\ T \in Seq(1..E)
    BY <1>4, QueryAssumption DEF GInv, TypeOK, Request, D
  <2>2. EndsOf(view.edges[e]) \subseteq ToSet(A)
    <3>1. A[i] \in ToSet(A) /\ A[j] \in ToSet(A) /\ e \in Between(A[j], A[i])
      BY <1>9, <1>10
    <3> HIDE DEF A, T
    <3>2. EndsOf(view.edges[e]) = {A[j], A[i]}
      BY <3>1, BetweenEnds
    <3> QED BY <3>1, <3>2
  <2> QED BY <1>9, <2>1, <2>2, EdgesOfAnswer
<1> QED BY <1>9, <1>11

LEMMA AnswersJoined ==
    ASSUME GInv, Nearest
    PROVE  JoinedUnlessCut
<1>1. ~Marked => Walks \/ Ways
  BY DEF Walks
<1> QED BY <1>1, WalkJoined, PathsJoined DEF JoinedUnlessCut

LEMMA LookupsAnswered ==
    ASSUME GInv, Carried, Ended
    PROVE  MarkersAnswered
<1> SUFFICES ASSUME phase = "answered", Marked
             PROVE  /\ ToSet(selected) \subseteq MarkedNodes /\ IsInjective(selected)
                    /\ Len(selected) < request.limit => ToSet(selected) = MarkedNodes
                    /\ Len(selected) >= Min({request.limit, Cardinality(MarkedNodes)})
                    /\ Len(selected) > request.limit =>
                          /\ Len(selected) = request.limit + 1
                          /\ selected[request.limit] \in ToSet(Starts)
                          /\ Last(selected) \in Carriers(selected[request.limit])
  BY Zenon DEF MarkersAnswered, MarkedNodes, Carriers
<1>1. /\ selected \in Seq(Nodes) /\ Len(selected) \in Nat /\ request.limit \in Nat
      /\ todo = {} /\ Starts \in Seq(Nodes) /\ Len(Starts) \in Nat
  BY QueryAssumption, MarkersAreNodes DEF GInv, TypeOK, Request, Ended
<1>2. /\ ToSet(selected) \subseteq MarkedNodes /\ IsInjective(selected) /\ Overfull
  BY DEF Carried, Begun
<1>3. ASSUME Len(selected) < request.limit PROVE MarkedNodes \subseteq ToSet(selected)
  <2>1. queue = <<>>
    BY <1>1, <1>3 DEF Ended, Full, Ways, Marked
  <2>2. PICK t \in 0..Len(Starts) : Lookup(t) /\ LookedUp(t)
    BY DEF Carried, Begun
  <2>3. t = Len(Starts)
    BY <1>1, <2>1, <2>2 DEF Lookup
  <2>4. ASSUME NEW j \in 1..t
        PROVE  Starts[j] \in ToSet(selected) /\ Carriers(Starts[j]) \subseteq ToSet(selected)
    BY <1>1, <1>3, <2>2 DEF LookedUp
  <2>5. \A m \in ToSet(Starts) : m \in ToSet(selected) /\ Carriers(m) \subseteq ToSet(selected)
    <3> SUFFICES ASSUME NEW m \in ToSet(Starts)
                 PROVE  m \in ToSet(selected) /\ Carriers(m) \subseteq ToSet(selected)
      OBVIOUS
    <3>1. PICK j \in 1..Len(Starts) : Starts[j] = m
      BY <1>1 DEF ToSet
    <3> QED BY <2>3, <2>4, <3>1, Zenon
  <2> QED BY <2>5 DEF MarkedNodes
<1>4. Len(selected) >= Min({request.limit, Cardinality(MarkedNodes)})
  <2>1. IsFiniteSet(MarkedNodes)
    <3>1. PICK all : /\ IsFiniteSet(all) /\ ToSet(Starts) \subseteq all
                     /\ \A n, m : Between(n, m) # {} => m \in all
      BY FinitelyLed DEF GInv
    <3>2. MarkedNodes \subseteq all
      BY <3>1 DEF MarkedNodes, Carriers
    <3> QED BY <3>1, <3>2, FS_Subset
  <2>2. Cardinality(MarkedNodes) \in Nat
    BY <2>1, FS_CardinalityType
  <2>3. Len(selected) < request.limit => Len(selected) = Cardinality(MarkedNodes)
    <3>1. Cardinality(ToSet(selected)) = Len(selected)
      BY <1>1, <1>2, CountOfOnce
    <3>2. Len(selected) < request.limit => ToSet(selected) = MarkedNodes
      BY <1>2, <1>3
    <3> QED BY <3>1, <3>2
  <2> DEFINE m == Min({request.limit, Cardinality(MarkedNodes)})
  <2>4. m <= request.limit /\ m <= Cardinality(MarkedNodes)
        /\ m \in {request.limit, Cardinality(MarkedNodes)}
    <3>1. {request.limit, Cardinality(MarkedNodes)} \in SUBSET Nat
          /\ {request.limit, Cardinality(MarkedNodes)} # {}
      BY <1>1, <2>2
    <3> QED BY <3>1, MinIsLeast
  <2> HIDE DEF m
  <2>5. Len(selected) >= m
    BY <1>1, <2>2, <2>3, <2>4
  <2> QED BY <2>5 DEF m
<1> QED BY <1>2, <1>3, <1>4 DEF Overfull

\* What a request reaches and has still to follow, in the order it is followed
Searched == ViewShown /\ EndedHolds /\ Nearest /\ Carried

LEMMA SearchedHolds == Spec => [](GInv /\ Searched)
<1>1. Init => Searched
  BY ViewIsShown DEF Init, Searched, EndedHolds, Ended, Nearest, Carried, Begun
<1>2. GInv /\ GInv' /\ Searched /\ [Next]_vars => Searched'
  <2> SUFFICES ASSUME GInv, GInv', Searched, [Next]_vars PROVE Searched'
    OBVIOUS
  <2>1. ViewShown'
    <3>1. index' = index /\ view' = view /\ request' = request
      BY DEF Next, vars, input, Refuse, StartWalk, StartPaths, Take, Follow, FollowPath, Respond
    <3> QED BY <3>1 DEF Searched, ViewShown
  <2>2. EndedHolds'
    BY EndedStays DEF Searched
  <2>3. Nearest'
    BY NearestStays DEF Searched
  <2>4. Carried'
    BY CarriedStays DEF Searched
  <2> QED BY <2>1, <2>2, <2>3, <2>4 DEF Searched
<1> QED BY <1>1, <1>2, Inductive, PTL DEF Spec

\* For every wiki, request and limit: a walk answers with the nearest nodes and no others, each
\* joined to one before it, and a lookup with the markers and the pages that carry them.
\* (graph_engine.py _neighbors and _by_marker_node, service.py neighborhood.)
THEOREM WalksAreAnswered == Spec => []WalksAnswered
<1>1. GInv /\ Searched => WalksAnswered
  <2> SUFFICES ASSUME GInv, Searched PROVE WalksAnswered
    OBVIOUS
  <2>1. NearestFirst
    BY WalkedNearest DEF Searched, EndedHolds
  <2>2. JoinedUnlessCut
    BY AnswersJoined DEF Searched
  <2>3. MarkersAnswered
    BY LookupsAnswered DEF Searched, EndedHolds
  <2> QED BY <2>1, <2>2, <2>3 DEF WalksAnswered
<1> QED BY <1>1, SearchedHolds, PTL

-----------------------------------------------------------------------------
(* The ways that take no node twice *)

Size(w) == Len(w.edges)
\* A way from the start that takes no node twice and ends where it reaches the target
Simple(w) ==
    RealWay(w) /\ IsInjective(w.nodes) /\ \A i \in DOMAIN w.edges : w.nodes[i] # request.target
OneFurther(w, m, e) == [nodes |-> Append(w.nodes, m), edges |-> Append(w.edges, e)]
Further(w) == UNION {{OneFurther(w, m, e) : e \in Between(Last(w.nodes), m)} :
                         m \in Shown \ ToSet(w.nodes)}
WaysStep(g, d) == IF d = 0 THEN {At(StartNode)}
                  ELSE UNION {Further(w) : w \in {v \in g[d - 1] : Last(v.nodes) # request.target}}
AreWays(g) == g = [d \in 0..request.depth |-> WaysStep(g, d)]

LEMMA WaysExist == ASSUME request.depth \in Nat PROVE \E g : AreWays(g)
<1> DEFINE L == request.depth
           N == {l \in 0..L : \E g : g = [n \in 0..l |-> WaysStep(g, n)]}
<1>1. 0 \in N
  <2> DEFINE g == [n \in 0..0 |-> {At(StartNode)}]
  <2>1. g = [n \in 0..0 |-> WaysStep(g, n)]
    BY DEF WaysStep
  <2> QED BY <2>1
<1>2. ASSUME NEW l \in 0..L, l \in N, l < L PROVE l + 1 \in N
  <2>1. PICK g : g = [n \in 0..l |-> WaysStep(g, n)]
    BY <1>2
  <2> DEFINE h == [n \in 0..(l + 1) |-> IF n = l + 1 THEN WaysStep(g, n) ELSE g[n]]
  <2>2. \A n \in 0..(l + 1) : WaysStep(h, n) = WaysStep(g, n)
    <3>1. l \in Nat /\ \A n \in 0..(l + 1) : n # 0 => n - 1 \in 0..l /\ n - 1 # l + 1
      OBVIOUS
    <3>2. \A n \in 0..(l + 1) : n # 0 => h[n - 1] = g[n - 1]
      BY <3>1
    <3> HIDE DEF h
    <3> QED BY <3>2 DEF WaysStep
  <2>3. \A n \in 0..l : g[n] = WaysStep(g, n)
    BY <2>1
  <2>4. \A n \in 0..(l + 1) : h[n] = WaysStep(h, n)
    BY <2>2, <2>3
  <2>5. h = [n \in 0..(l + 1) |-> WaysStep(h, n)]
    BY <2>4
  <2>6. l + 1 \in 0..L
    BY <1>2
  <2> QED BY <2>5, <2>6
<1>3. \A l \in 0..L : l \in N /\ l < L => l + 1 \in N
  BY <1>2, Zenon
<1>4. L \in Nat /\ L \in 0..L
  OBVIOUS
<1> HIDE DEF N
<1>5. 0..L \subseteq N
  BY <1>1, <1>3, <1>4, Upto, Zenon
<1>6. L \in N
  BY <1>4, <1>5
<1> QED BY <1>6 DEF N, AreWays

LEMMA WaysAre == ASSUME TypeOK PROVE AreWays(SimpleWaysOf)
<1>1. \E g : AreWays(g)
  BY DepthIsNat, WaysExist
<1>2. SimpleWaysOf = CHOOSE g : AreWays(g)
  BY DEF SimpleWaysOf, AreWays, WaysStep, Further, OneFurther
<1> QED BY <1>1, <1>2

\* The parts of a way
LEMMA WayParts ==
    ASSUME NEW w \in Way, RealWay(w)
    PROVE  /\ w = [nodes |-> w.nodes, edges |-> w.edges]
           /\ w.nodes \in Seq(Nodes) /\ w.edges \in Seq(1..E) /\ Size(w) \in Nat
           /\ DOMAIN w.edges = 1..Size(w) /\ Len(w.nodes) = Size(w) + 1
           /\ DOMAIN w.nodes = 1..(Size(w) + 1)
           /\ Last(w.nodes) = w.nodes[Size(w) + 1]
           /\ \A i \in 1..(Size(w) + 1) : w.nodes[i] \in Nodes
BY DEF Way, RealWay, Size, Last

\* One more edge
LEMMA Extended ==
    ASSUME NEW w \in Way, RealWay(w), NEW m \in Nodes, NEW e \in 1..E
    PROVE  LET v == OneFurther(w, m, e) IN
           /\ v \in Way /\ Size(v) = Size(w) + 1 /\ Last(v.nodes) = m
           /\ Len(v.nodes) = Size(w) + 2
           /\ \A i \in 1..(Size(w) + 1) : v.nodes[i] = w.nodes[i]
           /\ v.nodes[Size(w) + 2] = m
           /\ \A i \in 1..Size(w) : v.edges[i] = w.edges[i]
           /\ v.edges[Size(w) + 1] = e
<1> DEFINE D == 1..E
<1>1. w.nodes \in Seq(Nodes) /\ w.edges \in Seq(D) /\ Len(w.nodes) = Len(w.edges) + 1
      /\ Len(w.edges) \in Nat
  BY WayParts DEF Size
<1>2. OneFurther(w, m, e).nodes = Append(w.nodes, m)
      /\ OneFurther(w, m, e).edges = Append(w.edges, e)
  BY DEF OneFurther
<1>3. OneFurther(w, m, e) \in Way
  BY <1>1 DEF OneFurther, Way
<1> HIDE DEF D
<1>4. e \in D
  BY DEF D
<1>5. /\ Len(Append(w.nodes, m)) = Len(w.edges) + 2
      /\ \A i \in 1..(Len(w.edges) + 1) : Append(w.nodes, m)[i] = w.nodes[i]
      /\ Append(w.nodes, m)[Len(w.edges) + 2] = m
      /\ Len(Append(w.edges, e)) = Len(w.edges) + 1
      /\ \A i \in 1..Len(w.edges) : Append(w.edges, e)[i] = w.edges[i]
      /\ Append(w.edges, e)[Len(w.edges) + 1] = e
  BY <1>1, <1>4
<1> QED BY <1>2, <1>3, <1>5 DEF Size, Last

LEMMA ExtendedIsSimple ==
    ASSUME NEW w \in Way, Simple(w), Last(w.nodes) # request.target,
           NEW m \in Nodes, m \notin ToSet(w.nodes), NEW e \in 1..E, e \in Between(Last(w.nodes), m)
    PROVE  Simple(OneFurther(w, m, e))
<1> DEFINE v == OneFurther(w, m, e)
           n == Size(w)
<1>1. /\ v \in Way /\ Size(v) = n + 1 /\ Last(v.nodes) = m
      /\ Len(v.nodes) = n + 2
      /\ \A i \in 1..(n + 1) : v.nodes[i] = w.nodes[i]
      /\ v.nodes[n + 2] = m
      /\ \A i \in 1..n : v.edges[i] = w.edges[i]
      /\ v.edges[n + 1] = e
  BY Extended DEF Simple
<1>2. /\ n \in Nat /\ DOMAIN w.edges = 1..n /\ DOMAIN w.nodes = 1..(n + 1)
      /\ Last(w.nodes) = w.nodes[n + 1]
  BY WayParts DEF Simple
<1>3. DOMAIN v.edges = 1..(n + 1) /\ DOMAIN v.nodes = 1..(n + 2) /\ v.nodes # <<>>
  BY <1>1, <1>2 DEF Way, Size
<1> HIDE DEF v, n
<1>4. ASSUME NEW i \in 1..(n + 1)
      PROVE  v.edges[i] \in Between(v.nodes[i], v.nodes[i + 1]) /\ v.nodes[i] # request.target
  <2>1. CASE i = n + 1
    <3>1. v.nodes[i] = Last(w.nodes) /\ v.nodes[i + 1] = m /\ v.edges[i] = e
      <4>1. i \in 1..(n + 1) /\ i + 1 = n + 2
        BY <1>2, <2>1
      <4> QED BY <1>1, <1>2, <2>1, <4>1
    <3> QED BY <3>1
  <2>2. CASE i # n + 1
    <3>1. i \in 1..n /\ i + 1 \in 1..(n + 1)
      BY <1>2, <2>2
    <3>2. v.nodes[i] = w.nodes[i] /\ v.nodes[i + 1] = w.nodes[i + 1] /\ v.edges[i] = w.edges[i]
      BY <1>1, <3>1
    <3> QED BY <1>2, <3>1, <3>2 DEF Simple, RealWay
  <2> QED BY <2>1, <2>2
<1>5. ASSUME NEW i \in 1..(n + 2), NEW j \in 1..(n + 2), v.nodes[i] = v.nodes[j] PROVE i = j
  <2>1. \A x \in 1..(n + 1) : w.nodes[x] # m
    BY <1>2 DEF ToSet
  <2>2. \A x, y \in 1..(n + 1) : w.nodes[x] = w.nodes[y] => x = y
    BY <1>2 DEF Simple, IsInjective
  <2>3. (i \in 1..(n + 1) \/ i = n + 2) /\ (j \in 1..(n + 1) \/ j = n + 2)
    BY <1>2
  <2> QED BY <1>1, <1>5, <2>1, <2>2, <2>3
<1>6. IsInjective(v.nodes)
  BY <1>3, <1>5, InjectiveIs, Zenon
<1>7. v.nodes[1] \in ToSet(Starts)
  <2>1. 1 \in 1..(n + 1)
    BY <1>2
  <2> QED BY <1>1, <2>1 DEF Simple, RealWay
<1>8. Len(v.nodes) = Len(v.edges) + 1
  BY <1>1, <1>2 DEF Size
<1> QED BY <1>3, <1>4, <1>6, <1>7, <1>8 DEF Simple, RealWay, v

LEMMA SameEntries ==
    ASSUME NEW S, NEW s \in Seq(S), NEW t \in Seq(S), Len(s) = Len(t),
           \A i \in 1..Len(s) : s[i] = t[i]
    PROVE  s = t
<1>1. s = [i \in 1..Len(s) |-> s[i]] /\ t = [i \in 1..Len(t) |-> t[i]]
  OBVIOUS
<1> QED BY <1>1

\* Ways are alike if their nodes and edges are
LEMMA SameWay ==
    ASSUME NEW w \in Way, NEW v \in Way, RealWay(w), RealWay(v), Size(w) = Size(v),
           \A i \in 1..(Size(w) + 1) : w.nodes[i] = v.nodes[i],
           \A i \in 1..Size(w) : w.edges[i] = v.edges[i]
    PROVE  w = v
<1>1. /\ w = [nodes |-> w.nodes, edges |-> w.edges] /\ v = [nodes |-> v.nodes, edges |-> v.edges]
      /\ w.nodes \in Seq(Nodes) /\ v.nodes \in Seq(Nodes)
      /\ w.edges \in Seq(1..E) /\ v.edges \in Seq(1..E)
      /\ DOMAIN w.nodes = 1..(Size(w) + 1) /\ DOMAIN v.nodes = 1..(Size(w) + 1)
      /\ DOMAIN w.edges = 1..Size(w) /\ DOMAIN v.edges = 1..Size(w)
  BY WayParts
<1>2. w.nodes = v.nodes
  <2>1. Len(w.nodes) = Len(v.nodes) /\ Len(w.nodes) = Size(w) + 1
    BY WayParts
  <2> QED BY <1>1, <2>1, SameEntries
<1>3. w.edges = v.edges
  <2> DEFINE D == 1..E
  <2>1. w.edges \in Seq(D) /\ v.edges \in Seq(D)
    BY <1>1
  <2>2. Len(w.edges) = Size(w) /\ Len(v.edges) = Size(w)
    BY DEF Size
  <2> HIDE DEF D
  <2> QED BY <2>1, <2>2, SameEntries
<1> QED BY <1>1, <1>2, <1>3

\* Without its last edge
LEMMA Shortened ==
    ASSUME TypeOK, NEW v \in Way, Simple(v), NEW n \in Nat, Size(v) = n + 1
    PROVE  \E w \in Way :
              /\ Simple(w) /\ Size(w) = n /\ Last(w.nodes) # request.target
              /\ \E m \in Nodes : \E e \in Between(Last(w.nodes), m) :
                    e \in 1..E /\ m \notin ToSet(w.nodes) /\ v = OneFurther(w, m, e)
<1> DEFINE nodes == [i \in 1..(n + 1) |-> v.nodes[i]]
           edges == [i \in 1..n |-> v.edges[i]]
           w == [nodes |-> nodes, edges |-> edges]
           m == v.nodes[n + 2]
           e == v.edges[n + 1]
           D == 1..E
<1>1. /\ v.nodes \in Seq(Nodes) /\ v.edges \in Seq(D)
      /\ DOMAIN v.edges = 1..(n + 1) /\ DOMAIN v.nodes = 1..(n + 2)
      /\ RealWay(v) /\ IsInjective(v.nodes)
  <2>1. (n + 1) + 1 = n + 2
    OBVIOUS
  <2> QED BY <2>1, WayParts DEF Simple
<1> HIDE DEF D
<1>2. /\ \A i \in 1..(n + 1) : v.nodes[i] \in Nodes
      /\ \A i \in 1..n : v.edges[i] \in D
      /\ m \in Nodes /\ e \in D
  BY <1>1
<1>3. /\ nodes \in Seq(Nodes) /\ edges \in Seq(D)
      /\ Len(nodes) = n + 1 /\ Len(edges) = n /\ DOMAIN nodes = 1..(n + 1) /\ DOMAIN edges = 1..n
      /\ \A i \in 1..(n + 1) : nodes[i] = v.nodes[i]
      /\ \A i \in 1..n : edges[i] = v.edges[i]
  BY <1>2
<1>4. w.nodes = nodes /\ w.edges = edges
  OBVIOUS
<1>5. w \in Way
  BY <1>3 DEF Way, D
<1> HIDE DEF nodes, edges, w
<1>6. Size(w) = n /\ Last(w.nodes) = v.nodes[n + 1]
  BY <1>3, <1>4 DEF Size, Last
<1>7. n + 1 \in DOMAIN v.edges /\ n + 1 \in 1..(n + 1)
  BY <1>1
<1>8. Last(w.nodes) # request.target /\ e \in Between(Last(w.nodes), m)
  <2>1. (n + 1) + 1 = n + 2
    OBVIOUS
  <2> QED BY <1>6, <1>7, <2>1 DEF Simple, RealWay
<1>9. RealWay(w)
  <2>1. w.nodes # <<>> /\ w.nodes[1] \in ToSet(Starts)
    <3>1. 1 \in 1..(n + 1) /\ Len(nodes) # 0
      BY <1>3
    <3> QED BY <1>3, <1>4, <3>1 DEF Simple, RealWay
  <2>2. Len(w.nodes) = Len(w.edges) + 1
    BY <1>3, <1>4
  <2>3. ASSUME NEW i \in 1..n PROVE w.edges[i] \in Between(w.nodes[i], w.nodes[i + 1])
    <3>1. i \in 1..(n + 1) /\ i + 1 \in 1..(n + 1) /\ i \in DOMAIN v.edges
      BY <1>1
    <3>2. w.edges[i] = v.edges[i] /\ w.nodes[i] = v.nodes[i] /\ w.nodes[i + 1] = v.nodes[i + 1]
      BY <1>3, <1>4, <3>1
    <3> QED BY <3>1, <3>2 DEF Simple, RealWay
  <2> QED BY <1>3, <1>4, <2>1, <2>2, <2>3 DEF RealWay
<1>10. IsInjective(w.nodes)
  <2>1. \A i, j \in 1..(n + 1) : nodes[i] = nodes[j] => i = j
    <3>1. \A i \in 1..(n + 1) : i \in 1..(n + 2)
      OBVIOUS
    <3> QED BY <1>1, <1>3, <3>1 DEF IsInjective
  <2>2. DOMAIN nodes = 1..(n + 1)
    BY <1>3
  <2>3. IsInjective(nodes)
    BY <2>1, <2>2, InjectiveIs, Zenon
  <2> QED BY <1>4, <2>3
<1>11. \A i \in DOMAIN w.edges : w.nodes[i] # request.target
  <2>1. \A i \in 1..n : i \in 1..(n + 1)
    OBVIOUS
  <2> QED BY <1>1, <1>3, <1>4, <2>1 DEF Simple
<1>12. Simple(w)
  BY <1>9, <1>10, <1>11 DEF Simple
<1>13. m \notin ToSet(w.nodes)
  <2>1. ASSUME NEW i \in 1..(n + 1), nodes[i] = m PROVE FALSE
    <3>1. i \in 1..(n + 2) /\ n + 2 \in 1..(n + 2) /\ i # n + 2
      OBVIOUS
    <3>2. v.nodes[i] = v.nodes[n + 2]
      BY <1>3, <2>1
    <3> QED BY <1>1, <3>1, <3>2 DEF IsInjective
  <2> QED BY <1>3, <1>4, <2>1 DEF ToSet
<1>14. v = OneFurther(w, m, e)
  <2> DEFINE u == OneFurther(w, m, e)
  <2>1. e \in 1..E
    BY <1>2 DEF D
  <2>2. /\ u \in Way /\ Size(u) = Size(w) + 1 /\ Last(u.nodes) = m
        /\ \A i \in 1..(Size(w) + 1) : u.nodes[i] = w.nodes[i]
        /\ u.nodes[Size(w) + 2] = m
        /\ \A i \in 1..Size(w) : u.edges[i] = w.edges[i]
        /\ u.edges[Size(w) + 1] = e
    BY <1>2, <1>5, <1>9, <2>1, Extended
  <2>3. RealWay(u)
    BY <1>2, <1>5, <1>8, <1>12, <1>13, <2>1, ExtendedIsSimple DEF Simple
  <2> HIDE DEF u, m, e
  <2>4. \A i \in 1..(n + 2) : u.nodes[i] = v.nodes[i]
    <3> SUFFICES ASSUME NEW i \in 1..(n + 2) PROVE u.nodes[i] = v.nodes[i]
      OBVIOUS
    <3>1. i \in 1..(n + 1) \/ i = n + 2
      OBVIOUS
    <3> QED BY <1>3, <1>4, <1>6, <2>2, <3>1 DEF m
  <2>5. \A i \in 1..(n + 1) : u.edges[i] = v.edges[i]
    <3> SUFFICES ASSUME NEW i \in 1..(n + 1) PROVE u.edges[i] = v.edges[i]
      OBVIOUS
    <3>1. i \in 1..n \/ i = n + 1
      OBVIOUS
    <3> QED BY <1>3, <1>4, <1>6, <2>2, <3>1 DEF e
  <2>6. Size(u) = n + 1 /\ Size(u) + 1 = n + 2
    BY <1>6, <2>2
  <2>7. \A i \in 1..(Size(u) + 1) : u.nodes[i] = v.nodes[i]
    BY <2>4, <2>6
  <2>8. \A i \in 1..Size(u) : u.edges[i] = v.edges[i]
    BY <2>5, <2>6
  <2>9. u = v
    BY <1>1, <2>2, <2>3, <2>6, <2>7, <2>8, SameWay
  <2> QED BY <2>9 DEF u
<1> HIDE DEF m, e
<1> QED BY <1>2, <1>5, <1>6, <1>8, <1>12, <1>13, <1>14 DEF D

\* The ways of a number of edges, one more at a time, are all of them
LEMMA WaysOfSize ==
    ASSUME GInv, ViewShown, Ways, NEW d \in 0..request.depth
    PROVE  SimpleWaysOf[d] = {w \in Way : Simple(w) /\ Size(w) = d}
<1> DEFINE L == request.depth
           all(n) == {w \in Way : Simple(w) /\ Size(w) = n}
           N == {n \in 0..L : SimpleWaysOf[n] = all(n)}
<1>1. TypeOK /\ InputOK /\ L \in Nat
  BY DepthIsNat DEF GInv
<1>2. SimpleWaysOf = [n \in 0..L |-> WaysStep(SimpleWaysOf, n)]
  BY <1>1, WaysAre DEF AreWays
<1>3. StartNode \in Nodes /\ ToSet(Starts) = {StartNode} /\ StartNode \in ToSet(Starts)
  BY <1>1 DEF Starts, StartNode, Ways, Listing, ToSet, InputOK, TypeOK, Request
<1>4. 0 \in N
  <2>1. SimpleWaysOf[0] = {At(StartNode)}
    BY <1>1, <1>2 DEF WaysStep
  <2>2. At(StartNode) \in Way /\ GoodWay(At(StartNode))
    BY <1>1, <1>3, StartIsGood
  <2>3. Simple(At(StartNode)) /\ Size(At(StartNode)) = 0
    BY <2>2 DEF GoodWay, Simple, At, Size
  <2>4. ASSUME NEW w \in Way, Simple(w), Size(w) = 0 PROVE w = At(StartNode)
    <3>1. w.nodes[1] = At(StartNode).nodes[1]
      BY <1>3, <2>4 DEF Simple, RealWay, At
    <3>2. \A i \in 1..(Size(w) + 1) : w.nodes[i] = At(StartNode).nodes[i]
      BY <2>4, <3>1
    <3>3. \A i \in 1..Size(w) : w.edges[i] = At(StartNode).edges[i]
      BY <2>4
    <3>4. RealWay(w) /\ RealWay(At(StartNode)) /\ Size(w) = Size(At(StartNode))
      BY <2>2, <2>3, <2>4 DEF Simple, GoodWay
    <3> QED BY <2>2, <3>2, <3>3, <3>4, SameWay
  <2>5. 0 \in 0..L
    BY <1>1
  <2> QED BY <2>1, <2>2, <2>3, <2>4, <2>5
<1>5. ASSUME NEW n \in 0..L, n \in N, n < L PROVE n + 1 \in N
  <2>1. n + 1 \in 0..L /\ n + 1 # 0 /\ (n + 1) - 1 = n /\ n \in Nat
    BY <1>1, <1>5
  <2>2. SimpleWaysOf[n + 1] =
           UNION {Further(w) : w \in {v \in all(n) : Last(v.nodes) # request.target}}
    <3>1. SimpleWaysOf[n + 1] = WaysStep(SimpleWaysOf, n + 1)
      BY <1>2, <2>1
    <3>2. SimpleWaysOf[n] = all(n)
      BY <1>5
    <3> HIDE DEF all
    <3> QED BY <2>1, <3>1, <3>2 DEF WaysStep
  <2>3. ASSUME NEW v \in SimpleWaysOf[n + 1] PROVE v \in all(n + 1)
    <3>1. PICK w \in Way : Simple(w) /\ Size(w) = n /\ Last(w.nodes) # request.target
                           /\ v \in Further(w)
      BY <2>2, <2>3
    <3>a. PICK m \in Shown \ ToSet(w.nodes) :
             \E e \in Between(Last(w.nodes), m) : v = OneFurther(w, m, e)
      BY <3>1 DEF Further
    <3>2. PICK e \in Between(Last(w.nodes), m) : v = OneFurther(w, m, e)
      BY <3>a
    <3>3. m \in Nodes
      BY ShownIsView DEF ApprovedOnly, GInv, TypeOK
    <3>4. e \in 1..E
      BY <1>1 DEF Between, TypeOK, E
    <3>5. v \in Way /\ Size(v) = n + 1
      BY <3>1, <3>2, <3>3, <3>4, Extended DEF Simple
    <3>6. Simple(v)
      BY <3>1, <3>2, <3>3, <3>4, ExtendedIsSimple
    <3> QED BY <3>5, <3>6
  <2>4. ASSUME NEW v \in all(n + 1) PROVE v \in SimpleWaysOf[n + 1]
    <3>1. PICK w \in Way :
              /\ Simple(w) /\ Size(w) = n /\ Last(w.nodes) # request.target
              /\ \E m \in Nodes : \E e \in Between(Last(w.nodes), m) :
                    e \in 1..E /\ m \notin ToSet(w.nodes) /\ v = OneFurther(w, m, e)
      BY <1>1, <2>1, <2>4, Shortened
    <3>a. PICK m \in Nodes : \E e \in Between(Last(w.nodes), m) :
                    e \in 1..E /\ m \notin ToSet(w.nodes) /\ v = OneFurther(w, m, e)
      BY <3>1
    <3>2. PICK e \in Between(Last(w.nodes), m) :
             m \notin ToSet(w.nodes) /\ v = OneFurther(w, m, e)
      BY <3>a
    <3>3. m \in Shown
      BY <3>2, EndsAreShown
    <3>4. v \in Further(w)
      BY <3>2, <3>3 DEF Further
    <3> QED BY <2>2, <3>1, <3>4
  <2> HIDE DEF all
  <2> QED BY <2>1, <2>3, <2>4
<1>6. \A n \in 0..L : n \in N /\ n < L => n + 1 \in N
  BY <1>5, Zenon
<1> HIDE DEF N
<1>7. 0..L \subseteq N
  BY <1>1, <1>4, <1>6, Upto, Zenon
<1> QED BY <1>7 DEF N

\* The ways to the target, of at most the depth asked for
ToTarget(w) == Simple(w) /\ Size(w) <= request.depth /\ Last(w.nodes) = request.target

LEMMA WaysToTarget ==
    ASSUME GInv, ViewShown, Ways
    PROVE  SimpleWays = {w \in Way : ToTarget(w)}
<1>1. SimpleWays = {w \in UNION {SimpleWaysOf[d] : d \in 0..request.depth} :
                       Last(w.nodes) = request.target}
  BY DEF SimpleWays
<1>2. request.depth \in Nat
  BY DepthIsNat DEF GInv
<1>3. \A w \in Way : Simple(w) => Size(w) \in Nat
  BY WayParts DEF Simple
<1>4. ASSUME NEW w
      PROVE  w \in UNION {SimpleWaysOf[d] : d \in 0..request.depth}
             <=> w \in Way /\ Simple(w) /\ Size(w) <= request.depth
  <2>1. ASSUME NEW d \in 0..request.depth, w \in SimpleWaysOf[d]
        PROVE  w \in Way /\ Simple(w) /\ Size(w) <= request.depth
    BY <1>2, <2>1, WaysOfSize
  <2>2. ASSUME w \in Way, Simple(w), Size(w) <= request.depth
        PROVE  Size(w) \in 0..request.depth /\ w \in SimpleWaysOf[Size(w)]
    <3>1. Size(w) \in 0..request.depth
      BY <1>2, <1>3, <2>2
    <3> QED BY <2>2, <3>1, WaysOfSize
  <2> QED BY <2>1, <2>2
<1> QED BY <1>1, <1>4 DEF ToTarget

\* What a function makes of a finite set
LEMMA ImageIsFinite ==
    ASSUME NEW S, IsFiniteSet(S), NEW f, f = [x \in S |-> f[x]]
    PROVE  IsFiniteSet({f[x] : x \in S})
<1> DEFINE T == {f[x] : x \in S}
<1>1. f \in [S -> T]
  <2>1. \A x \in S : f[x] \in T
    OBVIOUS
  <2> HIDE DEF T
  <2> QED BY <2>1
<1>2. f \in Surjection(S, T)
  BY <1>1 DEF Surjection
<1> HIDE DEF T
<1>3. IsFiniteSet(T)
  BY <1>2, FS_Surjection
<1> QED BY <1>3 DEF T

\* There are finitely many paths to answer with
LEMMA FinitelyManyWays ==
    ASSUME GInv, ViewShown, Ways
    PROVE  IsFiniteSet(SimpleWays)
<1> DEFINE L == request.depth
           N == {d \in 0..L : IsFiniteSet(SimpleWaysOf[d])}
<1>1. TypeOK /\ InputOK /\ L \in Nat
  BY DepthIsNat DEF GInv
<1>2. SimpleWaysOf = [n \in 0..L |-> WaysStep(SimpleWaysOf, n)]
  BY <1>1, WaysAre DEF AreWays
<1>3. PICK all : IsFiniteSet(all) /\ \A n, m : Between(n, m) # {} => m \in all
  BY <1>1, FinitelyLed
<1>4. 0 \in N
  <2>1. SimpleWaysOf[0] = {At(StartNode)}
    BY <1>1, <1>2 DEF WaysStep
  <2>2. IsFiniteSet({At(StartNode)})
    BY FS_Singleton, Zenon
  <2>3. 0 \in 0..L
    BY <1>1
  <2> QED BY <2>1, <2>2, <2>3, Zenon
<1>5. ASSUME NEW d \in 0..L, d \in N, d < L PROVE d + 1 \in N
  <2>1. d + 1 \in 0..L /\ d + 1 # 0 /\ (d + 1) - 1 = d
    BY <1>1, <1>5
  <2> DEFINE shorter == SimpleWaysOf[d]
             D == 1..E
             X == (shorter \X all) \X D
             f == [x \in X |-> OneFurther(x[1][1], x[1][2], x[2])]
  <2>2. IsFiniteSet(X)
    <3>1. IsFiniteSet(shorter)
      BY <1>5
    <3>2. IsFiniteSet(D)
      <4>1. 1 \in Int /\ E \in Int
        BY <1>1 DEF E, TypeOK
      <4> QED BY <4>1, FS_Interval
    <3> HIDE DEF shorter, D
    <3> QED BY <1>3, <3>1, <3>2, FS_Product
  <2>3. IsFiniteSet({f[x] : x \in X})
    <3>1. f = [x \in X |-> f[x]]
      OBVIOUS
    <3> HIDE DEF f, X
    <3> QED BY <2>2, <3>1, ImageIsFinite
  <2>4. ASSUME NEW v \in SimpleWaysOf[d + 1] PROVE v \in {f[x] : x \in X}
    <3>1. SimpleWaysOf[d + 1] =
             UNION {Further(w) : w \in {u \in shorter : Last(u.nodes) # request.target}}
      BY <1>2, <2>1 DEF WaysStep
    <3>2. PICK w \in shorter : v \in Further(w)
      BY <2>4, <3>1
    <3>3. PICK m : \E e \in Between(Last(w.nodes), m) : v = OneFurther(w, m, e)
      BY <3>2 DEF Further
    <3>4. PICK e \in Between(Last(w.nodes), m) : v = OneFurther(w, m, e)
      BY <3>3
    <3>5. m \in all /\ e \in D
      <4>1. Between(Last(w.nodes), m) # {}
        BY <3>4
      <4>2. m \in all
        BY <1>3, <4>1
      <4>3. e \in D
        BY <1>1, <3>4 DEF Between, TypeOK, E
      <4> QED BY <4>2, <4>3
    <3> HIDE DEF shorter, D
    <3>6. <<<<w, m>>, e>> \in X /\ f[<<<<w, m>>, e>>] = v
      BY <3>2, <3>4, <3>5
    <3> HIDE DEF f, X
    <3> QED BY <3>6
  <2> HIDE DEF f, X
  <2>5. IsFiniteSet(SimpleWaysOf[d + 1])
    BY <2>3, <2>4, FS_Subset
  <2> QED BY <2>1, <2>5
<1>6. \A d \in 0..L : d \in N /\ d < L => d + 1 \in N
  BY <1>5, Zenon
<1> HIDE DEF N
<1>7. 0..L \subseteq N
  BY <1>1, <1>4, <1>6, Upto, Zenon
<1> DEFINE D == 0..L
           f == [d \in D |-> SimpleWaysOf[d]]
           sets == {f[d] : d \in D}
<1>8. IsFiniteSet(sets)
  <2>1. f = [d \in D |-> f[d]]
    OBVIOUS
  <2>2. IsFiniteSet(D)
    BY <1>1, FS_Interval
  <2> HIDE DEF f, D
  <2> QED BY <2>1, <2>2, ImageIsFinite
<1>9. \A s \in sets : IsFiniteSet(s)
  BY <1>7 DEF N
<1>10. SimpleWays \subseteq UNION sets
  BY DEF SimpleWays
<1> HIDE DEF sets
<1>11. IsFiniteSet(UNION sets)
  BY <1>8, <1>9, FS_UNION
<1> QED BY <1>10, <1>11, FS_Subset

-----------------------------------------------------------------------------
(* The search for paths *)

\* The way w starts as u does
BeginsWith(w, u) ==
    /\ Size(u) <= Size(w)
    /\ \A i \in 1..(Size(u) + 1) : w.nodes[i] = u.nodes[i]
    /\ \A i \in 1..Size(u) : w.edges[i] = u.edges[i]
\* The next edge of w after the way gone on from is still to follow
Pursuing(w) ==
    /\ todo # {} /\ BeginsWith(w, way) /\ Size(way) < Size(w)
    /\ \E k \in todo : EdgeOf(k) = w.edges[Size(way) + 1] /\ To(k) = w.nodes[Size(way) + 2]

\* Whatever is gone on from has not reached the target
Clear ==
    /\ \A w \in ToSet(queue) : Simple(w) /\ Last(w.nodes) # request.target
    /\ todo # {} => Simple(way) /\ Last(way.nodes) # request.target
    /\ \A w \in ToSet(paths) : Simple(w) /\ Last(w.nodes) = request.target
\* The queue is of one number of edges and the next, paths came in the order of theirs
Rising ==
    /\ \A i, j \in DOMAIN queue :
          i <= j => Size(queue[i]) <= Size(queue[j]) /\ Size(queue[j]) <= Size(queue[i]) + 1
    /\ todo # {} => \A w \in ToSet(queue) : Size(way) <= Size(w) /\ Size(w) <= Size(way) + 1
    /\ \A i, j \in DOMAIN paths : i <= j => Size(paths[i]) <= Size(paths[j])
    /\ \A w \in ToSet(paths) : /\ \A u \in ToSet(queue) : Size(w) <= Size(u) + 1
                               /\ todo # {} => Size(w) <= Size(way) + 1
\* Nothing is there that another in the queue still leads to
Fresh ==
    /\ IsInjective(queue) /\ IsInjective(paths)
    /\ todo # {} => way \notin ToSet(queue)
    /\ \A w \in ToSet(queue) \cup ToSet(paths) :
          /\ \A u \in ToSet(queue) : ~(BeginsWith(w, u) /\ Size(u) < Size(w))
          /\ ~Pursuing(w)
\* Every path is found, or something on the queue still leads to it, or it is no shorter than
\* the last of as many as were asked for
Pursued ==
    \A w \in Way : ToTarget(w) =>
        \/ w \in ToSet(paths)
        \/ \E u \in ToSet(queue) : BeginsWith(w, u)
        \/ Pursuing(w)
        \/ Full /\ Size(w) >= Size(Last(paths))
AtMost == Len(paths) <= request.limit /\ (Full => todo = {})
AllPaths == Ways /\ Begun => Clear /\ Rising /\ Fresh /\ Pursued /\ AtMost

\* One that begins with another is at least as long
LEMMA BeginsAlike ==
    ASSUME NEW w \in Way, NEW u \in Way, RealWay(w), RealWay(u),
           BeginsWith(w, u), ~(Size(u) < Size(w))
    PROVE  u = w
<1>1. Size(u) \in Nat /\ Size(w) \in Nat
  BY WayParts
<1>2. Size(u) = Size(w)
  BY <1>1 DEF BeginsWith
<1> QED BY <1>2, SameWay DEF BeginsWith

LEMMA BeginsShorter ==
    ASSUME NEW w \in Way, RealWay(w), NEW m \in Nodes, NEW e \in 1..E,
           NEW u \in Way, RealWay(u), BeginsWith(OneFurther(w, m, e), u), Size(u) <= Size(w)
    PROVE  BeginsWith(w, u)
<1> DEFINE v == OneFurther(w, m, e)
<1>1. /\ \A i \in 1..(Size(w) + 1) : v.nodes[i] = w.nodes[i]
      /\ \A i \in 1..Size(w) : v.edges[i] = w.edges[i]
  BY Extended
<1>2. Size(u) \in Nat /\ Size(w) \in Nat
  BY WayParts
<1>3. /\ \A i \in 1..(Size(u) + 1) : i \in 1..(Size(w) + 1)
      /\ \A i \in 1..Size(u) : i \in 1..Size(w)
  BY <1>2
<1> HIDE DEF v
<1>4. /\ \A i \in 1..(Size(u) + 1) : v.nodes[i] = u.nodes[i]
      /\ \A i \in 1..Size(u) : v.edges[i] = u.edges[i]
  BY DEF BeginsWith, v
<1> QED BY <1>1, <1>3, <1>4 DEF BeginsWith

\* Whatever begins with w and its next edge begins with the way one further, and the reverse
LEMMA BeginsFurther ==
    ASSUME NEW w \in Way, RealWay(w), NEW m \in Nodes, NEW e \in 1..E,
           NEW x \in Way, RealWay(x)
    PROVE  BeginsWith(x, OneFurther(w, m, e)) <=>
              /\ BeginsWith(x, w) /\ Size(w) < Size(x)
              /\ x.edges[Size(w) + 1] = e /\ x.nodes[Size(w) + 2] = m
<1> DEFINE v == OneFurther(w, m, e)
           n == Size(w)
<1>1. /\ Size(v) = n + 1
      /\ \A i \in 1..(n + 1) : v.nodes[i] = w.nodes[i]
      /\ v.nodes[n + 2] = m
      /\ \A i \in 1..n : v.edges[i] = w.edges[i]
      /\ v.edges[n + 1] = e
  BY Extended
<1>2. n \in Nat /\ Size(x) \in Nat
  BY WayParts
<1> HIDE DEF v, n
<1>3. /\ Size(v) + 1 = n + 2 /\ n + 2 \in 1..(n + 2) /\ n + 1 \in 1..(n + 1)
      /\ \A i \in 1..(n + 2) : i \in 1..(n + 1) \/ i = n + 2
      /\ \A i \in 1..(n + 1) : i \in 1..n \/ i = n + 1
      /\ \A i \in 1..(n + 1) : i \in 1..(n + 2)
      /\ \A i \in 1..n : i \in 1..(n + 1)
      /\ n + 1 <= Size(x) <=> n < Size(x)
  BY <1>1, <1>2
<1>4. BeginsWith(x, v) <=>
         /\ n < Size(x)
         /\ \A i \in 1..(n + 2) : x.nodes[i] = v.nodes[i]
         /\ \A i \in 1..(n + 1) : x.edges[i] = v.edges[i]
  BY <1>1, <1>3 DEF BeginsWith
<1>5. BeginsWith(x, w) /\ n < Size(x) <=>
         /\ n < Size(x)
         /\ \A i \in 1..(n + 1) : x.nodes[i] = w.nodes[i]
         /\ \A i \in 1..n : x.edges[i] = w.edges[i]
  BY <1>2 DEF BeginsWith, n
<1>6. (\A i \in 1..(n + 2) : x.nodes[i] = v.nodes[i]) <=>
         (\A i \in 1..(n + 1) : x.nodes[i] = w.nodes[i]) /\ x.nodes[n + 2] = m
  <2>1. ASSUME \A i \in 1..(n + 2) : x.nodes[i] = v.nodes[i]
        PROVE  (\A i \in 1..(n + 1) : x.nodes[i] = w.nodes[i]) /\ x.nodes[n + 2] = m
    BY <1>1, <1>3, <2>1
  <2>2. ASSUME \A i \in 1..(n + 1) : x.nodes[i] = w.nodes[i], x.nodes[n + 2] = m
        PROVE  \A i \in 1..(n + 2) : x.nodes[i] = v.nodes[i]
    BY <1>1, <1>3, <2>2
  <2> QED BY <2>1, <2>2
<1>7. (\A i \in 1..(n + 1) : x.edges[i] = v.edges[i]) <=>
         (\A i \in 1..n : x.edges[i] = w.edges[i]) /\ x.edges[n + 1] = e
  <2>1. ASSUME \A i \in 1..(n + 1) : x.edges[i] = v.edges[i]
        PROVE  (\A i \in 1..n : x.edges[i] = w.edges[i]) /\ x.edges[n + 1] = e
    BY <1>1, <1>3, <2>1
  <2>2. ASSUME \A i \in 1..n : x.edges[i] = w.edges[i], x.edges[n + 1] = e
        PROVE  \A i \in 1..(n + 1) : x.edges[i] = v.edges[i]
    BY <1>1, <1>3, <2>2
  <2> QED BY <2>1, <2>2
<1>8. BeginsWith(x, v) <=>
         BeginsWith(x, w) /\ n < Size(x) /\ x.edges[n + 1] = e /\ x.nodes[n + 2] = m
  BY <1>4, <1>5, <1>6, <1>7, Zenon
<1> QED BY <1>8 DEF v, n

\* Two ends of edges that lead from one node to another, by one edge, are the same
LEMMA EndsDiffer ==
    ASSUME TypeOK, NEW n, NEW k \in Adjacent(n), NEW l \in Adjacent(n),
           EdgeOf(k) = EdgeOf(l), To(k) = To(l), To(k) # n
    PROVE  k = l
<1>1. From(k) = n /\ From(l) = n /\ E \in Nat /\ k \in 1..(2 * E) /\ l \in 1..(2 * E)
  BY DEF Adjacent, E, TypeOK
<1>2. Forward(k) <=> Forward(l)
  <2>1. ASSUME Forward(k), ~Forward(l) PROVE FALSE
    BY <1>1, <2>1 DEF From, To
  <2>2. ASSUME ~Forward(k), Forward(l) PROVE FALSE
    BY <1>1, <2>2 DEF From, To
  <2> QED BY <2>1, <2>2
<1>3. CASE request.operation = "neighborhood"
  BY <1>1, <1>2, <1>3 DEF Forward, EdgeOf
<1>4. CASE request.operation # "neighborhood"
  BY <1>1, <1>2, <1>4 DEF Forward, EdgeOf
<1> QED BY <1>3, <1>4

\* No step changes which ways there are
LEMMA SimpleStays ==
    ASSUME UNCHANGED input
    PROVE  /\ Way' = Way /\ request' = request /\ Ways' = Ways
           /\ \A w : Simple(w)' = Simple(w) /\ ToTarget(w)' = ToTarget(w)
           /\ \A k : To(k)' = To(k) /\ EdgeOf(k)' = EdgeOf(k)
           /\ \A n : Adjacent(n)' = Adjacent(n)
<1>1. request' = request
  BY DEF input
<1>2. /\ Starts' = Starts /\ Way' = Way /\ Ways' = Ways
      /\ \A n, m : Between(n, m)' = Between(n, m)
      /\ \A n : Adjacent(n)' = Adjacent(n)
  BY InputStays
<1>3. \A w : RealWay(w)' = RealWay(w)
  BY <1>2 DEF RealWay
<1>4. \A w : Simple(w)' = Simple(w)
  BY <1>1, <1>3 DEF Simple
<1>5. \A w : ToTarget(w)' = ToTarget(w)
  BY <1>1, <1>4 DEF ToTarget, Size
<1>6. \A k : To(k)' = To(k) /\ EdgeOf(k)' = EdgeOf(k)
  BY EndsStay
<1> QED BY <1>1, <1>2, <1>4, <1>5, <1>6

LEMMA PathsTypes ==
    ASSUME TypeOK
    PROVE  /\ queue \in Seq(Way) /\ paths \in Seq(Way) /\ way \in Way
           /\ DOMAIN queue = 1..Len(queue) /\ DOMAIN paths = 1..Len(paths)
           /\ Len(queue) \in Nat /\ Len(paths) \in Nat
           /\ ToSet(queue) \subseteq Way /\ ToSet(paths) \subseteq Way
           /\ request.limit \in Nat /\ request.limit >= 1
BY QueryAssumption DEF TypeOK, Request, ToSet

\* Every way begins with the start
LEMMA StartOfAll ==
    ASSUME TypeOK, InputOK, Ways
    PROVE  LET a == At(StartNode) IN
           /\ a \in Way /\ Simple(a) /\ Size(a) = 0 /\ Last(a.nodes) = StartNode
           /\ \A w \in Way : Simple(w) => BeginsWith(w, a) /\ w.nodes[1] = StartNode
<1> DEFINE a == At(StartNode)
<1>1. StartNode \in Nodes /\ StartNode \in ToSet(Starts) /\ \A n \in ToSet(Starts) : n = StartNode
  BY DEF Starts, StartNode, Ways, Listing, ToSet, InputOK, TypeOK, Request
<1>2. a \in Way /\ GoodWay(a) /\ Last(a.nodes) = StartNode
  BY <1>1, StartIsGood
<1>3. a.nodes = <<StartNode>> /\ a.edges = <<>> /\ Size(a) = 0
  BY DEF At, Size
<1>4. Simple(a)
  BY <1>2, <1>3 DEF GoodWay, Simple
<1>5. ASSUME NEW w \in Way, Simple(w) PROVE BeginsWith(w, a) /\ w.nodes[1] = StartNode
  <2>1. w.nodes[1] = StartNode /\ Size(w) \in Nat
    BY <1>1, <1>5, WayParts DEF Simple, RealWay
  <2> HIDE DEF a
  <2>2. \A i \in 1..(Size(a) + 1) : w.nodes[i] = a.nodes[i]
    BY <1>3, <2>1
  <2>3. \A i \in 1..Size(a) : w.edges[i] = a.edges[i]
    BY <1>3
  <2>4. Size(a) <= Size(w)
    BY <1>3, <2>1
  <2> QED BY <2>1, <2>2, <2>3, <2>4 DEF BeginsWith
<1> QED BY <1>2, <1>3, <1>4, <1>5

LEMMA OneElement ==
    ASSUME NEW x
    PROVE  /\ ToSet(<<x>>) = {x} /\ IsInjective(<<x>>) /\ Len(<<x>>) = 1 /\ Last(<<x>>) = x
           /\ \A i \in DOMAIN <<x>> : i = 1
           /\ ToSet(<<>>) = {} /\ IsInjective(<<>>) /\ DOMAIN <<>> = {} /\ Len(<<>>) = 0
BY DEF ToSet, IsInjective, Last

LEMMA StartPathsAll ==
    ASSUME GInv, StartPaths, EndedHolds
    PROVE  AllPaths'
<1> DEFINE a == At(StartNode)
<1>1. /\ UNCHANGED input /\ way' = way /\ todo' = {} /\ Ways /\ todo = {}
      /\ paths = <<>> /\ queue = <<>>
  BY DEF StartPaths, GInv, Phased, EndedHolds
<1>2. /\ Way' = Way /\ request' = request /\ Ways' = Ways
      /\ \A w : Simple(w)' = Simple(w) /\ ToTarget(w)' = ToTarget(w)
  BY <1>1, SimpleStays
<1>3. /\ a \in Way /\ Simple(a) /\ Size(a) = 0 /\ Last(a.nodes) = StartNode
      /\ \A w \in Way : Simple(w) => BeginsWith(w, a) /\ w.nodes[1] = StartNode
  BY <1>1, StartOfAll DEF GInv
<1>4. request.limit \in Nat /\ request.limit >= 1
  BY PathsTypes DEF GInv
<1>5. StartNode' = StartNode
  BY <1>2 DEF StartNode
<1> HIDE DEF a
<1>6. CASE StartNode = request.target
  <2>1. paths' = <<a>> /\ queue' = <<>>
    BY <1>1, <1>6 DEF StartPaths, a
  <2>2. ToSet(paths') = {a} /\ ToSet(queue') = {} /\ IsInjective(paths') /\ IsInjective(queue')
        /\ Len(paths') = 1 /\ Last(paths') = a /\ DOMAIN queue' = {}
        /\ \A i \in DOMAIN paths' : i = 1
    BY <2>1, OneElement
  <2>3. Clear'
    BY <1>1, <1>2, <1>3, <1>6, <2>2 DEF Clear
  <2>4. Rising'
    <3>1. paths'[1] = a
      BY <2>1
    <3> QED BY <1>1, <1>3, <2>2, <3>1 DEF Rising
  <2>5. Fresh'
    BY <1>1, <2>2 DEF Fresh, Pursuing
  <2>6. ASSUME NEW w \in Way, ToTarget(w) PROVE w = a
    <3>1. Simple(w) /\ BeginsWith(w, a) /\ w.nodes[1] = request.target
      BY <1>3, <1>6, <2>6 DEF ToTarget
    <3>2. Size(w) \in Nat /\ DOMAIN w.edges = 1..Size(w)
      BY <3>1, WayParts DEF Simple
    <3>3. ~(0 < Size(w))
      <4> SUFFICES ASSUME 0 < Size(w) PROVE FALSE
        OBVIOUS
      <4>1. 1 \in DOMAIN w.edges
        BY <3>2
      <4> QED BY <3>1, <4>1 DEF Simple
    <3> QED BY <1>3, <3>1, <3>3, BeginsAlike DEF Simple
  <2>7. Pursued'
    BY <1>2, <2>2, <2>6 DEF Pursued
  <2>8. AtMost'
    BY <1>1, <1>2, <1>4, <2>2 DEF AtMost
  <2> QED BY <2>3, <2>4, <2>5, <2>7, <2>8 DEF AllPaths
<1>7. CASE StartNode # request.target
  <2>1. paths' = <<>> /\ queue' = <<a>>
    BY <1>1, <1>7 DEF StartPaths, a
  <2>2. ToSet(queue') = {a} /\ ToSet(paths') = {} /\ IsInjective(paths') /\ IsInjective(queue')
        /\ Len(paths') = 0 /\ DOMAIN paths' = {}
        /\ \A i \in DOMAIN queue' : i = 1
    BY <2>1, OneElement
  <2>3. Clear'
    BY <1>1, <1>2, <1>3, <1>7, <2>2 DEF Clear
  <2>4. Rising'
    <3>1. queue'[1] = a
      BY <2>1
    <3> QED BY <1>1, <1>3, <2>2, <3>1 DEF Rising
  <2>5. Fresh'
    BY <1>1, <1>3, <2>2 DEF Fresh, Pursuing
  <2>6. Pursued'
    BY <1>2, <1>3, <2>2 DEF Pursued, ToTarget
  <2>7. AtMost'
    BY <1>1, <1>2, <1>4, <2>2 DEF AtMost
  <2> QED BY <2>3, <2>4, <2>5, <2>6, <2>7 DEF AllPaths
<1> QED BY <1>6, <1>7

\* The next one to go on from, and the rest
LEMMA HeadAndTail ==
    ASSUME NEW S, NEW s \in Seq(S), s # <<>>
    PROVE  /\ Head(s) = s[1] /\ Head(s) \in S /\ Head(s) \in ToSet(s)
           /\ Tail(s) \in Seq(S) /\ Len(s) \in Nat /\ Len(s) >= 1
           /\ Len(Tail(s)) = Len(s) - 1 /\ DOMAIN Tail(s) = 1..(Len(s) - 1)
           /\ \A i \in 1..(Len(s) - 1) : Tail(s)[i] = s[i + 1]
           /\ ToSet(s) = {Head(s)} \cup ToSet(Tail(s))
<1>1. /\ Head(s) = s[1] /\ Head(s) \in S
      /\ Tail(s) \in Seq(S) /\ Len(s) \in Nat /\ Len(s) >= 1
      /\ Len(Tail(s)) = Len(s) - 1 /\ DOMAIN Tail(s) = 1..(Len(s) - 1)
      /\ \A i \in 1..(Len(s) - 1) : Tail(s)[i] = s[i + 1]
  OBVIOUS
<1> DEFINE t == Tail(s)
           n == Len(s)
<1>2. DOMAIN s = 1..n
  OBVIOUS
<1> HIDE DEF t, n
<1>3. DOMAIN t = 1..(n - 1) /\ n \in Nat /\ n >= 1 /\ \A i \in 1..(n - 1) : t[i] = s[i + 1]
      /\ Head(s) = s[1]
  BY <1>1 DEF t, n
<1>4. ASSUME NEW i \in 1..n PROVE s[i] \in {Head(s)} \cup ToSet(t)
  <2>1. CASE i = 1
    BY <1>3, <2>1
  <2>2. CASE i # 1
    <3>1. i - 1 \in 1..(n - 1) /\ (i - 1) + 1 = i
      BY <1>3, <2>2
    <3>2. t[i - 1] = s[i]
      BY <1>3, <3>1
    <3> QED BY <1>3, <3>1, <3>2 DEF ToSet
  <2> QED BY <2>1, <2>2
<1>5. Head(s) \in ToSet(s)
  <2>1. 1 \in 1..n
    BY <1>3
  <2> QED BY <1>2, <1>3, <2>1 DEF ToSet
<1>6. \A i \in 1..(n - 1) : t[i] \in ToSet(s)
  <2> SUFFICES ASSUME NEW i \in 1..(n - 1) PROVE t[i] \in ToSet(s)
    OBVIOUS
  <2>1. i + 1 \in 1..n /\ t[i] = s[i + 1]
    BY <1>3
  <2> QED BY <1>2, <2>1 DEF ToSet
<1>7. ToSet(s) \subseteq {Head(s)} \cup ToSet(t)
  BY <1>2, <1>4 DEF ToSet
<1>8. ToSet(t) \subseteq ToSet(s)
  BY <1>3, <1>6 DEF ToSet
<1> QED BY <1>1, <1>5, <1>7, <1>8 DEF t

\* An entry taken off the queue: everything it still leads to is to follow
LEMMA TakeAll ==
    ASSUME GInv, TypeOK', Take, Ways, AllPaths
    PROVE  AllPaths'
<1> DEFINE v == Head(queue)
           rest == Tail(queue)
<1>1. /\ UNCHANGED input /\ way' = v /\ queue' = rest /\ paths' = paths
      /\ todo = {} /\ queue # <<>> /\ ~Full /\ phase = "walk" /\ phase' = "walk"
      /\ todo' = IF Deep(way') THEN {} ELSE Adjacent(Last(way'.nodes))
  BY DEF Take, Ways, Marked
<1>2. /\ Way' = Way /\ request' = request /\ Ways' = Ways
      /\ \A w : Simple(w)' = Simple(w) /\ ToTarget(w)' = ToTarget(w)
      /\ \A k : To(k)' = To(k) /\ EdgeOf(k)' = EdgeOf(k)
  BY <1>1, SimpleStays
<1>3. /\ queue \in Seq(Way) /\ paths \in Seq(Way) /\ TypeOK
      /\ DOMAIN queue = 1..Len(queue) /\ Len(queue) \in Nat /\ Len(paths) \in Nat
      /\ ToSet(queue) \subseteq Way /\ ToSet(paths) \subseteq Way
      /\ request.limit \in Nat /\ request.depth \in Nat
  BY PathsTypes, DepthIsNat DEF GInv
<1>4. /\ v = queue[1] /\ v \in Way /\ v \in ToSet(queue)
      /\ DOMAIN rest = 1..(Len(queue) - 1) /\ Len(queue) >= 1
      /\ \A i \in 1..(Len(queue) - 1) : rest[i] = queue[i + 1]
      /\ ToSet(queue) = {v} \cup ToSet(rest)
  BY <1>1, <1>3, HeadAndTail
<1>5. Clear /\ Rising /\ Fresh /\ Pursued /\ AtMost
  BY <1>1 DEF AllPaths, Begun
<1> HIDE DEF v, rest
<1>6. Clear'
  BY <1>1, <1>2, <1>4, <1>5 DEF Clear
<1>7. ASSUME NEW i \in 1..(Len(queue) - 1)
      PROVE  i + 1 \in 1..Len(queue) /\ 1 \in 1..Len(queue) /\ 1 <= i + 1 /\ rest[i] = queue[i + 1]
  BY <1>3, <1>4
<1>8. Rising'
  <2>1. ASSUME NEW i \in DOMAIN rest, NEW j \in DOMAIN rest, i <= j
        PROVE  Size(rest[i]) <= Size(rest[j]) /\ Size(rest[j]) <= Size(rest[i]) + 1
    <3>1. i + 1 <= j + 1 /\ i + 1 \in DOMAIN queue /\ j + 1 \in DOMAIN queue
          /\ rest[i] = queue[i + 1] /\ rest[j] = queue[j + 1]
      BY <1>3, <1>4, <1>7, <2>1
    <3> QED BY <1>5, <3>1 DEF Rising
  <2>2. ASSUME NEW w \in ToSet(rest) PROVE Size(v) <= Size(w) /\ Size(w) <= Size(v) + 1
    <3>1. PICK i \in 1..(Len(queue) - 1) : rest[i] = w
      BY <1>4, <2>2 DEF ToSet
    <3>2. i + 1 \in DOMAIN queue /\ 1 \in DOMAIN queue /\ 1 <= i + 1 /\ w = queue[i + 1]
      BY <1>3, <1>7, <3>1
    <3> QED BY <1>4, <1>5, <3>2 DEF Rising
  <2>3. \A w \in ToSet(paths) : \A u \in ToSet(queue) : Size(w) <= Size(u) + 1
    BY <1>5 DEF Rising
  <2> QED BY <1>1, <1>4, <1>5, <2>1, <2>2, <2>3 DEF Rising
<1>9. v \notin ToSet(rest) /\ IsInjective(rest)
  <2>1. \A i, j \in 1..Len(queue) : queue[i] = queue[j] => i = j
    BY <1>3, <1>5 DEF Fresh, IsInjective
  <2>2. ASSUME NEW i \in 1..(Len(queue) - 1), rest[i] = v PROVE FALSE
    <3>1. queue[i + 1] = queue[1] /\ i + 1 \in 1..Len(queue) /\ 1 \in 1..Len(queue) /\ i + 1 # 1
      BY <1>4, <1>7, <2>2
    <3> QED BY <2>1, <3>1
  <2>3. ASSUME NEW i \in 1..(Len(queue) - 1), NEW j \in 1..(Len(queue) - 1), rest[i] = rest[j]
        PROVE  i = j
    <3>1. i + 1 = j + 1
      BY <1>7, <2>1, <2>3
    <3> QED BY <3>1
  <2>4. IsInjective(rest)
    <3>1. DOMAIN rest = 1..(Len(queue) - 1)
      BY <1>4
    <3> QED BY <2>3, <3>1, InjectiveIs, Zenon
  <2> QED BY <1>4, <2>2, <2>4 DEF ToSet
<1>10. Fresh'
  <2>1. ASSUME NEW w \in ToSet(rest) \cup ToSet(paths) PROVE ~Pursuing(w)'
    <3>1. ~(BeginsWith(w, v) /\ Size(v) < Size(w))
      BY <1>4, <1>5, <2>1 DEF Fresh
    <3> QED BY <1>1, <3>1 DEF Pursuing, BeginsWith, Size
  <2> QED BY <1>1, <1>4, <1>5, <1>9, <2>1 DEF Fresh, BeginsWith, Size
<1>11. Pursued'
  <2> SUFFICES ASSUME NEW w \in Way, ToTarget(w), w \notin ToSet(paths),
                      ~\E u \in ToSet(rest) : BeginsWith(w, u)
               PROVE  Pursuing(w)'
    BY <1>1, <1>2 DEF Pursued, BeginsWith, Size
  <2>1. BeginsWith(w, v)
    <3>1. ~Pursuing(w)
      BY <1>1 DEF Pursuing
    <3> QED BY <1>1, <1>4, <1>5, <3>1 DEF Pursued
  <2>2. RealWay(w) /\ RealWay(v) /\ Last(v.nodes) # request.target
        /\ Last(w.nodes) = request.target /\ Size(w) <= request.depth
    BY <1>4, <1>5 DEF ToTarget, Simple, Clear
  <2>3. Size(v) < Size(w)
    BY <1>4, <2>1, <2>2, BeginsAlike
  <2>4. Size(v) \in Nat /\ Size(w) \in Nat /\ Last(v.nodes) = v.nodes[Size(v) + 1]
        /\ DOMAIN w.edges = 1..Size(w)
    BY <1>4, <2>2, WayParts
  <2>5. todo' = Adjacent(Last(v.nodes))
    <3>1. ~(Size(v) >= request.depth)
      BY <1>3, <2>2, <2>3, <2>4
    <3> QED BY <1>1, <3>1 DEF Deep, Size
  <2>6. Size(v) + 1 \in DOMAIN w.edges /\ (Size(v) + 1) + 1 = Size(v) + 2
        /\ Size(v) + 1 \in 1..(Size(v) + 1)
    BY <2>3, <2>4
  <2>7. w.edges[Size(v) + 1] \in Between(Last(v.nodes), w.nodes[Size(v) + 2])
    <3>1. w.nodes[Size(v) + 1] = Last(v.nodes)
      BY <2>1, <2>4, <2>6 DEF BeginsWith
    <3> QED BY <2>2, <2>6, <3>1 DEF RealWay
  <2>8. PICK k \in Adjacent(Last(v.nodes)) :
           EdgeOf(k) = w.edges[Size(v) + 1] /\ To(k) = w.nodes[Size(v) + 2]
    BY <1>3, <2>7, AdjacentAll
  <2>9. k \in todo'
    BY <2>5, <2>8
  <2> QED BY <1>1, <1>2, <2>1, <2>3, <2>8, <2>9 DEF Pursuing, BeginsWith, Size
<1>12. AtMost'
  <2>1. Full' = Full
    BY <1>1, <1>2 DEF Full, Ways
  <2> QED BY <1>1, <1>2, <1>5, <2>1 DEF AtMost
<1> QED BY <1>6, <1>8, <1>10, <1>11, <1>12 DEF AllPaths

\* What following one edge of a path does
LEMMA FollowPathStep ==
    ASSUME GInv, FollowPath, AllPaths
    PROVE  LET k == Min(todo)
               v == OneFurther(way, To(k), EdgeOf(k))
           IN
           /\ k \in todo /\ Ways /\ UNCHANGED input /\ way' = way
           /\ way \in Way /\ Simple(way) /\ Size(way) < request.depth
           /\ todo \subseteq Adjacent(Last(way.nodes))
           /\ To(k) \in Nodes /\ EdgeOf(k) \in 1..E
           /\ v \in Way /\ Size(v) = Size(way) + 1 /\ Last(v.nodes) = To(k)
           /\ ~Again(k) => Simple(v)
           /\ \/ Again(k) /\ queue' = queue /\ paths' = paths /\ todo' = todo \ {k}
              \/ /\ ~Again(k) /\ To(k) = request.target
                 /\ queue' = queue /\ paths' = Append(paths, v)
                 /\ todo' = IF Len(paths') >= request.limit THEN {} ELSE todo \ {k}
              \/ /\ ~Again(k) /\ To(k) # request.target
                 /\ queue' = Append(queue, v) /\ paths' = paths /\ todo' = todo \ {k}
<1> DEFINE k == Min(todo)
           v == OneFurther(way, To(k), EdgeOf(k))
<1>1. TypeOK /\ todo # {} /\ Ways /\ phase = "walk" /\ ~Marked
  BY DEF GInv, FollowPath, Ways, Marked
<1>2. k \in todo
  <2>1. todo \in SUBSET Nat
    BY <1>1 DEF TypeOK, E
  <2> QED BY <1>1, <2>1, MinIsLeast
<1>3. /\ way \in Way /\ Size(way) < request.depth /\ todo \subseteq Adjacent(Last(way.nodes))
  BY <1>1 DEF TypeOK, GInv, Current, Size
<1>4. Simple(way) /\ Last(way.nodes) # request.target
  BY <1>1 DEF AllPaths, Begun, Clear
<1>5. To(k) \in Nodes /\ EdgeOf(k) \in 1..E /\ EdgeOf(k) \in Between(Last(way.nodes), To(k))
  BY <1>1, <1>2, <1>3, AdjacentLeads
<1>6. /\ v \in Way /\ Size(v) = Size(way) + 1 /\ Last(v.nodes) = To(k)
  BY <1>3, <1>4, <1>5, Extended DEF Simple
<1>7. ~Again(k) => Simple(v)
  BY <1>3, <1>4, <1>5, ExtendedIsSimple DEF Again
<1>8. Onward(k) = v
  BY DEF Onward, OneFurther
<1>9. UNCHANGED input /\ way' = way
  BY DEF FollowPath
<1>10. \/ Again(k) /\ queue' = queue /\ paths' = paths /\ todo' = todo \ {k}
       \/ /\ ~Again(k) /\ To(k) = request.target
          /\ queue' = queue /\ paths' = Append(paths, v)
          /\ todo' = IF Len(paths') >= request.limit THEN {} ELSE todo \ {k}
       \/ /\ ~Again(k) /\ To(k) # request.target
          /\ queue' = Append(queue, v) /\ paths' = paths /\ todo' = todo \ {k}
  <2> HIDE DEF k, v
  <2>1. /\ paths' = IF ~Again(k) /\ To(k) = request.target THEN Append(paths, Onward(k)) ELSE paths
        /\ queue' = IF Again(k) \/ (~Again(k) /\ To(k) = request.target) THEN queue
                    ELSE Append(queue, Onward(k))
        /\ todo' = IF (~Again(k) /\ To(k) = request.target) /\ Len(paths') >= request.limit
                   THEN {} ELSE todo \ {k}
    BY DEF FollowPath, k
  <2> QED BY <1>8, <2>1
<1> HIDE DEF v
<1> QED BY <1>1, <1>2, <1>3, <1>4, <1>5, <1>6, <1>7, <1>9, <1>10 DEF v

\* A way appended that was not there
LEMMA AppendedWay ==
    ASSUME NEW S, NEW s \in Seq(S), NEW x \in S
    PROVE  /\ Append(s, x) \in Seq(S) /\ Len(s) \in Nat /\ Len(Append(s, x)) = Len(s) + 1
           /\ DOMAIN s = 1..Len(s) /\ DOMAIN Append(s, x) = 1..(Len(s) + 1)
           /\ \A i \in 1..Len(s) : Append(s, x)[i] = s[i]
           /\ Append(s, x)[Len(s) + 1] = x /\ Last(Append(s, x)) = x
           /\ \A i \in 1..(Len(s) + 1) : i \in 1..Len(s) \/ i = Len(s) + 1
           /\ ToSet(Append(s, x)) = ToSet(s) \cup {x}
           /\ IsInjective(s) /\ x \notin ToSet(s) => IsInjective(Append(s, x))
<1>1. /\ Append(s, x) \in Seq(S) /\ Len(s) \in Nat /\ Len(Append(s, x)) = Len(s) + 1
      /\ DOMAIN s = 1..Len(s) /\ DOMAIN Append(s, x) = 1..(Len(s) + 1)
      /\ \A i \in 1..Len(s) : Append(s, x)[i] = s[i]
      /\ Append(s, x)[Len(s) + 1] = x
      /\ \A i \in 1..(Len(s) + 1) : i \in 1..Len(s) \/ i = Len(s) + 1
  OBVIOUS
<1>2. Last(Append(s, x)) = x
  BY <1>1 DEF Last
<1>3. ToSet(Append(s, x)) = ToSet(s) \cup {x}
  BY Elements
<1>4. IsInjective(s) /\ x \notin ToSet(s) => IsInjective(Append(s, x))
  BY AppendedOnce
<1> QED BY <1>1, <1>2, <1>3, <1>4

LEMMA FollowPathRises ==
    ASSUME GInv, FollowPath, AllPaths
    PROVE  Rising'
<1> DEFINE k == Min(todo)
           v == OneFurther(way, To(k), EdgeOf(k))
<1>1. /\ todo # {} /\ way' = way
      /\ v \in Way /\ Size(v) = Size(way) + 1
      /\ \/ queue' = queue /\ paths' = paths
         \/ queue' = queue /\ paths' = Append(paths, v)
         \/ queue' = Append(queue, v) /\ paths' = paths
  BY FollowPathStep
<1>2. /\ queue \in Seq(Way) /\ paths \in Seq(Way) /\ way \in Way
      /\ \A w \in ToSet(queue) : w \in Way
  BY PathsTypes DEF GInv
<1>3. Rising
  BY FollowPathStep, <1>1 DEF AllPaths, Begun, FollowPath
<1>4. Size(way) \in Nat
  BY <1>2 DEF Size, Way
<1>5. \A w \in Way : Size(w) \in Nat
  BY DEF Size, Way
<1> HIDE DEF v, k
<1>6. /\ \A w \in ToSet(queue) : Size(way) <= Size(w) /\ Size(w) <= Size(way) + 1
      /\ \A w \in ToSet(paths) : Size(w) <= Size(way) + 1
  BY <1>1, <1>3 DEF Rising
<1>7. /\ \A i \in DOMAIN queue : queue[i] \in ToSet(queue) /\ queue[i] \in Way
      /\ \A i \in DOMAIN paths : paths[i] \in ToSet(paths) /\ paths[i] \in Way
  BY <1>2 DEF ToSet
<1>8. CASE queue' = queue /\ paths' = paths
  BY <1>1, <1>3, <1>6, <1>8 DEF Rising
<1>9. CASE queue' = queue /\ paths' = Append(paths, v)
  <2>1. /\ DOMAIN paths' = 1..(Len(paths) + 1) /\ DOMAIN paths = 1..Len(paths)
        /\ \A i \in 1..Len(paths) : paths'[i] = paths[i]
        /\ paths'[Len(paths) + 1] = v /\ ToSet(paths') = ToSet(paths) \cup {v}
        /\ \A i \in 1..(Len(paths) + 1) : i \in 1..Len(paths) \/ i = Len(paths) + 1
        /\ Len(paths) \in Nat
    BY <1>1, <1>2, <1>9, AppendedWay
  <2>2. ASSUME NEW i \in DOMAIN paths', NEW j \in DOMAIN paths', i <= j
        PROVE  Size(paths'[i]) <= Size(paths'[j])
    <3>1. CASE j \in 1..Len(paths)
      <4>1. i \in 1..Len(paths)
        BY <2>1, <2>2, <3>1
      <4> QED BY <1>3, <2>1, <2>2, <3>1, <4>1 DEF Rising
    <3>2. CASE j = Len(paths) + 1
      <4>1. CASE i \in 1..Len(paths)
        BY <1>1, <1>6, <1>7, <2>1, <3>2, <4>1
      <4>2. CASE i = Len(paths) + 1
        BY <1>1, <1>4, <2>1, <3>2, <4>2
      <4> QED BY <2>1, <4>1, <4>2
    <3> QED BY <2>1, <3>1, <3>2
  <2>3. ASSUME NEW u \in ToSet(queue) PROVE Size(v) <= Size(u) + 1
    BY <1>1, <1>2, <1>4, <1>5, <1>6
  <2>4. Size(v) <= Size(way) + 1
    BY <1>1, <1>4
  <2>5. \A w \in ToSet(paths) : \A u \in ToSet(queue) : Size(w) <= Size(u) + 1
    BY <1>3 DEF Rising
  <2>6. \A i, j \in DOMAIN queue :
          i <= j => Size(queue[i]) <= Size(queue[j]) /\ Size(queue[j]) <= Size(queue[i]) + 1
    BY <1>3 DEF Rising
  <2> QED BY <1>1, <1>6, <1>9, <2>1, <2>2, <2>3, <2>4, <2>5, <2>6 DEF Rising
<1>10. CASE queue' = Append(queue, v) /\ paths' = paths
  <2>1. /\ DOMAIN queue' = 1..(Len(queue) + 1) /\ DOMAIN queue = 1..Len(queue)
        /\ \A i \in 1..Len(queue) : queue'[i] = queue[i]
        /\ queue'[Len(queue) + 1] = v /\ ToSet(queue') = ToSet(queue) \cup {v}
        /\ \A i \in 1..(Len(queue) + 1) : i \in 1..Len(queue) \/ i = Len(queue) + 1
        /\ Len(queue) \in Nat
    BY <1>1, <1>2, <1>10, AppendedWay
  <2>2. ASSUME NEW i \in DOMAIN queue', NEW j \in DOMAIN queue', i <= j
        PROVE  Size(queue'[i]) <= Size(queue'[j]) /\ Size(queue'[j]) <= Size(queue'[i]) + 1
    <3>1. CASE j \in 1..Len(queue)
      <4>1. i \in 1..Len(queue)
        BY <2>1, <2>2, <3>1
      <4> QED BY <1>3, <2>1, <2>2, <3>1, <4>1 DEF Rising
    <3>2. CASE j = Len(queue) + 1
      <4>1. CASE i \in 1..Len(queue)
        <5>1. queue'[i] = queue[i] /\ queue'[j] = v
          BY <2>1, <3>2, <4>1
        <5>2. Size(way) <= Size(queue[i]) /\ Size(queue[i]) <= Size(way) + 1
              /\ Size(queue[i]) \in Nat
          BY <1>5, <1>6, <1>7, <2>1, <4>1
        <5> QED BY <1>1, <1>4, <5>1, <5>2
      <4>2. CASE i = Len(queue) + 1
        BY <1>1, <1>4, <2>1, <3>2, <4>2
      <4> QED BY <2>1, <4>1, <4>2
    <3> QED BY <2>1, <3>1, <3>2
  <2>3. Size(way) <= Size(v) /\ Size(v) <= Size(way) + 1
    BY <1>1, <1>4
  <2>4. ASSUME NEW w \in ToSet(paths), NEW u \in ToSet(queue') PROVE Size(w) <= Size(u) + 1
    <3>1. CASE u = v
      <4>1. w \in Way /\ Size(w) \in Nat
        BY <1>2, <1>5, ElementOf
      <4> QED BY <1>1, <1>4, <1>6, <3>1, <4>1
    <3>2. CASE u \in ToSet(queue)
      BY <1>3, <3>2 DEF Rising
    <3> QED BY <2>1, <3>1, <3>2
  <2>5. \A i, j \in DOMAIN paths : i <= j => Size(paths[i]) <= Size(paths[j])
    BY <1>3 DEF Rising
  <2> QED BY <1>1, <1>6, <1>10, <2>1, <2>2, <2>3, <2>4, <2>5 DEF Rising
<1> QED BY <1>1, <1>8, <1>9, <1>10

\* What is pursued after a step was before
LEMMA PursuedBefore ==
    ASSUME UNCHANGED input, way' = way, todo' \subseteq todo, NEW w, Pursuing(w)'
    PROVE  Pursuing(w)
<1>1. \A k : To(k)' = To(k) /\ EdgeOf(k)' = EdgeOf(k)
  BY SimpleStays
<1> QED BY <1>1 DEF Pursuing, BeginsWith, Size

\* The way one further than the one gone on from is new, and nothing leads to it any more
LEMMA FurtherIsFresh ==
    ASSUME GInv, FollowPath, AllPaths, ~Again(Min(todo))
    PROVE  LET v == OneFurther(way, To(Min(todo)), EdgeOf(Min(todo))) IN
           /\ v \notin ToSet(queue) \cup ToSet(paths) /\ v # way
           /\ \A u \in ToSet(queue) : ~(BeginsWith(v, u) /\ Size(u) < Size(v))
           /\ \A w \in ToSet(queue) \cup ToSet(paths) \cup {v} : ~(Size(v) < Size(w))
           /\ \A w \in {v} : ~Pursuing(w)'
<1> DEFINE k == Min(todo)
           v == OneFurther(way, To(k), EdgeOf(k))
<1>1. /\ k \in todo /\ UNCHANGED input /\ way' = way
      /\ way \in Way /\ Simple(way)
      /\ todo \subseteq Adjacent(Last(way.nodes))
      /\ To(k) \in Nodes /\ EdgeOf(k) \in 1..E
      /\ v \in Way /\ Size(v) = Size(way) + 1
      /\ Simple(v)
  BY FollowPathStep
<1>2. \A w \in ToSet(queue) \cup ToSet(paths) : w \in Way
  BY PathsTypes DEF GInv
<1>3. Rising /\ Fresh /\ Clear
  BY FollowPathStep DEF AllPaths, Begun, FollowPath
<1>4. k \notin todo' /\ todo' \subseteq todo
  BY FollowPathStep
<1>5. /\ \A w \in ToSet(queue) : Size(way) <= Size(w) /\ Size(w) <= Size(way) + 1
      /\ \A w \in ToSet(paths) : Size(w) <= Size(way) + 1
      /\ \A w \in ToSet(queue) \cup ToSet(paths) : RealWay(w)
      /\ way \notin ToSet(queue) /\ todo # {}
  BY <1>1, <1>3 DEF Rising, Clear, Simple, Fresh
<1>6. Size(way) \in Nat /\ \A w \in Way : Size(w) \in Nat
  BY <1>1 DEF Size, Way
<1>7. RealWay(way) /\ RealWay(v)
  BY <1>1 DEF Simple
<1>8. To(k) # Last(way.nodes)
  <2>1. /\ Last(way.nodes) = way.nodes[Size(way) + 1] /\ DOMAIN way.nodes = 1..(Size(way) + 1)
    BY <1>1, <1>7, WayParts
  <2>2. Size(way) + 1 \in 1..(Size(way) + 1)
    BY <1>6
  <2>3. Last(way.nodes) \in ToSet(way.nodes)
    BY <2>1, <2>2 DEF ToSet
  <2> QED BY <2>3 DEF Again
<1> HIDE DEF v, k
<1>9. /\ BeginsWith(v, way) /\ Size(way) < Size(v)
      /\ v.edges[Size(way) + 1] = EdgeOf(k) /\ v.nodes[Size(way) + 2] = To(k)
  <2>1. BeginsWith(v, v)
    BY <1>1, <1>6 DEF BeginsWith
  <2> QED BY <1>1, <1>7, <2>1, BeginsFurther DEF v
<1>10. Pursuing(v)
  BY <1>1, <1>5, <1>9 DEF Pursuing
<1>11. v \notin ToSet(queue) \cup ToSet(paths)
  BY <1>3, <1>10 DEF Fresh
<1>12. ASSUME NEW u \in ToSet(queue), BeginsWith(v, u), Size(u) < Size(v) PROVE FALSE
  <2>1. u \in Way /\ RealWay(u) /\ Size(u) <= Size(way) /\ ~(Size(u) < Size(way))
    BY <1>1, <1>2, <1>5, <1>6, <1>12
  <2>2. BeginsWith(way, u)
    BY <1>1, <1>7, <1>12, <2>1, BeginsShorter DEF v
  <2>3. u = way
    BY <1>1, <1>7, <2>1, <2>2, BeginsAlike
  <2> QED BY <1>5, <2>3
<1>13. ASSUME NEW w \in ToSet(queue) \cup ToSet(paths) \cup {v}, Size(v) < Size(w) PROVE FALSE
  <2>1. w \in Way /\ Size(w) \in Nat
    BY <1>1, <1>2, <1>6
  <2>2. Size(w) <= Size(way) + 1
    BY <1>1, <1>5, <1>6
  <2> QED BY <1>1, <1>6, <1>13, <2>1, <2>2
<1>14. ASSUME NEW w \in {v}, Pursuing(w)' PROVE FALSE
  <2>1. PICK l \in todo' : EdgeOf(l)' = w.edges[Size(way') + 1] /\ To(l)' = w.nodes[Size(way') + 2]
    BY <1>14, Zenon DEF Pursuing, Size
  <2>2. To(l)' = To(l) /\ EdgeOf(l)' = EdgeOf(l)
    BY <1>1, SimpleStays
  <2>3. EdgeOf(l) = EdgeOf(k) /\ To(l) = To(k) /\ To(l) # Last(way.nodes)
        /\ l \in Adjacent(Last(way.nodes)) /\ k \in Adjacent(Last(way.nodes))
    BY <1>1, <1>4, <1>8, <1>9, <2>1, <2>2
  <2>4. l = k
    BY <2>3, EndsDiffer DEF GInv
  <2> QED BY <1>4, <2>4
<1>15. v # way
  BY <1>1, <1>6
<1> QED BY <1>11, <1>12, <1>13, <1>14, <1>15 DEF v, k

LEMMA FollowPathFresh ==
    ASSUME GInv, FollowPath, AllPaths
    PROVE  Fresh'
<1> DEFINE k == Min(todo)
           v == OneFurther(way, To(k), EdgeOf(k))
<1>1. /\ UNCHANGED input /\ way' = way /\ todo # {} /\ todo' \subseteq todo /\ v \in Way
      /\ queue \in Seq(Way) /\ paths \in Seq(Way)
  BY FollowPathStep, PathsTypes DEF GInv
<1>2. Fresh
  BY FollowPathStep DEF AllPaths, Begun, FollowPath
<1>3. \A w : Pursuing(w)' => Pursuing(w)
  BY <1>1, PursuedBefore
<1>4. CASE Again(k)
  <2>1. queue' = queue /\ paths' = paths
    BY <1>4, FollowPathStep
  <2> HIDE DEF k, v
  <2> QED BY <1>1, <1>2, <1>3, <2>1 DEF Fresh, BeginsWith, Size
<1>5. CASE ~Again(k)
  <2>1. /\ v \notin ToSet(queue) \cup ToSet(paths) /\ v # way
        /\ \A u \in ToSet(queue) : ~(BeginsWith(v, u) /\ Size(u) < Size(v))
        /\ \A w \in ToSet(queue) \cup ToSet(paths) \cup {v} : ~(Size(v) < Size(w))
        /\ \A w \in {v} : ~Pursuing(w)'
    BY <1>5, FurtherIsFresh
  <2>2. \/ queue' = queue /\ paths' = Append(paths, v)
        \/ queue' = Append(queue, v) /\ paths' = paths
    BY <1>5, FollowPathStep
  <2> HIDE DEF k, v
  <2>3. IsInjective(queue') /\ IsInjective(paths')
    <3>1. IsInjective(queue) /\ IsInjective(paths)
      BY <1>2 DEF Fresh
    <3>2. IsInjective(Append(queue, v)) /\ IsInjective(Append(paths, v))
      BY <1>1, <2>1, <3>1, AppendedOnce
    <3> QED BY <2>2, <3>1, <3>2
  <2>4. \/ ToSet(queue') = ToSet(queue) /\ ToSet(paths') = ToSet(paths) \cup {v}
        \/ ToSet(queue') = ToSet(queue) \cup {v} /\ ToSet(paths') = ToSet(paths)
    <3>1. ToSet(Append(queue, v)) = ToSet(queue) \cup {v}
      BY <1>1, Elements
    <3>2. ToSet(Append(paths, v)) = ToSet(paths) \cup {v}
      BY <1>1, Elements
    <3> QED BY <2>2, <3>1, <3>2
  <2>5. todo' # {} => way' \notin ToSet(queue')
    BY <1>1, <1>2, <2>1, <2>4 DEF Fresh
  <2>6. ASSUME NEW w \in ToSet(queue') \cup ToSet(paths') PROVE ~Pursuing(w)'
    <3>1. w = v \/ w \in ToSet(queue) \cup ToSet(paths)
      BY <2>4
    <3>2. CASE w \in ToSet(queue) \cup ToSet(paths)
      <4>1. ~Pursuing(w)
        BY <1>2, <3>2 DEF Fresh
      <4> QED BY <1>3, <4>1
    <3>3. CASE w = v
      BY <2>1, <3>3
    <3> QED BY <3>1, <3>2, <3>3
  <2>7. ASSUME NEW w \in ToSet(queue') \cup ToSet(paths'), NEW u \in ToSet(queue')
        PROVE  ~(BeginsWith(w, u) /\ Size(u) < Size(w))
    <3>1. w \in ToSet(queue) \cup ToSet(paths) \cup {v}
      BY <2>4
    <3>2. u = v \/ u \in ToSet(queue)
      BY <2>4
    <3> QED BY <1>2, <2>1, <3>1, <3>2 DEF Fresh
  <2> QED BY <2>3, <2>5, <2>6, <2>7 DEF Fresh, BeginsWith, Size
<1> QED BY <1>4, <1>5

\* What goes on as the way does, by the edge followed, goes on from the way one further, which
\* is a path if it ends at the target
LEMMA FollowedIsFurther ==
    ASSUME GInv, FollowPath, AllPaths, NEW w \in Way, ToTarget(w), BeginsWith(w, way),
           Size(way) < Size(w),
           EdgeOf(Min(todo)) = w.edges[Size(way) + 1], To(Min(todo)) = w.nodes[Size(way) + 2]
    PROVE  w \in ToSet(paths') \/ \E u \in ToSet(queue') : BeginsWith(w, u)
<1> DEFINE k == Min(todo)
           v == OneFurther(way, To(k), EdgeOf(k))
           n == Size(way)
<1>1. /\ way \in Way /\ Simple(way) /\ To(k) \in Nodes /\ EdgeOf(k) \in 1..E
      /\ v \in Way /\ Size(v) = n + 1
      /\ ~Again(k) => Simple(v)
      /\ ~Again(k) => \/ To(k) = request.target /\ paths' = Append(paths, v)
                      \/ To(k) # request.target /\ queue' = Append(queue, v)
  BY FollowPathStep
<1>2. /\ queue \in Seq(Way) /\ paths \in Seq(Way)
  BY PathsTypes DEF GInv
<1> HIDE DEF k, v
<1>3. RealWay(way) /\ Simple(w) /\ RealWay(w)
  BY <1>1 DEF Simple, ToTarget
<1>4. BeginsWith(w, v)
  BY <1>1, <1>3, BeginsFurther DEF v, k
<1>5. /\ n \in Nat /\ DOMAIN way.nodes = 1..(n + 1) /\ Size(w) \in Nat
      /\ DOMAIN w.nodes = 1..(Size(w) + 1) /\ DOMAIN w.edges = 1..Size(w)
  BY <1>1, <1>3, WayParts
<1>6. ~Again(k)
  <2> SUFFICES ASSUME Again(k) PROVE FALSE
    OBVIOUS
  <2>1. PICK i \in 1..(n + 1) : way.nodes[i] = To(k)
    BY <1>5 DEF Again, ToSet
  <2>2. w.nodes[i] = way.nodes[i]
    BY <2>1 DEF BeginsWith
  <2> HIDE DEF n
  <2>3. i \in DOMAIN w.nodes /\ n + 2 \in DOMAIN w.nodes /\ i # n + 2
    BY <1>5, <2>1 DEF n
  <2>4. w.nodes[i] = w.nodes[n + 2]
    BY <2>1, <2>2 DEF n, k
  <2> QED BY <1>3, <2>3, <2>4 DEF Simple, IsInjective
<1>7. CASE To(k) = request.target
  <2>1. ~(n + 1 < Size(w))
    <3> SUFFICES ASSUME n + 1 < Size(w) PROVE FALSE
      OBVIOUS
    <3>1. n + 2 \in DOMAIN w.edges
      BY <1>5
    <3> QED BY <1>3, <1>7, <3>1 DEF Simple, k, n
  <2>2. v = w
    <3>1. RealWay(v) /\ ~(Size(v) < Size(w))
      BY <1>1, <1>6, <2>1 DEF Simple
    <3> QED BY <1>1, <1>3, <1>4, <3>1, BeginsAlike
  <2>3. paths' = Append(paths, v)
    BY <1>1, <1>6, <1>7
  <2>4. ToSet(paths') = ToSet(paths) \cup {v}
    <3>1. ToSet(Append(paths, v)) = ToSet(paths) \cup {v}
      BY <1>1, <1>2, Elements
    <3> QED BY <2>3, <3>1
  <2> QED BY <2>2, <2>4
<1>8. CASE To(k) # request.target
  <2>1. queue' = Append(queue, v)
    BY <1>1, <1>6, <1>8
  <2>2. ToSet(queue') = ToSet(queue) \cup {v}
    <3>1. ToSet(Append(queue, v)) = ToSet(queue) \cup {v}
      BY <1>1, <1>2, Elements
    <3> QED BY <2>1, <3>1
  <2> QED BY <1>4, <2>2
<1> QED BY <1>7, <1>8

LEMMA FollowPathPursued ==
    ASSUME GInv, FollowPath, AllPaths
    PROVE  Pursued' /\ AtMost'
<1> DEFINE k == Min(todo)
           v == OneFurther(way, To(k), EdgeOf(k))
<1>1. /\ k \in todo /\ Ways /\ UNCHANGED input /\ way' = way
      /\ way \in Way /\ Simple(way)
      /\ v \in Way /\ Size(v) = Size(way) + 1
      /\ \/ Again(k) /\ queue' = queue /\ paths' = paths /\ todo' = todo \ {k}
         \/ /\ ~Again(k) /\ To(k) = request.target
            /\ queue' = queue /\ paths' = Append(paths, v)
            /\ todo' = IF Len(paths') >= request.limit THEN {} ELSE todo \ {k}
         \/ /\ ~Again(k) /\ To(k) # request.target
            /\ queue' = Append(queue, v) /\ paths' = paths /\ todo' = todo \ {k}
  BY FollowPathStep
<1>2. /\ queue \in Seq(Way) /\ paths \in Seq(Way) /\ Len(paths) \in Nat
      /\ request.limit \in Nat
  BY PathsTypes DEF GInv
<1>3. Pursued /\ AtMost /\ todo # {}
  BY <1>1 DEF AllPaths, Begun, FollowPath
<1>4. /\ Way' = Way /\ request' = request /\ Ways' = Ways
      /\ \A w : ToTarget(w)' = ToTarget(w)
      /\ \A l : To(l)' = To(l) /\ EdgeOf(l)' = EdgeOf(l)
  BY <1>1, SimpleStays
<1>5. ~Full /\ Len(paths) < request.limit
  BY <1>1, <1>2, <1>3 DEF AtMost, Full
<1>6. Size(way) \in Nat /\ \A w \in Way : Size(w) \in Nat
  BY <1>1 DEF Size, Way
<1> HIDE DEF k, v
<1>7. /\ ToSet(Append(queue, v)) = ToSet(queue) \cup {v}
      /\ ToSet(Append(paths, v)) = ToSet(paths) \cup {v}
      /\ Len(Append(paths, v)) = Len(paths) + 1 /\ Last(Append(paths, v)) = v
  BY <1>1, <1>2, AppendedWay
<1>8. ToSet(queue) \subseteq ToSet(queue') /\ ToSet(paths) \subseteq ToSet(paths')
  BY <1>1, <1>7
<1>9. AtMost'
  <2>1. Full' <=> request.limit <= Len(paths')
    BY <1>1, <1>4 DEF Full
  <2>2. CASE paths' = paths
    BY <1>2, <1>4, <1>5, <2>1, <2>2 DEF AtMost
  <2>3. CASE paths' # paths
    <3>1. paths' = Append(paths, v)
          /\ todo' = IF Len(paths') >= request.limit THEN {} ELSE todo \ {k}
      BY <1>1, <2>3
    <3> QED BY <1>2, <1>4, <1>5, <1>7, <2>1, <3>1 DEF AtMost
  <2> QED BY <2>2, <2>3
<1>10. ASSUME NEW w \in Way, ToTarget(w)
       PROVE  \/ w \in ToSet(paths')
              \/ \E u \in ToSet(queue') : BeginsWith(w, u)
              \/ Pursuing(w)'
              \/ Full' /\ Size(w) >= Size(Last(paths'))
  <2>1. CASE w \in ToSet(paths)
    BY <1>8, <2>1
  <2>2. CASE \E u \in ToSet(queue) : BeginsWith(w, u)
    BY <1>8, <2>2
  <2>3. CASE Pursuing(w)
    <3>1. BeginsWith(w, way) /\ Size(way) < Size(w)
      BY <2>3 DEF Pursuing
    <3>2. PICK l \in todo : EdgeOf(l) = w.edges[Size(way) + 1] /\ To(l) = w.nodes[Size(way) + 2]
      BY <2>3 DEF Pursuing
    <3>3. CASE l = k
      BY <1>10, <3>1, <3>2, <3>3, FollowedIsFurther DEF k
    <3>4. CASE l \in todo'
      <4>1. todo' # {} /\ BeginsWith(w, way') /\ Size(way') < Size(w)
        BY <1>1, <3>1, <3>4
      <4>2. EdgeOf(l)' = w.edges[Size(way') + 1] /\ To(l)' = w.nodes[Size(way') + 2]
        BY <1>1, <1>4, <3>2
      <4>3. Pursuing(w)'
        BY <3>4, <4>1, <4>2 DEF Pursuing, BeginsWith, Size
      <4> QED BY <4>3
    <3>5. CASE l # k /\ l \notin todo'
      <4>1. paths' = Append(paths, v) /\ Len(paths') >= request.limit
        BY <1>1, <3>5
      <4>2. Full' /\ Last(paths') = v
        BY <1>1, <1>2, <1>4, <1>7, <4>1 DEF Full
      <4>3. Size(w) >= Size(v)
        BY <1>1, <1>6, <1>10, <3>1
      <4> QED BY <4>2, <4>3
    <3> QED BY <3>3, <3>4, <3>5
  <2> QED BY <1>3, <1>5, <1>10, <2>1, <2>2, <2>3 DEF Pursued
<1>11. Pursued'
  BY <1>4, <1>10 DEF Pursued, BeginsWith, Size
<1> QED BY <1>9, <1>11

LEMMA FollowPathAll ==
    ASSUME GInv, FollowPath, AllPaths
    PROVE  AllPaths'
<1> DEFINE k == Min(todo)
           v == OneFurther(way, To(k), EdgeOf(k))
<1>1. /\ UNCHANGED input /\ way' = way /\ todo # {} /\ v \in Way /\ Last(v.nodes) = To(k)
      /\ ~Again(k) => Simple(v)
      /\ queue \in Seq(Way) /\ paths \in Seq(Way)
      /\ \/ Again(k) /\ queue' = queue /\ paths' = paths
         \/ ~Again(k) /\ To(k) = request.target /\ queue' = queue /\ paths' = Append(paths, v)
         \/ ~Again(k) /\ To(k) # request.target /\ queue' = Append(queue, v) /\ paths' = paths
  BY FollowPathStep, PathsTypes DEF GInv
<1>2. Clear
  BY FollowPathStep DEF AllPaths, Begun, FollowPath
<1>3. request' = request /\ \A w : Simple(w)' = Simple(w)
  BY <1>1, SimpleStays
<1> HIDE DEF k, v
<1>4. /\ ToSet(Append(queue, v)) = ToSet(queue) \cup {v}
      /\ ToSet(Append(paths, v)) = ToSet(paths) \cup {v}
  BY <1>1, Elements
<1>5. ASSUME NEW w \in ToSet(queue') PROVE Simple(w) /\ Last(w.nodes) # request.target
  BY <1>1, <1>2, <1>4, <1>5 DEF Clear
<1>6. ASSUME NEW w \in ToSet(paths') PROVE Simple(w) /\ Last(w.nodes) = request.target
  BY <1>1, <1>2, <1>4, <1>6 DEF Clear
<1>7. Simple(way) /\ Last(way.nodes) # request.target
  BY <1>1, <1>2 DEF Clear
<1>9. Clear'
  BY <1>1, <1>3, <1>5, <1>6, <1>7 DEF Clear
<1> QED BY <1>9, FollowPathRises, FollowPathFresh, FollowPathPursued DEF AllPaths

\* Nothing of the search changes when its response is made up
LEMMA SearchUnchanged ==
    ASSUME UNCHANGED <<input, queue, way, todo, paths>>,
           Clear, Rising, Fresh, Pursued, AtMost, Ways
    PROVE  AllPaths'
<1>1. /\ Way' = Way /\ request' = request /\ Ways' = Ways
      /\ \A w : Simple(w)' = Simple(w) /\ ToTarget(w)' = ToTarget(w)
      /\ \A k : To(k)' = To(k) /\ EdgeOf(k)' = EdgeOf(k)
  BY SimpleStays
<1>2. queue' = queue /\ way' = way /\ todo' = todo /\ paths' = paths
  OBVIOUS
<1>3. Clear'
  BY <1>1, <1>2 DEF Clear
<1>4. Rising'
  BY <1>2 DEF Rising, Size
<1>5. \A w : Pursuing(w)' = Pursuing(w)
  BY <1>1, <1>2 DEF Pursuing, BeginsWith, Size
<1>6. Fresh'
  BY <1>2, <1>5 DEF Fresh, BeginsWith, Size
<1>7. Full' = Full
  BY <1>1, <1>2 DEF Full
<1>8. Pursued'
  BY <1>1, <1>2, <1>5, <1>7 DEF Pursued, BeginsWith, Size
<1>9. AtMost'
  BY <1>1, <1>2, <1>7 DEF AtMost
<1> QED BY <1>3, <1>4, <1>6, <1>8, <1>9 DEF AllPaths

LEMMA AllPathsStays ==
    ASSUME GInv, TypeOK', EndedHolds, AllPaths, [Next]_vars
    PROVE  AllPaths'
<1>1. CASE Refuse
  BY <1>1 DEF Refuse, AllPaths, Begun
<1>2. Ways' = Ways
  BY DEF Next, vars, input, Refuse, StartWalk, StartPaths, Take, Follow, FollowPath, Respond, Ways
<1>3. CASE ~Ways
  BY <1>2, <1>3 DEF AllPaths
<1>4. CASE StartPaths
  BY <1>4, StartPathsAll
<1>5. CASE Take /\ Ways
  BY <1>5, TakeAll
<1>6. CASE FollowPath
  BY <1>6, FollowPathAll
<1>7. CASE Respond /\ Ways
  <2>1. UNCHANGED <<input, queue, way, todo, paths>> /\ Begun
    BY <1>7 DEF Respond, Begun
  <2> QED BY <1>7, <2>1, SearchUnchanged DEF AllPaths
<1>8. CASE UNCHANGED vars /\ Ways
  <2>1. UNCHANGED <<input, queue, way, todo, paths>> /\ Begun' = Begun
    BY <1>8 DEF vars, input, Begun
  <2>2. CASE Begun
    BY <1>8, <2>1, <2>2, SearchUnchanged DEF AllPaths
  <2>3. CASE ~Begun
    BY <2>1, <2>3 DEF AllPaths
  <2> QED BY <2>2, <2>3
<1>9. ~((StartWalk \/ Follow) /\ Ways)
  BY DEF StartWalk, Follow
<1> QED BY <1>1, <1>3, <1>4, <1>5, <1>6, <1>7, <1>8, <1>9 DEF Next

LEMMA AllPathsHolds == Spec => [](GInv /\ Searched /\ AllPaths)
<1>1. Init => AllPaths
  BY DEF Init, AllPaths, Begun
<1>2. GInv' => TypeOK'
  BY DEF GInv
<1>3. GInv /\ GInv' /\ Searched /\ AllPaths /\ [Next]_vars => AllPaths'
  BY <1>2, AllPathsStays DEF Searched
<1> QED BY <1>1, <1>3, SearchedHolds, PTL DEF Spec

LEMMA PathsFound ==
    ASSUME GInv, Searched, AllPaths
    PROVE  PathsAreAll
<1> SUFFICES ASSUME phase = "answered", Ways PROVE
        /\ IsInjective(paths)
        /\ Len(paths) = Min({request.limit, Cardinality(SimpleWays)})
        /\ \A i, j \in DOMAIN paths : i < j => Len(paths[i].edges) <= Len(paths[j].edges)
        /\ \A w \in SimpleWays \ ToSet(paths) : Len(w.edges) >= Len(Last(paths).edges)
  BY DEF PathsAreAll
<1> DEFINE all == SimpleWays
<1>1. Clear /\ Rising /\ Fresh /\ Pursued /\ AtMost
  BY DEF AllPaths, Begun
<1>2. todo = {} /\ (queue = <<>> \/ Full)
  BY DEF Searched, EndedHolds, Ended
<1>3. /\ queue \in Seq(Way) /\ paths \in Seq(Way)
      /\ Len(paths) \in Nat /\ DOMAIN paths = 1..Len(paths)
      /\ ToSet(queue) \subseteq Way /\ ToSet(paths) \subseteq Way
      /\ request.limit \in Nat /\ request.limit >= 1
  BY PathsTypes DEF GInv
<1>4. all = {w \in Way : ToTarget(w)} /\ IsFiniteSet(all)
  BY WaysToTarget, FinitelyManyWays DEF Searched
<1>5. ToSet(paths) \subseteq all
  <2> SUFFICES ASSUME NEW w \in ToSet(paths) PROVE w \in Way /\ ToTarget(w)
    BY <1>4
  <2>1. Size(w) <= request.depth
    BY DEF GInv, Found, GoodWay, Size
  <2> QED BY <1>1, <1>3, <2>1 DEF ToTarget, Clear
<1> HIDE DEF all
<1>6. Cardinality(ToSet(paths)) = Len(paths)
  BY <1>1, <1>3, CountOfOnce DEF Fresh
<1>7. Len(paths) <= Cardinality(all) /\ Cardinality(all) \in Nat
  BY <1>4, <1>5, <1>6, FS_Subset, FS_CardinalityType
<1>8. ~Full => ToSet(paths) = all
  <2> SUFFICES ASSUME ~Full, NEW w \in all PROVE w \in ToSet(paths)
    BY <1>5
  <2>1. ~Pursuing(w) /\ ToSet(queue) = {}
    BY <1>2 DEF Pursuing, ToSet
  <2> QED BY <1>1, <1>4, <2>1 DEF Pursued
<1>9. Full <=> request.limit <= Len(paths)
  BY DEF Full
<1>10. Len(paths) = Min({request.limit, Cardinality(all)})
  <2> DEFINE m == Min({request.limit, Cardinality(all)})
  <2>1. m \in {request.limit, Cardinality(all)} /\ m <= request.limit /\ m <= Cardinality(all)
    <3>1. {request.limit, Cardinality(all)} \in SUBSET Nat /\ {request.limit, Cardinality(all)} # {}
      BY <1>3, <1>7
    <3> QED BY <3>1, MinIsLeast
  <2> HIDE DEF m
  <2>2. Full => Len(paths) <= request.limit /\ request.limit <= Len(paths)
    BY <1>1, <1>9 DEF AtMost
  <2>3. ~Full => Len(paths) = Cardinality(all) /\ ~(request.limit <= Len(paths))
    BY <1>6, <1>8, <1>9
  <2>4. Len(paths) = m
    BY <1>3, <1>7, <2>1, <2>2, <2>3
  <2> QED BY <2>4 DEF m
<1>11. \A i, j \in DOMAIN paths : i < j => Len(paths[i].edges) <= Len(paths[j].edges)
  BY <1>1, <1>3 DEF Rising, Size
<1>12. ASSUME NEW w \in all \ ToSet(paths) PROVE Len(w.edges) >= Len(Last(paths).edges)
  <2>1. w \in Way /\ ToTarget(w) /\ w \notin ToSet(paths) /\ RealWay(w)
    BY <1>4, <1>12 DEF ToTarget, Simple
  <2>2. ~Pursuing(w)
    BY <1>2 DEF Pursuing
  <2>3. CASE \E u \in ToSet(queue) : BeginsWith(w, u)
    <3>1. PICK u \in ToSet(queue) : BeginsWith(w, u)
      BY <2>3
    <3>2. Full
      BY <1>2, <3>1 DEF ToSet
    <3>3. Last(paths) \in ToSet(paths) /\ Last(paths) \in Way
      <4>1. Len(paths) \in DOMAIN paths
        BY <1>3, <1>9, <3>2
      <4> QED BY <1>3, <4>1 DEF Last, ToSet
    <3>4. u \in Way /\ RealWay(u) /\ Last(u.nodes) # request.target
      BY <1>1, <1>3, <3>1 DEF Clear, Simple
    <3>5. u # w
      BY <2>1, <3>4 DEF ToTarget
    <3>6. Size(u) < Size(w)
      BY <2>1, <3>1, <3>4, <3>5, BeginsAlike
    <3>7. Size(Last(paths)) <= Size(u) + 1
      BY <1>1, <3>1, <3>3 DEF Rising
    <3>8. Size(u) \in Nat /\ Size(w) \in Nat /\ Size(Last(paths)) \in Nat
      BY <2>1, <3>3, <3>4 DEF Size, Way
    <3>9. Size(w) >= Size(Last(paths))
      BY <3>6, <3>7, <3>8
    <3> QED BY <3>9 DEF Size
  <2>4. CASE Full /\ Size(w) >= Size(Last(paths))
    BY <2>4 DEF Size
  <2> QED BY <1>1, <2>1, <2>2, <2>3, <2>4 DEF Pursued
<1> QED BY <1>1, <1>10, <1>11, <1>12 DEF Fresh, all

\* For every wiki, request and limit: the paths returned are real, and all there are, shortest
\* first; some are left out only at the limit, and then the longest.  (graph_engine.py _paths.)
THEOREM AllPathsAreFound == Spec => []RealPaths
<1>1. GInv /\ Searched /\ AllPaths => PathsAreAll
  BY PathsFound
<1> QED BY <1>1, AllPathsHolds, PathsReal, PTL DEF RealPaths

-----------------------------------------------------------------------------
(* Reading a page *)

\* The elements of s as they come
Precedes(s, x, y) == \E m, n \in DOMAIN s : m < n /\ s[m] = x /\ s[n] = y

\* A set of places in order has each of them once, the lower before the higher.
LEMMA InOrderIs ==
    ASSUME NEW S \in SUBSET Nat, IsFiniteSet(S)
    PROVE  /\ Cardinality(S) \in Nat
           /\ InOrder(S) \in [1..Cardinality(S) -> S]
           /\ \A m, n \in 1..Cardinality(S) : m < n => InOrder(S)[m] < InOrder(S)[n]
           /\ \A i \in S : \E n \in 1..Cardinality(S) : InOrder(S)[n] = i
<1> DEFINE c == Cardinality(S)
           below(i) == {j \in S : j < i}
           r == [i \in S |-> Cardinality(below(i))]
<1>1. c \in Nat
  BY FS_CardinalityType
<1>2. \A i \in S : below(i) \in SUBSET S
  OBVIOUS
<1>3. \A i \in S : IsFiniteSet(below(i)) /\ Cardinality(below(i)) \in Nat
  BY <1>2, FS_Subset, FS_CardinalityType
<1>4. ASSUME NEW i \in S PROVE Cardinality(below(i)) \in 0..(c - 1)
  <2>1. IsFiniteSet(S \ {i}) /\ Cardinality(S \ {i}) = c - 1
    BY FS_RemoveElement
  <2>2. below(i) \in SUBSET (S \ {i})
    OBVIOUS
  <2>3. Cardinality(below(i)) <= Cardinality(S \ {i})
    BY <2>1, <2>2, FS_Subset
  <2> QED BY <1>1, <1>3, <2>1, <2>3
<1>5. ASSUME NEW i \in S, NEW k \in S, i < k
      PROVE  Cardinality(below(i)) < Cardinality(below(k))
  <2>1. below(i) \in SUBSET below(k) /\ i \in below(k) /\ i \notin below(i)
    <3>1. i \in Nat /\ k \in Nat /\ \A j \in S : j \in Nat
      OBVIOUS
    <3>2. ASSUME NEW j \in S, j < i PROVE j < k
      BY <1>5, <3>1, <3>2
    <3>3. below(i) \in SUBSET below(k)
      BY <3>2
    <3>4. i \in below(k) /\ i \notin below(i)
      BY <1>5, <3>1
    <3> QED BY <3>3, <3>4
  <2>2. /\ Cardinality(below(i)) <= Cardinality(below(k))
        /\ Cardinality(below(k)) = Cardinality(below(i)) => below(k) = below(i)
    BY <1>3, <2>1, FS_Subset
  <2> QED BY <1>3, <2>1, <2>2
<1> HIDE DEF below
<1>6. r \in Injection(S, 0..(c - 1))
  <2>1. r \in [S -> 0..(c - 1)]
    BY <1>4
  <2>2. ASSUME NEW i \in S, NEW k \in S, r[i] = r[k] PROVE i = k
    <3>1. ~(i < k) /\ ~(k < i)
      BY <1>3, <1>5, <2>2
    <3> QED BY <3>1
  <2> QED BY <2>1, <2>2 DEF Injection, IsInjective
<1>7. IsFiniteSet(0..(c - 1)) /\ Cardinality(0..(c - 1)) = c
  <2>1. 0 \in Int /\ c - 1 \in Int
    BY <1>1
  <2> HIDE DEF c
  <2>2. IsFiniteSet(0..(c - 1)) /\ Cardinality(0..(c - 1)) = IF 0 > c - 1 THEN 0 ELSE (c - 1) - 0 + 1
    BY <2>1, FS_Interval
  <2> QED BY <1>1, <2>2
<1>8. r \in Surjection(S, 0..(c - 1))
  BY <1>6, <1>7, FS_Injection
<1>9. \A n \in 1..c : \E i \in S : Cardinality(below(i)) = n - 1
  <2> TAKE n \in 1..c
  <2>1. n - 1 \in 0..(c - 1)
    BY <1>1
  <2>2. \A t \in 0..(c - 1) : \E i \in S : r[i] = t
    BY <1>8 DEF Surjection
  <2> QED BY <2>1, <2>2
<1>10. InOrder(S) = [n \in 1..c |-> CHOOSE i \in S : Cardinality(below(i)) = n - 1]
  BY DEF InOrder, below
<1> DEFINE s == InOrder(S)
<1>11. \A n \in 1..c : s[n] \in S /\ Cardinality(below(s[n])) = n - 1
  BY <1>9, <1>10
<1>12. s \in [1..c -> S]
  BY <1>10, <1>11
<1> HIDE DEF s, c
<1>13. ASSUME NEW m \in 1..c, NEW n \in 1..c, m < n PROVE s[m] < s[n]
  <2>1. s[m] \in S /\ s[n] \in S /\ Cardinality(below(s[m])) = m - 1
        /\ Cardinality(below(s[n])) = n - 1
    BY <1>11
  <2>2. m \in Int /\ n \in Int /\ s[m] \in Nat /\ s[n] \in Nat
    <3>1. m \in Int /\ n \in Int
      BY <1>1
    <3> QED BY <2>1, <3>1
  <2>3. s[m] # s[n]
    BY <1>13, <2>1, <2>2
  <2>4. ~(s[n] < s[m])
    <3>1. ASSUME s[n] < s[m] PROVE FALSE
      <4>1. Cardinality(below(s[n])) < Cardinality(below(s[m]))
        BY <1>5, <2>1, <3>1
      <4> QED BY <1>13, <2>1, <2>2, <4>1
    <3> QED BY <3>1
  <2> QED BY <2>2, <2>3, <2>4
<1>14. ASSUME NEW i \in S PROVE \E n \in 1..c : s[n] = i
  <2> DEFINE n == Cardinality(below(i)) + 1
  <2>1. n \in 1..c /\ Cardinality(below(i)) \in Nat /\ n - 1 = Cardinality(below(i))
    BY <1>1, <1>4, <1>3
  <2>2. s[n] \in S /\ Cardinality(below(s[n])) = n - 1
    BY <1>11, <2>1
  <2>3. r[s[n]] = r[i]
    BY <2>1, <2>2
  <2>4. s[n] = i
    BY <1>6, <2>2, <2>3 DEF Injection, IsInjective
  <2> QED BY <2>1, <2>4
<1> QED BY <1>1, <1>12, <1>13, <1>14 DEF s, c

\* A set of places in order is a sequence of them, the lower before the higher.
LEMMA InOrderSeq ==
    ASSUME NEW S \in SUBSET Nat, IsFiniteSet(S)
    PROVE  /\ InOrder(S) \in Seq(S) /\ Len(InOrder(S)) = Cardinality(S)
           /\ ToSet(InOrder(S)) = S
           /\ IsInjective(InOrder(S))
           /\ \A x, y \in S : x < y => Precedes(InOrder(S), x, y)
<1> DEFINE s == InOrder(S)
           c == Cardinality(S)
<1>1. /\ c \in Nat /\ s \in [1..c -> S]
      /\ \A m, n \in 1..c : m < n => s[m] < s[n]
      /\ \A i \in S : \E n \in 1..c : s[n] = i
  BY InOrderIs
<1> HIDE DEF s, c
<1>2. s \in Seq(S) /\ Len(s) = c /\ DOMAIN s = 1..c
  BY <1>1
<1>3. ToSet(s) = S
  BY <1>1, <1>2 DEF ToSet
<1>4. \A m \in 1..c : s[m] \in Nat
  BY <1>1
<1>5. IsInjective(s)
  <2>1. ASSUME NEW m \in 1..c, NEW n \in 1..c, s[m] = s[n] PROVE m = n
    <3>1. ~(m < n) /\ ~(n < m)
      BY <1>1, <1>4, <2>1
    <3> QED BY <3>1
  <2> QED BY <1>2, <2>1 DEF IsInjective
<1>6. ASSUME NEW x \in S, NEW y \in S, x < y PROVE Precedes(s, x, y)
  <2>1. PICK m \in 1..c, n \in 1..c : s[m] = x /\ s[n] = y
    BY <1>1
  <2>2. ~(n < m) /\ m # n
    BY <1>1, <1>4, <1>6, <2>1
  <2>3. m < n
    BY <2>2
  <2> QED BY <1>2, <2>1, <2>3 DEF Precedes
<1> QED BY <1>2, <1>3, <1>5, <1>6 DEF s, c

\* Functions from 0 to L that begin with a and go on by steps
Runs(L, X, a, step) == {g \in [0..L -> X] : g[0] = a /\ \A n \in 1..L : g[n] = step[n][g[n - 1]]}

\* There is such a function, up to any L.
LEMMA RunsExist ==
    ASSUME NEW L \in Nat, NEW X, NEW a \in X, NEW step \in [1..L -> [X -> X]]
    PROVE  Runs(L, X, a, step) # {}
<1> DEFINE Is(g, l) == g \in [0..l -> X] /\ g[0] = a /\ \A n \in 1..l : g[n] = step[n][g[n - 1]]
           N == {l \in 0..L : \E g : Is(g, l)}
<1>1. 0 \in N
  <2> DEFINE g == [n \in 0..0 |-> a]
  <2>1. Is(g, 0)
    OBVIOUS
  <2>2. 0 \in 0..L
    OBVIOUS
  <2> HIDE DEF g, Is
  <2> QED BY <2>1, <2>2
<1>2. ASSUME NEW l \in 0..L, l \in N, l < L PROVE l + 1 \in N
  <2>1. PICK g : Is(g, l)
    BY <1>2
  <2>2. l \in Nat /\ l + 1 \in 1..L /\ l + 1 \in 0..L
    BY <1>2
  <2> DEFINE h == [n \in 0..(l + 1) |-> IF n = l + 1 THEN step[l + 1][g[l]] ELSE g[n]]
  <2>3. step[l + 1][g[l]] \in X
    <3>1. g[l] \in X
      BY <2>1, <2>2
    <3>2. step[l + 1] \in [X -> X]
      BY <2>2
    <3> QED BY <3>1, <3>2
  <2>4. h \in [0..(l + 1) -> X] /\ h[0] = a
    BY <2>1, <2>2, <2>3
  <2>5. ASSUME NEW n \in 1..(l + 1) PROVE h[n] = step[n][h[n - 1]]
    <3>1. CASE n = l + 1
      <4>1. h[n] = step[l + 1][g[l]] /\ h[n - 1] = g[l]
        BY <2>2, <3>1
      <4> QED BY <3>1, <4>1
    <3>2. CASE n # l + 1
      <4>1. n \in 1..l /\ n \in 0..(l + 1) /\ n - 1 \in 0..(l + 1) /\ n - 1 # l + 1
        BY <2>2, <3>2
      <4>2. h[n] = g[n] /\ h[n - 1] = g[n - 1]
        BY <3>2, <4>1
      <4> QED BY <2>1, <4>1, <4>2
    <3> QED BY <3>1, <3>2
  <2>6. Is(h, l + 1)
    BY <2>4, <2>5
  <2> HIDE DEF h, Is
  <2> QED BY <2>2, <2>6
<1>3. \A l \in 0..L : l \in N /\ l < L => l + 1 \in N
  BY <1>2, Zenon
<1> HIDE DEF N
<1>4. 0..L \subseteq N
  BY <1>1, <1>3, Upto, Zenon
<1>5. L \in N
  BY <1>4
<1>6. PICK g : Is(g, L)
  BY <1>5 DEF N
<1> QED BY <1>6 DEF Runs

\* Of the page, which no step changes
PageTypes ==
    /\ \E n \in Nat : levels \in [1..n -> Nat]
    /\ chars \in [Places -> Nat] /\ \A i \in Headings : chars[i] # 0
    /\ budget \in Nat \ {0}

\* The headings are numbered from 1, and the places from 0.
LEMMA PlacesAre ==
    ASSUME PageTypes
    PROVE  \E n \in Nat : /\ Headings = 1..n /\ Places = 0..n /\ Cardinality(Places) = n + 1
                          /\ levels \in [1..n -> Nat]
<1>1. PICK n \in Nat : levels \in [1..n -> Nat]
  BY DEF PageTypes
<1>2. Headings = 1..n
  BY <1>1 DEF Headings
<1>3. Places = 0..n
  BY <1>2 DEF Places
<1>4. Cardinality(0..n) = n + 1
  <2>1. Cardinality(0..n) = IF 0 > n THEN 0 ELSE n - 0 + 1
    BY FS_Interval
  <2> QED BY <2>1
<1> QED BY <1>1, <1>2, <1>3, <1>4

\* The sections are headings, and maybe the text before the first; in order, the first is the
\* least.
LEMMA SectionsAre ==
    ASSUME PageTypes
    PROVE  /\ Headings \subseteq Sections /\ Sections \subseteq Places /\ Places \subseteq Nat
           /\ IsFiniteSet(Places) /\ IsFiniteSet(Sections) /\ Cardinality(Sections) \in Nat
           /\ \A i \in Sections : chars[i] \in Nat \ {0}
<1>1. PICK n \in Nat : Headings = 1..n /\ Places = 0..n
  BY PlacesAre
<1>2. Headings \subseteq Sections /\ Sections \subseteq Places
  BY DEF Sections, Places
<1>3. IsFiniteSet(Places)
  <2>1. IsFiniteSet(0..n)
    BY FS_Interval
  <2> QED BY <1>1, <2>1
<1>4. IsFiniteSet(Sections) /\ Cardinality(Sections) \in Nat
  BY <1>2, <1>3, FS_Subset, FS_CardinalityType
<1>5. ASSUME NEW i \in Sections PROVE chars[i] \in Nat \ {0}
  <2>1. chars[i] \in Nat
    BY <1>2 DEF PageTypes
  <2>2. CASE i \in Headings
    BY <2>1, <2>2 DEF PageTypes
  <2>3. CASE i \notin Headings
    <3>1. i = 0
      BY <1>2, <2>3 DEF Places
    <3>2. ~(blank \/ chars[0] = 0)
      BY <2>3, Zenon DEF Sections
    <3>3. chars[0] # 0
      BY <3>2
    <3> QED BY <2>1, <3>1, <3>3
  <2> QED BY <2>2, <2>3
<1>6. Places \subseteq Nat
  BY <1>1
<1> QED BY <1>2, <1>3, <1>4, <1>5, <1>6

\* A place begins where the one before it ends, and all of them within the page.
LEMMA BeginsIs ==
    ASSUME PageTypes
    PROVE  /\ Total \in Nat
           /\ \A i \in Places : /\ Begins[i] \in Nat /\ Begins[i + 1] = Begins[i] + chars[i]
                                /\ Begins[i + 1] <= Total
<1>1. PICK n \in Nat : Places = 0..n /\ Cardinality(Places) = n + 1
  BY PlacesAre
<1> DEFINE D == 0..(n + 1)
           step == [i \in 1..(n + 1) |-> [x \in Nat |-> x + chars[i - 1]]]
<1>2. \A i \in 1..(n + 1) : i - 1 \in Places /\ chars[i - 1] \in Nat
  <2>1. \A i \in 1..(n + 1) : i - 1 \in Places
    BY <1>1
  <2> QED BY <2>1 DEF PageTypes
<1>3. step \in [1..(n + 1) -> [Nat -> Nat]]
  BY <1>2
<1>4. PICK g : g \in Runs(n + 1, Nat, 0, step)
  <2> HIDE DEF step
  <2>1. n + 1 \in Nat /\ 0 \in Nat
    OBVIOUS
  <2>2. Runs(n + 1, Nat, 0, step) # {}
    BY <1>3, <2>1, RunsExist
  <2> QED BY <2>2
<1>5. /\ g \in [D -> Nat] /\ g[0] = 0
      /\ \A i \in 1..(n + 1) : g[i] = g[i - 1] + chars[i - 1]
  <2>1. g \in [D -> Nat] /\ g[0] = 0 /\ \A i \in 1..(n + 1) : g[i] = step[i][g[i - 1]]
    BY <1>4 DEF Runs
  <2>2. \A i \in 1..(n + 1) : g[i - 1] \in Nat
    BY <2>1
  <2> QED BY <2>1, <2>2
<1>6. g = [i \in D |-> IF i = 0 THEN 0 ELSE g[i - 1] + chars[i - 1]]
  BY <1>5
<1>7. Begins = CHOOSE begins : begins = [i \in D |-> IF i = 0 THEN 0 ELSE begins[i - 1] + chars[i - 1]]
  BY <1>1 DEF Begins
<1>8. Begins = [i \in D |-> IF i = 0 THEN 0 ELSE Begins[i - 1] + chars[i - 1]]
  BY <1>6, <1>7
<1> DEFINE N == {m \in D : Begins[m] \in Nat /\ \A i \in 0..m : Begins[i] <= Begins[m] /\ Begins[i] \in Nat}
<1>9. 0 \in N
  <2>1. Begins[0] = 0
    BY <1>8
  <2> QED BY <2>1
<1>10. ASSUME NEW m \in D, m \in N, m < n + 1 PROVE m + 1 \in N
  <2>1. m + 1 \in D /\ m + 1 \in 1..(n + 1) /\ m \in Nat /\ (m + 1) - 1 = m /\ m + 1 # 0
    BY <1>10
  <2>2. Begins[m + 1] = Begins[m] + chars[m] /\ chars[m] \in Nat
    <3>1. Begins[m + 1] = Begins[(m + 1) - 1] + chars[(m + 1) - 1]
      BY <1>8, <2>1
    <3>2. chars[(m + 1) - 1] \in Nat
      BY <1>2, <2>1
    <3> QED BY <2>1, <3>1, <3>2
  <2>3. Begins[m] \in Nat
    BY <1>10
  <2>4. ASSUME NEW i \in 0..(m + 1) PROVE Begins[i] <= Begins[m + 1] /\ Begins[i] \in Nat
    <3>1. CASE i = m + 1
      BY <2>2, <2>3, <3>1
    <3>2. CASE i # m + 1
      <4>1. i \in 0..m
        BY <2>1, <3>2
      <4>2. Begins[i] <= Begins[m] /\ Begins[i] \in Nat
        BY <1>10, <4>1
      <4> QED BY <2>2, <2>3, <4>2
    <3> QED BY <3>1, <3>2
  <2>5. Begins[m + 1] \in Nat
    BY <2>2, <2>3
  <2> QED BY <2>1, <2>4, <2>5
<1>11. \A m \in 0..(n + 1) : m \in N /\ m < n + 1 => m + 1 \in N
  BY <1>10
<1> HIDE DEF N
<1>12. 0..(n + 1) \subseteq N
  <2>1. n + 1 \in Nat
    OBVIOUS
  <2> QED BY <1>9, <1>11, <2>1, Upto
<1>13. n + 1 \in N /\ Total = Begins[n + 1]
  BY <1>1, <1>12 DEF Total
<1>14. ASSUME NEW i \in Places
       PROVE  Begins[i] \in Nat /\ Begins[i + 1] = Begins[i] + chars[i] /\ Begins[i + 1] <= Total
  <2>1. i \in Nat /\ i + 1 \in 1..(n + 1) /\ i + 1 \in D /\ i \in D /\ (i + 1) - 1 = i
    BY <1>1
  <2>2. Begins[i + 1] = Begins[i] + chars[i]
    BY <1>8, <2>1
  <2>3. Begins[i] \in Nat /\ Begins[i + 1] <= Total
    BY <1>13, <2>1 DEF N
  <2> QED BY <2>2, <2>3
<1> QED BY <1>13, <1>14 DEF N

-----------------------------------------------------------------------------
(* Numbers of headings *)

\* A bounded set of numbers has a greatest
LEMMA MaxIs ==
    ASSUME NEW S \in SUBSET Nat, S # {}, NEW b \in Nat, \A x \in S : x <= b
    PROVE  Max(S) \in S /\ \A x \in S : x <= Max(S)
<1> DEFINE U == {d \in 0..b : b - d \in S}
<1>1. U \in SUBSET Nat /\ U # {}
  <2>1. PICK x \in S : TRUE
    OBVIOUS
  <2>2. b - x \in 0..b /\ b - (b - x) = x
    <3>1. x \in Nat /\ x <= b
      OBVIOUS
    <3> QED BY <3>1
  <2>3. b - x \in U
    BY <2>1, <2>2
  <2>4. U \subseteq Nat
    OBVIOUS
  <2> HIDE DEF U
  <2> QED BY <2>3, <2>4
<1> DEFINE m == b - Min(U)
<1>2. Min(U) \in U /\ \A d \in U : Min(U) <= d
  BY <1>1, MinIsLeast
<1>3. m \in S
  BY <1>2
<1>4. ASSUME NEW x \in S PROVE x <= m
  <2>1. x \in Nat /\ x <= b
    OBVIOUS
  <2>2. b - x \in U
    <3>1. b - x \in 0..b /\ b - (b - x) = x
      BY <2>1
    <3> QED BY <3>1
  <2>3. Min(U) <= b - x /\ Min(U) \in Nat
    BY <1>2, <2>2
  <2> QED BY <2>1, <2>3
<1> HIDE DEF m
<1>5. \A x \in S : m >= x
  <2>1. m \in Nat /\ \A x \in S : x \in Nat
    BY <1>3
  <2> QED BY <1>4, <2>1
<1>6. Max(S) \in S /\ \A x \in S : Max(S) >= x
  BY <1>3, <1>5 DEF Max
<1>7. Max(S) \in Nat /\ \A x \in S : x \in Nat
  BY <1>6
<1> QED BY <1>6, <1>7

\* The heading above is the last one before of a lower level, or none.
LEMMA AboveIs ==
    ASSUME PageTypes, NEW i \in Headings
    PROVE  /\ Above(i) \in Places /\ Above(i) \in Nat /\ Above(i) < i /\ i \in Nat \ {0}
           /\ Above(i) # 0 => Above(i) \in Headings /\ levels[Above(i)] < levels[i]
           /\ \A k \in Headings : Above(i) < k /\ k < i => levels[i] <= levels[k]
<1>1. PICK n \in Nat : Headings = 1..n /\ Places = 0..n /\ levels \in [1..n -> Nat]
  BY PlacesAre
<1> DEFINE lower == {j \in 1..(i - 1) : levels[j] < levels[i]}
           S == {0} \cup lower
<1>2. i \in Nat \ {0} /\ i <= n
  BY <1>1
<1>3. lower \in SUBSET (1..(i - 1)) /\ 1..(i - 1) \in SUBSET Headings
  BY <1>1, <1>2
<1>4. S \in SUBSET Nat /\ S # {} /\ \A x \in S : x <= i
  BY <1>2, <1>3
<1>5. Max(S) \in S /\ \A x \in S : x <= Max(S)
  <2> HIDE DEF S
  <2> QED BY <1>2, <1>4, MaxIs
<1>6. Above(i) = Max(S)
  BY DEF Above
<1>7. Above(i) \in Nat /\ Above(i) < i /\ Above(i) \in Places
  BY <1>1, <1>2, <1>5, <1>6
<1>8. Above(i) # 0 => Above(i) \in Headings /\ levels[Above(i)] < levels[i]
  BY <1>3, <1>5, <1>6
<1>9. ASSUME NEW k \in Headings, Above(i) < k, k < i PROVE levels[i] <= levels[k]
  <2>1. k \in 1..(i - 1) /\ levels[k] \in Nat /\ levels[i] \in Nat
    BY <1>1, <1>2, <1>9
  <2>2. k \notin S
    BY <1>5, <1>6, <1>7, <1>9, <2>1
  <2>3. ~(levels[k] < levels[i])
    BY <2>1, <2>2
  <2> QED BY <2>1, <2>3
<1> QED BY <1>2, <1>7, <1>8, <1>9

\* What is below j is above which what is below j is, or j.
LEMMA UnderAbove ==
    ASSUME PageTypes, NEW i \in Headings, NEW j \in Headings
    PROVE  Under(i, j) <=> Above(i) = j \/ (Above(i) # 0 /\ Under(Above(i), j))
<1>1. PICK n \in Nat : Headings = 1..n /\ levels \in [1..n -> Nat]
  BY PlacesAre
<1>2. \A k \in Headings : k \in Nat \ {0} /\ levels[k] \in Nat
  BY <1>1
<1> DEFINE a == Above(i)
<1>3. /\ a \in Nat /\ a < i
      /\ a # 0 => a \in Headings /\ levels[a] < levels[i]
      /\ \A k \in Headings : a < k /\ k < i => levels[i] <= levels[k]
  BY AboveIs
<1> HIDE DEF a
<1>4. \A k \in 1..i : k \in Headings
  BY <1>1
<1>5. a # 0 => Under(i, a)
  <2> SUFFICES ASSUME a # 0 PROVE Under(i, a)
    OBVIOUS
  <2>1. ASSUME NEW k \in (a + 1)..i PROVE levels[k] > levels[a]
    <3>1. k \in Headings /\ k \in Nat /\ a < k /\ k <= i /\ levels[k] \in Nat /\ levels[a] \in Nat
          /\ levels[i] \in Nat
      BY <1>2, <1>3, <1>4
    <3>2. CASE k = i
      BY <1>3, <3>1, <3>2
    <3>3. CASE k # i
      <4>1. levels[i] <= levels[k]
        BY <1>2, <1>3, <3>1, <3>3
      <4> QED BY <1>3, <3>1, <4>1
    <3> QED BY <3>2, <3>3
  <2> QED BY <1>2, <1>3, <2>1 DEF Under
<1>6. ASSUME Under(i, j), a # j PROVE a # 0 /\ Under(a, j)
  <2>1. i > j /\ \A k \in (j + 1)..i : levels[k] > levels[j]
    BY <1>6 DEF Under
  <2>2. j \in Nat \ {0} /\ i \in Nat /\ levels[i] \in Nat /\ levels[j] \in Nat
    BY <1>2
  <2>3. levels[i] > levels[j]
    BY <2>1, <2>2
  <2>4. ~(a < j)
    <3>1. ASSUME a < j PROVE levels[i] <= levels[j]
      BY <1>3, <2>1, <2>2, <3>1
    <3> QED BY <2>2, <2>3, <3>1
  <2>5. a > j
    BY <1>3, <1>6, <2>2, <2>4
  <2>6. \A k \in (j + 1)..a : k \in (j + 1)..i
    BY <1>3, <2>2
  <2> QED BY <1>3, <2>1, <2>2, <2>5, <2>6 DEF Under
<1>7. ASSUME a # 0, Under(a, j) PROVE Under(i, j)
  <2>1. a \in Headings /\ a > j /\ \A k \in (j + 1)..a : levels[k] > levels[j]
    BY <1>3, <1>7 DEF Under
  <2>2. \A k \in (a + 1)..i : levels[k] > levels[a]
    BY <1>5, <1>7 DEF Under
  <2>3. j \in Nat /\ i \in Nat /\ levels[j] \in Nat /\ levels[a] \in Nat
    BY <1>2, <2>1
  <2>4. levels[a] > levels[j]
    BY <1>3, <2>1, <2>3
  <2>5. ASSUME NEW k \in (j + 1)..i PROVE levels[k] > levels[j]
    <3>1. k \in Nat /\ levels[k] \in Nat
      <4>1. k \in 1..i
        BY <2>3
      <4> QED BY <1>2, <1>4, <4>1
    <3>2. CASE k <= a
      BY <1>3, <2>1, <2>3, <3>1, <3>2
    <3>3. CASE a < k
      <4>1. k \in (a + 1)..i
        BY <1>3, <2>3, <3>1, <3>3
      <4> QED BY <2>2, <2>3, <2>4, <3>1, <4>1
    <3> QED BY <1>3, <3>1, <3>2, <3>3
  <2>6. i > j
    BY <1>3, <2>1, <2>3
  <2> QED BY <2>5, <2>6 DEF Under
<1>8. CASE a = j
  <2>1. j # 0
    BY <1>2
  <2> QED BY <1>5, <1>8, <2>1 DEF a
<1>9. CASE a # j
  <2>1. Under(i, j) <=> a # 0 /\ Under(a, j)
    BY <1>6, <1>7, <1>9
  <2> QED BY <1>9, <2>1 DEF a
<1> QED BY <1>8, <1>9

\* One number, from the one of what is above
Siblings(i) == Cardinality({j \in 1..i : Above(j) = Above(i)})
\* The number of a heading, from the numbers g of those before it
Numbered(g, i) ==
    IF i = 0 THEN <<0>>
    ELSE Append(IF Above(i) = 0 THEN <<>> ELSE g[Above(i)], Siblings(i))

\* A heading counts more siblings than one before it under the same heading.
LEMMA SiblingsAre ==
    ASSUME PageTypes, NEW i \in Headings
    PROVE  /\ Siblings(i) \in Nat \ {0}
           /\ \A j \in Headings : j < i /\ Above(j) = Above(i) => Siblings(j) < Siblings(i)
<1> DEFINE S(k) == {j \in 1..k : Above(j) = Above(i)}
<1>1. i \in Nat \ {0} /\ \A j \in Headings : j \in Nat \ {0}
  BY PlacesAre
<1>2. \A k \in Nat : IsFiniteSet(S(k)) /\ Cardinality(S(k)) \in Nat
  <2> TAKE k \in Nat
  <2>1. IsFiniteSet(1..k)
    BY FS_Interval
  <2>2. S(k) \in SUBSET (1..k)
    OBVIOUS
  <2> QED BY <2>1, <2>2, FS_Subset, FS_CardinalityType
<1>3. i \in S(i)
  BY <1>1
<1>4. Siblings(i) = Cardinality(S(i))
  BY DEF Siblings
<1>5. Cardinality(S(i)) \in Nat \ {0}
  <2>1. IsFiniteSet(S(i)) /\ Cardinality(S(i)) \in Nat /\ S(i) # {}
    BY <1>1, <1>2, <1>3
  <2> HIDE DEF S
  <2> QED BY <2>1, FS_EmptySet
<1>6. ASSUME NEW j \in Headings, j < i, Above(j) = Above(i) PROVE Siblings(j) < Siblings(i)
  <2>1. Siblings(j) = Cardinality(S(j))
    BY <1>6 DEF Siblings
  <2>2. S(j) \in SUBSET S(i) /\ i \notin S(j)
    BY <1>1, <1>6
  <2>3. /\ IsFiniteSet(S(i)) /\ Cardinality(S(i)) \in Nat /\ Cardinality(S(j)) \in Nat
    BY <1>1, <1>2
  <2> HIDE DEF S
  <2>4. Cardinality(S(j)) <= Cardinality(S(i)) /\ (Cardinality(S(i)) = Cardinality(S(j)) => S(i) = S(j))
    BY <2>2, <2>3, FS_Subset
  <2> QED BY <1>3, <1>4, <2>1, <2>2, <2>3, <2>4
<1> QED BY <1>4, <1>5, <1>6

\* As no heading is above one before it, all the numbers can be given.
LEMMA NumbersExist ==
    ASSUME PageTypes
    PROVE  \E g \in [Places -> Seq(Nat)] : \A i \in Places : g[i] = Numbered(g, i)
<1>1. PICK n \in Nat : Headings = 1..n /\ Places = 0..n
  BY PlacesAre
<1> DEFINE Is(g, l) == g \in [0..l -> Seq(Nat)] /\ \A i \in 0..l : g[i] = Numbered(g, i)
           N == {l \in 0..n : \E g : Is(g, l)}
<1>2. 0 \in N
  <2> DEFINE g == [i \in 0..0 |-> <<0>>]
  <2>1. <<0>> \in Seq(Nat)
    OBVIOUS
  <2>2. Is(g, 0)
    BY <2>1 DEF Numbered
  <2>3. 0 \in 0..n
    OBVIOUS
  <2> HIDE DEF g, Is
  <2> QED BY <2>2, <2>3
<1>3. ASSUME NEW l \in 0..n, l \in N, l < n PROVE l + 1 \in N
  <2>1. PICK g : Is(g, l)
    BY <1>3
  <2>2. l \in Nat /\ l + 1 \in Headings /\ l + 1 \in 0..n /\ l + 1 # 0
    BY <1>1, <1>3
  <2> DEFINE h == [i \in 0..(l + 1) |-> IF i = l + 1 THEN Numbered(g, l + 1) ELSE g[i]]
  <2>3. Above(l + 1) \in 0..l
    BY <2>2, AboveIs
  <2>4. Siblings(l + 1) \in Nat
    BY <2>2, SiblingsAre
  <2>5. Numbered(g, l + 1) \in Seq(Nat)
    <3>1. g[Above(l + 1)] \in Seq(Nat)
      BY <2>1, <2>3
    <3>2. Numbered(g, l + 1) = Append(IF Above(l + 1) = 0 THEN <<>> ELSE g[Above(l + 1)], Siblings(l + 1))
      BY <2>2 DEF Numbered
    <3>3. Append(g[Above(l + 1)], Siblings(l + 1)) \in Seq(Nat)
          /\ Append(<<>>, Siblings(l + 1)) \in Seq(Nat)
      BY <2>4, <3>1
    <3> QED BY <3>2, <3>3
  <2> HIDE DEF Numbered
  <2>6. h \in [0..(l + 1) -> Seq(Nat)]
    BY <2>1, <2>2, <2>5
  <2>7. ASSUME NEW i \in 0..(l + 1) PROVE h[i] = Numbered(h, i)
    <3>1. h[i] = Numbered(g, i)
      <4>1. CASE i = l + 1
        BY <4>1
      <4>2. CASE i # l + 1
        <5>1. i \in 0..l
          BY <2>2, <4>2
        <5> QED BY <2>1, <4>2, <5>1
      <4> QED BY <4>1, <4>2
    <3>2. CASE i = 0
      BY <3>1, <3>2 DEF Numbered
    <3>3. CASE i # 0
      <4>1. i \in Headings
        BY <1>1, <2>2, <3>3
      <4>2. Above(i) \in Nat /\ Above(i) < i
        BY <4>1, AboveIs
      <4>3. Above(i) \in 0..(l + 1) /\ Above(i) # l + 1
        BY <2>2, <4>2
      <4>4. h[Above(i)] = g[Above(i)]
        BY <4>3
      <4> QED BY <3>1, <3>3, <4>4 DEF Numbered
    <3> QED BY <3>2, <3>3
  <2>8. Is(h, l + 1)
    BY <2>6, <2>7
  <2> HIDE DEF h, Is
  <2> QED BY <2>2, <2>8
<1>4. \A l \in 0..n : l \in N /\ l < n => l + 1 \in N
  BY <1>3, Zenon
<1> HIDE DEF N
<1>5. 0..n \subseteq N
  BY <1>2, <1>4, Upto, Zenon
<1>6. n \in N
  BY <1>5
<1>7. PICK g : Is(g, n)
  BY <1>6 DEF N
<1> QED BY <1>1, <1>7

\* A number is the one of the heading above, and one place more.
LEMMA NumberIs ==
    ASSUME PageTypes
    PROVE  /\ Number \in [Places -> Seq(Nat)]
           /\ Number[0] = <<0>>
           /\ \A i \in Headings :
                 Number[i] = Append(IF Above(i) = 0 THEN <<>> ELSE Number[Above(i)], Siblings(i))
<1>1. PICK g \in [Places -> Seq(Nat)] : \A i \in Places : g[i] = Numbered(g, i)
  BY NumbersExist
<1>2. g = [i \in Places |-> Numbered(g, i)]
  BY <1>1
<1>3. Number = CHOOSE number : number = [i \in Places |-> Numbered(number, i)]
  BY DEF Number, Numbered, Siblings
<1>4. Number = [i \in Places |-> Numbered(Number, i)]
  BY <1>2, <1>3
<1>5. PICK n \in Nat : Headings = 1..n /\ Places = 0..n
  BY PlacesAre
<1>6. Number[0] = <<0>>
  <2>1. 0 \in Places
    BY <1>5
  <2> QED BY <1>4, <2>1 DEF Numbered
<1>7. ASSUME NEW i \in Headings
      PROVE  Number[i] = Append(IF Above(i) = 0 THEN <<>> ELSE Number[Above(i)], Siblings(i))
  <2>1. i \in Places /\ i # 0
    BY <1>5
  <2> QED BY <1>4, <2>1 DEF Numbered
<1> DEFINE N == {m \in 0..n : \A i \in 0..m : Number[i] \in Seq(Nat)}
<1>8. 0 \in N
  <2>1. <<0>> \in Seq(Nat) /\ 0 \in 0..n
    OBVIOUS
  <2>2. \A i \in 0..0 : Number[i] \in Seq(Nat)
    <3>1. \A i \in 0..0 : i = 0
      OBVIOUS
    <3> QED BY <1>6, <2>1, <3>1
  <2> QED BY <2>1, <2>2
<1>9. ASSUME NEW m \in 0..n, m \in N, m < n PROVE m + 1 \in N
  <2>1. m + 1 \in Headings /\ m + 1 \in 0..n /\ m \in Nat
    BY <1>5, <1>9
  <2>2. Above(m + 1) \in 0..m /\ Siblings(m + 1) \in Nat
    BY <2>1, AboveIs, SiblingsAre
  <2>3. Number[Above(m + 1)] \in Seq(Nat)
    BY <1>9, <2>2
  <2>4. Append(Number[Above(m + 1)], Siblings(m + 1)) \in Seq(Nat)
        /\ Append(<<>>, Siblings(m + 1)) \in Seq(Nat)
    BY <2>2, <2>3
  <2>5. Number[m + 1] \in Seq(Nat)
    BY <1>7, <2>1, <2>4
  <2>6. \A i \in 0..(m + 1) : i \in 0..m \/ i = m + 1
    BY <2>1
  <2> QED BY <1>9, <2>1, <2>5, <2>6
<1>10. \A m \in 0..n : m \in N /\ m < n => m + 1 \in N
  BY <1>9, Zenon
<1> HIDE DEF N
<1>11. 0..n \subseteq N
  BY <1>8, <1>10, Upto, Zenon
<1>12. n \in N
  BY <1>11
<1>13. Number \in [Places -> Seq(Nat)]
  <2>1. \A i \in Places : Number[i] \in Seq(Nat)
    BY <1>5, <1>12 DEF N
  <2> HIDE DEF Numbered
  <2>2. DOMAIN Number = Places /\ Number = [i \in Places |-> Number[i]]
    BY <1>4
  <2> QED BY <2>1, <2>2
<1> QED BY <1>6, <1>7, <1>13

\* What a strict prefix is, place by place.
LEMMA PrefixIs ==
    ASSUME NEW s \in Seq(Nat), NEW t \in Seq(Nat)
    PROVE  IsStrictPrefix(s, t) <=> Len(s) < Len(t) /\ \A k \in 1..Len(s) : s[k] = t[k]
<1>1. Len(s) \in Nat /\ Len(t) \in Nat
  OBVIOUS
<1>2. SubSeq(s, 1, Len(s)) = s
  OBVIOUS
<1>3. ASSUME Len(s) <= Len(t)
      PROVE  SubSeq(t, 1, Len(s)) = [k \in 1..Len(s) |-> t[k]]
  BY <1>3
<1>4. s = [k \in 1..Len(s) |-> s[k]]
  OBVIOUS
<1>5. IsPrefix(s, t) <=> Len(s) <= Len(t) /\ \A k \in 1..Len(s) : s[k] = t[k]
  <2>1. ASSUME IsPrefix(s, t) PROVE Len(s) <= Len(t) /\ \A k \in 1..Len(s) : s[k] = t[k]
    <3>1. Len(s) <= Len(t) /\ s = [k \in 1..Len(s) |-> t[k]]
      BY <1>2, <1>3, <2>1 DEF IsPrefix
    <3> QED BY <3>1
  <2>2. ASSUME Len(s) <= Len(t), \A k \in 1..Len(s) : s[k] = t[k] PROVE IsPrefix(s, t)
    <3>1. s = [k \in 1..Len(s) |-> t[k]]
      BY <1>4, <2>2
    <3> QED BY <1>2, <1>3, <2>2, <3>1 DEF IsPrefix
  <2> QED BY <2>1, <2>2
<1>6. ASSUME Len(s) = Len(t), \A k \in 1..Len(s) : s[k] = t[k] PROVE s = t
  <2>1. t = [k \in 1..Len(t) |-> t[k]]
    OBVIOUS
  <2> QED BY <1>4, <1>6, <2>1
<1>7. s = t => Len(s) = Len(t)
  OBVIOUS
<1> QED BY <1>1, <1>5, <1>6, <1>7 DEF IsStrictPrefix

\* A number with one place more: equal to another if both parts are, and below what it extends.
LEMMA Continued ==
    ASSUME NEW s \in Seq(Nat), NEW x \in Nat, NEW t \in Seq(Nat), NEW y \in Nat
    PROVE  /\ Append(s, x) = Append(t, y) => s = t /\ x = y
           /\ IsStrictPrefix(t, Append(s, x)) <=> t = s \/ IsStrictPrefix(t, s)
           /\ Append(s, x) \in Seq(Nat) /\ Len(Append(s, x)) = Len(s) + 1 /\ Len(s) \in Nat
<1> DEFINE a == Append(s, x)
           b == Append(t, y)
<1>1. /\ a \in Seq(Nat) /\ Len(a) = Len(s) + 1 /\ a[Len(s) + 1] = x
      /\ \A k \in 1..Len(s) : a[k] = s[k]
      /\ b \in Seq(Nat) /\ Len(b) = Len(t) + 1 /\ b[Len(t) + 1] = y
      /\ \A k \in 1..Len(t) : b[k] = t[k]
  OBVIOUS
<1>2. Len(s) \in Nat /\ Len(t) \in Nat
  OBVIOUS
<1> HIDE DEF a, b
<1>3. ASSUME a = b PROVE s = t /\ x = y
  <2>1. Len(s) = Len(t) /\ x = y
    BY <1>1, <1>2, <1>3
  <2>2. \A k \in 1..Len(s) : s[k] = t[k]
    BY <1>1, <1>3, <2>1
  <2> QED BY <2>1, <2>2
<1>4. IsStrictPrefix(t, a) <=> Len(t) < Len(a) /\ \A k \in 1..Len(t) : t[k] = a[k]
  BY <1>1, PrefixIs
<1>5. IsStrictPrefix(t, s) <=> Len(t) < Len(s) /\ \A k \in 1..Len(t) : t[k] = s[k]
  BY PrefixIs
<1>6. CASE Len(t) < Len(s)
  <2>1. \A k \in 1..Len(t) : a[k] = s[k]
    <3>1. \A k \in 1..Len(t) : k \in 1..Len(s)
      BY <1>2, <1>6
    <3> QED BY <1>1, <3>1
  <2>2. t # s
    BY <1>2, <1>6
  <2> QED BY <1>1, <1>2, <1>3, <1>4, <1>5, <1>6, <2>1, <2>2 DEF a, b
<1>7. CASE Len(t) = Len(s)
  <2>1. t = s <=> \A k \in 1..Len(t) : t[k] = s[k]
    <3>1. ASSUME \A k \in 1..Len(t) : t[k] = s[k] PROVE t = s
      BY <1>7, <3>1
    <3> QED BY <3>1
  <2>2. \A k \in 1..Len(t) : a[k] = s[k]
    BY <1>1, <1>7
  <2>3. IsStrictPrefix(t, a) <=> t = s
    BY <1>1, <1>2, <1>4, <1>7, <2>1, <2>2
  <2>4. ~IsStrictPrefix(t, s)
    BY <1>2, <1>5, <1>7
  <2> QED BY <1>1, <1>2, <1>3, <2>3, <2>4 DEF a, b
<1>8. CASE Len(t) > Len(s)
  <2>1. ~IsStrictPrefix(t, a) /\ ~IsStrictPrefix(t, s) /\ t # s
    <3>1. ~(Len(t) < Len(a)) /\ ~(Len(t) < Len(s)) /\ Len(t) # Len(s)
      BY <1>1, <1>2, <1>8
    <3> QED BY <1>4, <1>5, <3>1
  <2> QED BY <1>1, <1>2, <1>3, <2>1 DEF a, b
<1> QED BY <1>2, <1>6, <1>7, <1>8

\* What is above a heading in its number
Over(i) == IF Above(i) = 0 THEN <<>> ELSE Number[Above(i)]

\* The number of a heading is what is above it in it, and its place there.
LEMMA OverIs ==
    ASSUME PageTypes, NEW i \in Headings
    PROVE  /\ Over(i) \in Seq(Nat) /\ Siblings(i) \in Nat \ {0}
           /\ Number[i] = Append(Over(i), Siblings(i))
           /\ Number[i] \in Seq(Nat) /\ Number[i] # <<>>
<1>1. Number[i] = Append(Over(i), Siblings(i))
  BY NumberIs DEF Over
<1>2. Siblings(i) \in Nat \ {0}
  BY SiblingsAre
<1>3. Over(i) \in Seq(Nat)
  <2>1. Above(i) \in Places
    BY AboveIs
  <2>2. Number[Above(i)] \in Seq(Nat)
    BY <2>1, NumberIs
  <2>3. <<>> \in Seq(Nat)
    OBVIOUS
  <2> QED BY <2>2, <2>3 DEF Over
<1>4. Number[i] \in Seq(Nat) /\ Number[i] # <<>>
  BY <1>1, <1>2, <1>3
<1> QED BY <1>1, <1>2, <1>3, <1>4

\* No two places have the same number.
LEMMA NumbersDiffer ==
    ASSUME PageTypes
    PROVE  \A i, j \in Places : Number[i] = Number[j] => i = j
<1>1. PICK n \in Nat : Headings = 1..n /\ Places = 0..n
  BY PlacesAre
<1> DEFINE N == {m \in 0..n : \A i, j \in 0..m : Number[i] = Number[j] => i = j}
<1>2. 0 \in N
  OBVIOUS
<1>3. ASSUME NEW m \in 0..n, m \in N, m < n PROVE m + 1 \in N
  <2>1. m + 1 \in Headings /\ m + 1 \in 0..n /\ m \in Nat
    BY <1>1, <1>3
  <2> DEFINE i == m + 1
  <2>2. /\ Over(i) \in Seq(Nat) /\ Siblings(i) \in Nat \ {0}
        /\ Number[i] = Append(Over(i), Siblings(i))
    BY <2>1, OverIs
  <2>3. Above(i) \in 0..m
    BY <2>1, AboveIs
  <2>4. ASSUME NEW j \in 0..m PROVE Number[i] # Number[j]
    <3>1. CASE j = 0
      <4>1. Number[j] = <<0>>
        BY <3>1, NumberIs
      <4>2. Number[i] # <<0>>
        <5> HIDE DEF i
        <5> DEFINE o == Over(i)
                   x == Siblings(i)
        <5>1. o \in Seq(Nat) /\ x \in Nat \ {0}
          BY <2>2
        <5> HIDE DEF o, x
        <5>2. Append(o, x)[Len(Append(o, x))] = x
          BY <5>1
        <5>3. <<0>>[Len(<<0>>)] = 0
          OBVIOUS
        <5>4. Append(o, x) # <<0>>
          BY <5>1, <5>2, <5>3
        <5> QED BY <2>2, <5>4 DEF o, x
      <4> QED BY <4>1, <4>2
    <3>2. CASE j # 0
      <4>1. j \in Headings /\ j < i
        BY <1>1, <1>3, <2>1, <3>2
      <4>2. /\ Over(j) \in Seq(Nat) /\ Siblings(j) \in Nat \ {0}
            /\ Number[j] = Append(Over(j), Siblings(j))
        BY <4>1, OverIs
      <4> SUFFICES ASSUME Number[i] = Number[j] PROVE FALSE
        OBVIOUS
      <4> HIDE DEF i
      <4>3. Over(i) = Over(j) /\ Siblings(i) = Siblings(j)
        <5> DEFINE o == Over(i)
                   x == Siblings(i)
                   p == Over(j)
                   y == Siblings(j)
        <5>1. o \in Seq(Nat) /\ x \in Nat /\ p \in Seq(Nat) /\ y \in Nat
          BY <2>2, <4>2
        <5>2. Append(o, x) = Append(p, y)
          BY <2>2, <4>2
        <5> HIDE DEF o, x, p, y
        <5>3. o = p /\ x = y
          BY <5>1, <5>2, Continued
        <5> QED BY <5>3 DEF o, x, p, y
      <4>4. Above(i) = Above(j)
        <5>1. Above(j) \in 0..m
          <6>1. Above(j) \in Nat /\ Above(j) < j
            BY <4>1, AboveIs
          <6> QED BY <2>1, <6>1
        <5>2. Above(i) # 0 => Above(i) \in Headings /\ Over(i) = Number[Above(i)] /\ Number[Above(i)] # <<>>
          <6> SUFFICES ASSUME Above(i) # 0
                       PROVE  Above(i) \in Headings /\ Over(i) = Number[Above(i)] /\ Number[Above(i)] # <<>>
            OBVIOUS
          <6>1. Above(i) \in Headings
            BY <2>1, AboveIs DEF i
          <6> QED BY <6>1, OverIs DEF Over
        <5>3. Above(j) # 0 => Above(j) \in Headings /\ Over(j) = Number[Above(j)] /\ Number[Above(j)] # <<>>
          <6> SUFFICES ASSUME Above(j) # 0
                       PROVE  Above(j) \in Headings /\ Over(j) = Number[Above(j)] /\ Number[Above(j)] # <<>>
            OBVIOUS
          <6>1. Above(j) \in Headings
            BY <4>1, AboveIs
          <6> QED BY <6>1, OverIs DEF Over
        <5>4. CASE Above(i) = 0
          BY <4>3, <5>3, <5>4 DEF Over
        <5>5. CASE Above(j) = 0
          BY <4>3, <5>2, <5>5 DEF Over
        <5>6. CASE Above(i) # 0 /\ Above(j) # 0
          <6>1. Number[Above(i)] = Number[Above(j)]
            BY <4>3, <5>2, <5>3, <5>6
          <6> QED BY <1>3, <2>3, <5>1, <6>1
        <5> QED BY <5>4, <5>5, <5>6
      <4>5. Siblings(j) < Siblings(i)
        BY <2>1, <4>1, <4>4, SiblingsAre DEF i
      <4> QED BY <2>2, <4>3, <4>5
    <3> QED BY <3>1, <3>2
  <2>5. \A k \in 0..(m + 1) : k \in 0..m \/ k = i
    BY <2>1
  <2> HIDE DEF i
  <2>6. \A k, j \in 0..(m + 1) : Number[k] = Number[j] => k = j
    BY <1>3, <2>4, <2>5
  <2> QED BY <2>1, <2>6
<1>4. \A m \in 0..n : m \in N /\ m < n => m + 1 \in N
  BY <1>3, Zenon
<1> HIDE DEF N
<1>5. 0..n \subseteq N
  BY <1>2, <1>4, Upto, Zenon
<1>6. n \in N
  BY <1>5
<1> QED BY <1>1, <1>6 DEF N

\* The numbers under the number of a heading are those of the headings under it.
LEMMA DescendantsAre ==
    ASSUME PageTypes
    PROVE  /\ Descendants[0] = {}
           /\ \A j \in Headings : Descendants[j] = {i \in Headings : Under(i, j)}
<1>1. PICK n \in Nat : Headings = 1..n /\ Places = 0..n
  BY PlacesAre
<1>2. \A j \in Places :
         Descendants[j] = {i \in Places : j # 0 /\ IsStrictPrefix(Number[j], Number[i])}
  BY DEF Descendants
<1>3. Descendants[0] = {}
  <2>1. 0 \in Places
    BY <1>1
  <2>2. Descendants[0] = {i \in Places : 0 # 0 /\ IsStrictPrefix(Number[0], Number[i])}
    BY <1>2, <2>1
  <2> QED BY <2>2
<1>4. ASSUME NEW j \in Headings
      PROVE  \A i \in Places : IsStrictPrefix(Number[j], Number[i]) <=> i \in Headings /\ Under(i, j)
  <2> DEFINE Right(i) == IsStrictPrefix(Number[j], Number[i]) <=> i \in Headings /\ Under(i, j)
             N == {m \in 0..n : \A i \in 0..m : Right(i)}
  <2>1. Number[j] \in Seq(Nat) /\ Number[j] # <<>> /\ j \in Places /\ j # 0
    BY <1>1, OverIs
  <2>2. \A s \in Seq(Nat) : Len(s) <= 1 => ~IsStrictPrefix(Number[j], s)
    <3> TAKE s \in Seq(Nat)
    <3>1. IsStrictPrefix(Number[j], s) => Len(Number[j]) < Len(s)
      BY <2>1, PrefixIs
    <3>2. Len(Number[j]) \in Nat \ {0} /\ Len(s) \in Nat
      BY <2>1
    <3> QED BY <3>1, <3>2
  <2>3. Right(0)
    <3>1. Number[0] = <<0>> /\ 0 \notin Headings
      BY <1>1, NumberIs
    <3>2. <<0>> \in Seq(Nat) /\ Len(<<0>>) <= 1
      OBVIOUS
    <3> QED BY <2>2, <3>1, <3>2
  <2>4. ASSUME NEW i \in Headings, \A k \in 0..(i - 1) : Right(k) PROVE Right(i)
    <3>1. /\ Over(i) \in Seq(Nat) /\ Siblings(i) \in Nat
          /\ Number[i] = Append(Over(i), Siblings(i))
      BY OverIs
    <3>2. IsStrictPrefix(Number[j], Number[i])
            <=> Number[j] = Over(i) \/ IsStrictPrefix(Number[j], Over(i))
      BY <2>1, <3>1, Continued
    <3>3. Under(i, j) <=> Above(i) = j \/ (Above(i) # 0 /\ Under(Above(i), j))
      BY UnderAbove
    <3>4. Above(i) \in Nat /\ Above(i) < i /\ i \in Nat /\ (Above(i) # 0 => Above(i) \in Headings)
      BY AboveIs
    <3>5. CASE Above(i) = 0
      <4>1. Over(i) = <<>>
        BY <3>5 DEF Over
      <4>2. <<>> \in Seq(Nat) /\ Len(<<>>) <= 1
        OBVIOUS
      <4>3. ~IsStrictPrefix(Number[j], Number[i])
        BY <2>1, <2>2, <3>2, <4>1, <4>2
      <4> QED BY <2>1, <3>3, <3>5, <4>3
    <3>6. CASE Above(i) # 0
      <4>1. Over(i) = Number[Above(i)]
        BY <3>6 DEF Over
      <4>2. Above(i) \in 0..(i - 1) /\ Above(i) \in Headings /\ Above(i) \in Places
        BY <1>1, <3>4, <3>6
      <4>3. Number[j] = Number[Above(i)] <=> j = Above(i)
        BY <2>1, <4>2, NumbersDiffer
      <4>4. Right(Above(i))
        BY <2>4, <4>2
      <4> QED BY <3>2, <3>3, <3>6, <4>1, <4>2, <4>3, <4>4
    <3> QED BY <3>5, <3>6
  <2>5. 0 \in N
    <3>1. \A i \in 0..0 : i = 0
      OBVIOUS
    <3>2. 0 \in 0..n
      OBVIOUS
    <3> HIDE DEF Right
    <3> QED BY <2>3, <3>1, <3>2
  <2>6. ASSUME NEW m \in 0..n, m \in N, m < n PROVE m + 1 \in N
    <3>1. m + 1 \in Headings /\ m + 1 \in 0..n /\ (m + 1) - 1 = m
      BY <1>1, <2>6
    <3>2. \A i \in 0..(m + 1) : i \in 0..m \/ i = m + 1
      OBVIOUS
    <3> HIDE DEF Right
    <3>3. \A k \in 0..m : Right(k)
      BY <2>6
    <3>4. \A k \in 0..((m + 1) - 1) : Right(k)
      BY <3>1, <3>3
    <3>5. Right(m + 1)
      BY <2>4, <3>1, <3>4
    <3> QED BY <3>1, <3>2, <3>3, <3>5
  <2>7. \A m \in 0..n : m \in N /\ m < n => m + 1 \in N
    BY <2>6, Zenon
  <2> HIDE DEF N
  <2>8. 0..n \subseteq N
    BY <2>5, <2>7, Upto, Zenon
  <2>9. n \in N
    BY <2>8
  <2> QED BY <1>1, <2>9 DEF N
<1>5. ASSUME NEW j \in Headings PROVE Descendants[j] = {i \in Headings : Under(i, j)}
  <2>1. j \in Places /\ j # 0
    BY <1>1
  <2>2. Descendants[j] = {i \in Places : j # 0 /\ IsStrictPrefix(Number[j], Number[i])}
    BY <1>2, <2>1
  <2>3. \A i : i \in Descendants[j] <=> i \in Places /\ IsStrictPrefix(Number[j], Number[i])
    BY <2>1, <2>2
  <2>4. \A i : i \in Descendants[j] <=> i \in Headings /\ Under(i, j)
    <3>1. Headings \subseteq Places
      BY DEF Places
    <3> QED BY <1>4, <2>3, <3>1
  <2> QED BY <2>4
<1> QED BY <1>3, <1>5

\* A section and what is under it
Tree(x) == {x} \cup Descendants[x]

\* Two trees are one in the other, or have nothing in common.
LEMMA TreesAre ==
    ASSUME PageTypes
    PROVE  /\ \A x \in Sections : x \in Tree(x) /\ Tree(x) \subseteq Sections /\ IsFiniteSet(Tree(x))
           /\ \A x \in Sections : \A y \in Tree(x) : x <= y
           /\ \A x \in Sections : \A y \in Tree(x) : \A z \in Tree(y) : z \in Tree(x)
           /\ \A x, y \in Sections : \A z \in Tree(x) \cap Tree(y) : x <= y => y \in Tree(x)
<1>1. PICK n \in Nat : /\ Headings = 1..n /\ Places = 0..n /\ levels \in [1..n -> Nat]
  BY PlacesAre
<1>2. Headings \subseteq Sections /\ Sections \subseteq Places /\ IsFiniteSet(Sections)
  BY SectionsAre
<1>3. \A x \in Sections : x \in Nat /\ (x # 0 => x \in Headings)
  BY <1>1, <1>2
<1>4. Tree(0) = {0} /\ \A x \in Headings : Tree(x) = {x} \cup {i \in Headings : Under(i, x)}
  BY DescendantsAre DEF Tree
<1>5. ASSUME NEW x \in Sections PROVE x \in Tree(x) /\ Tree(x) \subseteq Sections /\ IsFiniteSet(Tree(x))
  <2>1. x \in Tree(x)
    BY DEF Tree
  <2>2. Tree(x) \in SUBSET Sections
    BY <1>2, <1>3, <1>4
  <2> QED BY <1>2, <2>1, <2>2, FS_Subset
<1>6. ASSUME NEW x \in Sections, NEW y \in Tree(x), y # x
      PROVE  /\ x \in Headings /\ y \in Headings /\ x \in Nat /\ y \in Nat /\ x < y
             /\ \A k \in (x + 1)..y : levels[k] > levels[x]
  <2>1. x \in Headings
    BY <1>3, <1>4, <1>6
  <2>2. y \in Headings /\ Under(y, x)
    BY <1>4, <1>6, <2>1
  <2> QED BY <1>1, <2>1, <2>2 DEF Under
<1>7. ASSUME NEW x \in Sections, NEW y \in Tree(x) PROVE x <= y
  BY <1>3, <1>6
<1>8. ASSUME NEW x \in Sections, NEW y \in Tree(x), NEW z \in Tree(y) PROVE z \in Tree(x)
  <2>1. CASE y = x \/ z = y
    BY <2>1
  <2>2. CASE y # x /\ z # y
    <3>1. /\ x \in Headings /\ y \in Headings /\ x \in Nat /\ y \in Nat /\ x < y
          /\ \A k \in (x + 1)..y : levels[k] > levels[x]
      BY <1>6, <2>2
    <3>2. y \in Sections
      BY <1>2, <3>1
    <3>3. /\ z \in Headings /\ z \in Nat /\ y < z
          /\ \A k \in (y + 1)..z : levels[k] > levels[y]
      BY <1>6, <2>2, <3>2
    <3>4. levels[y] > levels[x] /\ levels[x] \in Nat /\ levels[y] \in Nat
      BY <1>1, <3>1
    <3>5. ASSUME NEW k \in (x + 1)..z PROVE levels[k] > levels[x]
      <4>1. k \in Nat /\ levels[k] \in Nat
        <5>1. k \in 1..n
          BY <1>1, <3>1, <3>3
        <5> QED BY <1>1, <5>1
      <4>2. CASE k <= y
        BY <3>1, <4>1, <4>2
      <4>3. CASE y < k
        <5>1. k \in (y + 1)..z
          BY <3>1, <3>3, <4>1, <4>3
        <5> QED BY <3>3, <3>4, <4>1, <5>1
      <4> QED BY <3>1, <4>1, <4>2, <4>3
    <3>6. Under(z, x)
      BY <3>1, <3>3, <3>5 DEF Under
    <3> QED BY <1>4, <3>1, <3>3, <3>6
  <2> QED BY <2>1, <2>2
<1>9. ASSUME NEW x \in Sections, NEW y \in Sections, NEW z \in Tree(x) \cap Tree(y), x <= y
      PROVE  y \in Tree(x)
  <2>1. CASE x = y
    BY <1>5, <2>1
  <2>2. CASE x # y
    <3>1. x \in Nat /\ y \in Nat /\ x < y
      BY <1>3, <1>9, <2>2
    <3>2. y <= z
      BY <1>7
    <3>3. z # x
      BY <3>1, <3>2
    <3>4. /\ x \in Headings /\ z \in Headings /\ z \in Nat
          /\ \A k \in (x + 1)..z : levels[k] > levels[x]
      BY <1>6, <3>3
    <3>5. y \in Headings
      BY <1>3, <3>1
    <3>6. \A k \in (x + 1)..y : k \in (x + 1)..z
      BY <3>1, <3>2, <3>4
    <3>7. Under(y, x)
      BY <3>1, <3>4, <3>6 DEF Under
    <3> QED BY <1>4, <3>4, <3>5, <3>7
  <2> QED BY <2>1, <2>2
<1> QED BY <1>5, <1>7, <1>8, <1>9

-----------------------------------------------------------------------------
(* Sections that are chosen *)

\* What a concatenation holds, and in which order.
LEMMA Concatenated ==
    ASSUME NEW S, NEW a \in Seq(S), NEW b \in Seq(S)
    PROVE  /\ a \o b \in Seq(S) /\ ToSet(a \o b) = ToSet(a) \cup ToSet(b)
           /\ \A x, y : Precedes(a, x, y) \/ Precedes(b, x, y) => Precedes(a \o b, x, y)
           /\ IsInjective(a) /\ IsInjective(b) /\ ToSet(a) \cap ToSet(b) = {} => IsInjective(a \o b)
           /\ a # <<>> => a \o b # <<>> /\ (a \o b)[1] = a[1]
           /\ a = <<>> => a \o b = b
<1> DEFINE c == a \o b
<1>1. Len(a) \in Nat /\ Len(b) \in Nat /\ DOMAIN a = 1..Len(a) /\ DOMAIN b = 1..Len(b)
  OBVIOUS
<1>2. /\ c \in Seq(S) /\ Len(c) = Len(a) + Len(b) /\ DOMAIN c = 1..(Len(a) + Len(b))
      /\ \A k \in 1..Len(a) : c[k] = a[k]
  OBVIOUS
<1>3. \A k \in 1..Len(b) : c[Len(a) + k] = b[k]
  OBVIOUS
<1>4. a # <<>> => Len(a) # 0
  OBVIOUS
<1>5. a = <<>> => c = b
  OBVIOUS
<1> HIDE DEF c
<1> DEFINE l == Len(a)
           k == Len(b)
<1>6. /\ l \in Nat /\ k \in Nat /\ DOMAIN a = 1..l /\ DOMAIN b = 1..k /\ DOMAIN c = 1..(l + k)
      /\ \A i \in 1..l : c[i] = a[i]
      /\ \A i \in 1..k : c[l + i] = b[i]
      /\ a # <<>> => l # 0
  BY <1>1, <1>2, <1>3, <1>4
<1> HIDE DEF l, k
<1>7. \A i \in 1..(l + k) : i \in 1..l \/ (i - l \in 1..k /\ i = l + (i - l))
  BY <1>6
<1>8. \A i \in 1..l : i \in 1..(l + k)
  BY <1>6
<1>9. \A i \in 1..k : l + i \in 1..(l + k)
  BY <1>6
<1>10. ToSet(c) = ToSet(a) \cup ToSet(b)
  <2>1. ASSUME NEW x \in ToSet(c) PROVE x \in ToSet(a) \cup ToSet(b)
    <3>1. PICK i \in 1..(l + k) : c[i] = x
      BY <1>6 DEF ToSet
    <3>2. CASE i \in 1..l
      BY <1>6, <3>1, <3>2 DEF ToSet
    <3>3. CASE i - l \in 1..k /\ i = l + (i - l)
      <4>1. c[l + (i - l)] = b[i - l]
        BY <1>6, <3>3
      <4> QED BY <1>6, <3>1, <3>3, <4>1 DEF ToSet
    <3> QED BY <1>7, <3>2, <3>3
  <2>2. ASSUME NEW x \in ToSet(a) PROVE x \in ToSet(c)
    <3>1. PICK i \in 1..l : a[i] = x
      BY <1>6 DEF ToSet
    <3>2. c[i] = x /\ i \in DOMAIN c
      BY <1>6, <1>8, <3>1
    <3> QED BY <3>2 DEF ToSet
  <2>3. ASSUME NEW x \in ToSet(b) PROVE x \in ToSet(c)
    <3>1. PICK i \in 1..k : b[i] = x
      BY <1>6 DEF ToSet
    <3>2. c[l + i] = x /\ l + i \in DOMAIN c
      BY <1>6, <1>9, <3>1
    <3> QED BY <3>2 DEF ToSet
  <2> QED BY <2>1, <2>2, <2>3
<1>11. ASSUME NEW x, NEW y, Precedes(a, x, y) PROVE Precedes(c, x, y)
  <2>1. PICK m \in 1..l, n \in 1..l : m < n /\ a[m] = x /\ a[n] = y
    BY <1>6, <1>11 DEF Precedes
  <2>2. c[m] = x /\ c[n] = y /\ m \in DOMAIN c /\ n \in DOMAIN c
    BY <1>6, <1>8, <2>1
  <2> QED BY <2>1, <2>2 DEF Precedes
<1>12. ASSUME NEW x, NEW y, Precedes(b, x, y) PROVE Precedes(c, x, y)
  <2>1. PICK m \in 1..k, n \in 1..k : m < n /\ b[m] = x /\ b[n] = y
    BY <1>6, <1>12 DEF Precedes
  <2>2. c[l + m] = x /\ c[l + n] = y /\ l + m \in DOMAIN c /\ l + n \in DOMAIN c
    BY <1>6, <1>9, <2>1
  <2>3. l + m < l + n
    BY <1>6, <2>1
  <2> QED BY <2>2, <2>3 DEF Precedes
<1>13. ASSUME IsInjective(a), IsInjective(b), ToSet(a) \cap ToSet(b) = {} PROVE IsInjective(c)
  <2>1. \A i \in 1..l : \A j \in 1..k : a[i] # b[j]
    BY <1>6, <1>13 DEF ToSet
  <2>2. ASSUME NEW i \in 1..(l + k), NEW j \in 1..(l + k), c[i] = c[j] PROVE i = j
    <3>1. CASE i \in 1..l /\ j \in 1..l
      BY <1>6, <1>13, <2>2, <3>1 DEF IsInjective
    <3>2. CASE i \in 1..l /\ j - l \in 1..k /\ j = l + (j - l)
      <4>1. c[i] = a[i] /\ c[l + (j - l)] = b[j - l] /\ a[i] # b[j - l]
        BY <1>6, <2>1, <3>2
      <4>2. c[j] = b[j - l]
        BY <3>2, <4>1
      <4> QED BY <2>2, <4>1, <4>2
    <3>3. CASE i - l \in 1..k /\ i = l + (i - l) /\ j \in 1..l
      <4>1. c[j] = a[j] /\ c[l + (i - l)] = b[i - l] /\ a[j] # b[i - l]
        BY <1>6, <2>1, <3>3
      <4>2. c[i] = b[i - l]
        BY <3>3, <4>1
      <4> QED BY <2>2, <4>1, <4>2
    <3>4. CASE i - l \in 1..k /\ i = l + (i - l) /\ j - l \in 1..k /\ j = l + (j - l)
      <4>1. b[i - l] = b[j - l]
        BY <1>6, <2>2, <3>4
      <4>2. i - l = j - l
        BY <1>6, <1>13, <3>4, <4>1 DEF IsInjective
      <4> QED BY <3>4, <4>2
    <3> QED BY <1>7, <3>1, <3>2, <3>3, <3>4
  <2> QED BY <1>6, <2>2 DEF IsInjective
<1>14. ASSUME a # <<>> PROVE c # <<>> /\ c[1] = a[1]
  <2>1. 1 \in 1..l /\ 1 \in DOMAIN c
    BY <1>6, <1>14
  <2> QED BY <1>6, <2>1
<1> QED BY <1>2, <1>5, <1>10, <1>11, <1>12, <1>13, <1>14 DEF c

\* What is under the first n of s
Taken(s, n) == UNION {Tree(s[l]) : l \in 1..n}

\* What is chosen when the nth root is matched
ChooseStep(s, g, n) ==
    IF n = 0 THEN <<>> ELSE g[n - 1] \o InOrder(Tree(s[n]) \ ToSet(g[n - 1]))

\* What a root adds: all under it that is not chosen yet, in order
LEMMA AddedIs ==
    ASSUME PageTypes, NEW x \in Sections, NEW c
    PROVE  /\ InOrder(Tree(x) \ ToSet(c)) \in Seq(Sections)
           /\ IsInjective(InOrder(Tree(x) \ ToSet(c)))
           /\ ToSet(InOrder(Tree(x) \ ToSet(c))) = Tree(x) \ ToSet(c)
           /\ \A y, z \in Tree(x) \ ToSet(c) :
                 y < z => Precedes(InOrder(Tree(x) \ ToSet(c)), y, z)
<1> DEFINE S == Tree(x) \ ToSet(c)
<1>1. S \in SUBSET Tree(x)
  OBVIOUS
<1>2. IsFiniteSet(Tree(x)) /\ Tree(x) \subseteq Sections /\ Sections \subseteq Nat
  BY TreesAre, SectionsAre
<1>3. IsFiniteSet(S) /\ S \in SUBSET Nat /\ S \subseteq Sections
  BY <1>1, <1>2, FS_Subset
<1> HIDE DEF S
<1>4. /\ InOrder(S) \in Seq(S) /\ ToSet(InOrder(S)) = S /\ IsInjective(InOrder(S))
      /\ \A y, z \in S : y < z => Precedes(InOrder(S), y, z)
  BY <1>3, InOrderSeq
<1>5. InOrder(S) \in Seq(Sections)
  <2>1. Cardinality(S) \in Nat /\ InOrder(S) \in [1..Cardinality(S) -> S]
    BY <1>3, InOrderIs
  <2>2. InOrder(S) \in [1..Cardinality(S) -> Sections]
    BY <1>3, <2>1
  <2> QED BY <2>1, <2>2
<1> QED BY <1>4, <1>5 DEF S

\* What is chosen is a function of how many roots are matched.
LEMMA ChosenExist ==
    ASSUME PageTypes, NEW s \in Seq(Sections)
    PROVE  \E g : g = [n \in 0..Len(s) |-> ChooseStep(s, g, n)]
<1> DEFINE L == Len(s)
           added == [n \in 1..L |-> [c \in Seq(Sections) |-> c \o InOrder(Tree(s[n]) \ ToSet(c))]]
<1>1. L \in Nat /\ \A n \in 1..L : s[n] \in Sections
  OBVIOUS
<1>2. ASSUME NEW n \in 1..L, NEW c \in Seq(Sections)
      PROVE  c \o InOrder(Tree(s[n]) \ ToSet(c)) \in Seq(Sections)
  <2>1. InOrder(Tree(s[n]) \ ToSet(c)) \in Seq(Sections)
    BY <1>1, AddedIs
  <2> QED BY <2>1
<1>3. added \in [1..L -> [Seq(Sections) -> Seq(Sections)]]
  BY <1>2
<1>4. PICK g : g \in Runs(L, Seq(Sections), <<>>, added)
  <2>1. <<>> \in Seq(Sections)
    OBVIOUS
  <2> HIDE DEF added, L
  <2>2. Runs(L, Seq(Sections), <<>>, added) # {}
    BY <1>1, <1>3, <2>1, RunsExist
  <2> QED BY <2>2
<1>5. /\ g \in [0..L -> Seq(Sections)] /\ g[0] = <<>>
      /\ \A n \in 1..L : g[n] = added[n][g[n - 1]]
  BY <1>4 DEF Runs
<1>6. ASSUME NEW n \in 1..L PROVE g[n] = g[n - 1] \o InOrder(Tree(s[n]) \ ToSet(g[n - 1]))
  <2>1. g[n - 1] \in Seq(Sections)
    BY <1>1, <1>5
  <2> QED BY <1>5, <2>1
<1> HIDE DEF added
<1>7. ASSUME NEW n \in 0..L PROVE g[n] = ChooseStep(s, g, n)
  <2>1. CASE n = 0
    BY <1>5, <2>1 DEF ChooseStep
  <2>2. CASE n # 0
    <3>1. n \in 1..L
      BY <2>2
    <3> QED BY <1>6, <2>2, <3>1 DEF ChooseStep
  <2> QED BY <2>1, <2>2
<1>8. g = [n \in 0..L |-> ChooseStep(s, g, n)]
  BY <1>5, <1>7
<1> QED BY <1>8

\* Whatever is asked for, or under it, is chosen once; of what a section is the first to cover,
\* all in order; and first the first.
LEMMA MatchedIs ==
    ASSUME PageTypes, NEW s \in Seq(Sections)
    PROVE  /\ Matched(s) \in Seq(Sections) /\ IsInjective(Matched(s))
           /\ ToSet(Matched(s)) = Taken(s, Len(s))
           /\ \A m \in 1..Len(s) : \A x, y \in Tree(s[m]) \ Taken(s, m - 1) :
                 x < y => Precedes(Matched(s), x, y)
           /\ s # <<>> => Matched(s) # <<>> /\ Matched(s)[1] = s[1]
<1> DEFINE L == Len(s)
           F == CHOOSE g : g = [n \in 0..L |-> ChooseStep(s, g, n)]
<1>1. Matched(s) = F[L]
  BY DEF Matched, ChooseStep, Tree
<1>2. F = [n \in 0..L |-> ChooseStep(s, F, n)]
  BY ChosenExist
<1>3. L \in Nat /\ \A n \in 1..L : s[n] \in Sections
  OBVIOUS
<1>4. s # <<>> => L # 0
  OBVIOUS
<1> HIDE DEF F, L
<1>5. F[0] = <<>> /\ \A n \in 1..L : F[n] = F[n - 1] \o InOrder(Tree(s[n]) \ ToSet(F[n - 1]))
  <2>1. F[0] = <<>>
    BY <1>2, <1>3 DEF ChooseStep
  <2>2. \A n \in 1..L : n \in 0..L /\ n # 0
    OBVIOUS
  <2> QED BY <1>2, <2>1, <2>2 DEF ChooseStep
<1> DEFINE InBlocks(n) == \A m \in 1..n : \A x, y \in Tree(s[m]) \ Taken(s, m - 1) :
                             x < y => Precedes(F[n], x, y)
           N == {n \in 0..L : /\ F[n] \in Seq(Sections) /\ IsInjective(F[n])
                              /\ ToSet(F[n]) = Taken(s, n)
                              /\ InBlocks(n)
                              /\ n # 0 => F[n] # <<>> /\ F[n][1] = s[1]}
<1>6. 0 \in N
  <2>1. F[0] \in Seq(Sections) /\ IsInjective(F[0]) /\ ToSet(F[0]) = {}
    <3>1. <<>> \in Seq(Sections) /\ DOMAIN <<>> = {}
      OBVIOUS
    <3> QED BY <1>5, <3>1 DEF IsInjective, ToSet
  <2>2. Taken(s, 0) = {}
    BY DEF Taken
  <2>3. InBlocks(0)
    OBVIOUS
  <2>4. 0 \in 0..L
    BY <1>3
  <2> QED BY <2>1, <2>2, <2>3, <2>4
<1>7. ASSUME NEW n \in 0..L, n \in N, n < L PROVE n + 1 \in N
  <2> DEFINE k == n + 1
             B == Tree(s[k]) \ ToSet(F[n])
             b == InOrder(B)
  <2>1. n \in Nat /\ k \in 1..L /\ k \in 0..L /\ k - 1 = n /\ k # 0 /\ s[k] \in Sections
    BY <1>3, <1>7
  <2>2. F[k] = F[n] \o b
    BY <1>5, <2>1
  <2>3. /\ b \in Seq(Sections) /\ IsInjective(b) /\ ToSet(b) = B
        /\ \A y, z \in B : y < z => Precedes(b, y, z)
    BY <2>1, AddedIs
  <2>4. /\ F[n] \in Seq(Sections) /\ IsInjective(F[n])
        /\ ToSet(F[n]) = Taken(s, n)
        /\ InBlocks(n)
        /\ n # 0 => F[n] # <<>> /\ F[n][1] = s[1]
    BY <1>7
  <2>5. ToSet(F[n]) \cap B = {}
    OBVIOUS
  <2>6. B = Tree(s[k]) \ Taken(s, n)
    BY <2>4
  <2>7. Taken(s, k) = Taken(s, n) \cup Tree(s[k])
    <3>1. 1..k = 1..n \cup {k}
      BY <2>1
    <3> HIDE DEF k
    <3> QED BY <3>1 DEF Taken
  <2>8. s[1] \in Tree(s[1]) /\ \A y \in Tree(s[1]) : s[1] <= y /\ y \in Nat /\ s[1] \in Nat
    <3>1. s[1] \in Sections /\ Sections \subseteq Nat
      BY <1>3, <2>1, SectionsAre
    <3> QED BY <3>1, TreesAre
  <2> HIDE DEF k, B, b
  <2>9. /\ F[n] \o b \in Seq(Sections) /\ ToSet(F[n] \o b) = ToSet(F[n]) \cup B
        /\ \A x, y : Precedes(F[n], x, y) \/ Precedes(b, x, y) => Precedes(F[n] \o b, x, y)
        /\ IsInjective(F[n] \o b)
        /\ F[n] # <<>> => F[n] \o b # <<>> /\ (F[n] \o b)[1] = F[n][1]
        /\ F[n] = <<>> => F[n] \o b = b
    BY <2>3, <2>4, <2>5, Concatenated
  <2>10. ToSet(F[k]) = Taken(s, k)
    BY <2>2, <2>4, <2>6, <2>7, <2>9
  <2>11. InBlocks(k)
    <3>1. ASSUME NEW m \in 1..k, NEW x \in Tree(s[m]) \ Taken(s, m - 1),
                 NEW y \in Tree(s[m]) \ Taken(s, m - 1), x < y
          PROVE  Precedes(F[k], x, y)
      <4>1. CASE m = k
        <5>1. x \in B /\ y \in B
          BY <2>1, <2>6, <4>1
        <5> QED BY <2>2, <2>3, <2>9, <3>1, <5>1
      <4>2. CASE m # k
        <5>1. m \in 1..n
          BY <2>1, <4>2 DEF k
        <5>2. Precedes(F[n], x, y)
          BY <2>4, <3>1, <5>1
        <5> QED BY <2>2, <2>9, <5>2
      <4> QED BY <4>1, <4>2
    <3> QED BY <3>1
  <2>12. F[k] # <<>> /\ F[k][1] = s[1]
    <3>1. CASE n # 0
      BY <2>2, <2>4, <2>9, <3>1
    <3>2. CASE n = 0
      <4>1. k = 1 /\ F[n] = <<>>
        BY <1>5, <3>2 DEF k
      <4>2. F[k] = b
        BY <2>2, <2>9, <4>1
      <4>3. B = Tree(s[1])
        <5>1. Taken(s, 0) = {}
          BY DEF Taken
        <5> QED BY <2>6, <3>2, <4>1, <5>1
      <4>4. PICK i \in DOMAIN b : b[i] = s[1]
        BY <2>3, <2>8, <4>3 DEF ToSet
      <4>5. B \in SUBSET Nat /\ IsFiniteSet(B)
        <5>1. s[1] \in Sections
          BY <2>1, <4>1
        <5> QED BY <2>8, <4>3, <5>1, TreesAre
      <4>6. /\ Cardinality(B) \in Nat /\ b \in [1..Cardinality(B) -> B]
            /\ \A i1, i2 \in 1..Cardinality(B) : i1 < i2 => b[i1] < b[i2]
        BY <4>5, InOrderIs DEF b
      <4>7. i \in 1..Cardinality(B) /\ 1 \in 1..Cardinality(B) /\ i \in Nat
        BY <4>4, <4>6
      <4>8. b[1] \in Nat /\ s[1] <= b[1] /\ s[1] \in Nat
        BY <2>8, <4>3, <4>6, <4>7
      <4>9. i = 1
        <5>1. 1 < i => b[1] < b[i]
          BY <4>6, <4>7
        <5>2. ~(1 < i)
          BY <4>4, <4>8, <5>1
        <5> QED BY <4>7, <5>2
      <4>10. b # <<>>
        BY <4>4
      <4> QED BY <4>2, <4>4, <4>9, <4>10
    <3> QED BY <3>1, <3>2
  <2>13. F[k] \in Seq(Sections) /\ IsInjective(F[k])
    BY <2>2, <2>9
  <2> HIDE DEF InBlocks
  <2>14. k \in N
    BY <2>1, <2>10, <2>11, <2>12, <2>13
  <2> QED BY <2>14 DEF k
<1>8. \A n \in 0..L : n \in N /\ n < L => n + 1 \in N
  BY <1>7, Zenon
<1> HIDE DEF N
<1>9. 0..L \subseteq N
  BY <1>3, <1>6, <1>8, Upto, Zenon
<1>10. L \in N
  BY <1>3, <1>9
<1> QED BY <1>1, <1>4, <1>10 DEF N, L

\* What is used when the nth section is shown
FillStep(chosen, clip, g, n) ==
    IF n = 0 THEN 0 ELSE g[n - 1] + ShownOf(g[n - 1], chosen[n], clip)

\* A section is shown whole, or not at all, or in part if it is longer than the budget; and
\* always within the budget.
LEMMA ShownIs ==
    ASSUME PageTypes, NEW i \in Sections, NEW clip \in Clips, NEW spent \in 0..budget
    PROVE  /\ ShownOf(spent, i, clip) \in Nat /\ spent + ShownOf(spent, i, clip) \in 0..budget
           /\ ShownOf(spent, i, clip) <= chars[i]
           /\ \/ ShownOf(spent, i, clip) = 0
              \/ ShownOf(spent, i, clip) = chars[i]
              \/ ShownOf(spent, i, clip) > 0 /\ chars[i] > budget
           /\ spent = 0 => ShownOf(spent, i, clip) > 0
<1>1. chars[i] \in Nat \ {0} /\ budget \in Nat \ {0}
  BY SectionsAre DEF PageTypes
<1>2. clip \in 1..budget
  BY DEF Clips
<1> DEFINE c == chars[i]
           s == ShownOf(spent, i, clip)
<1>3. s = IF spent + c <= budget THEN c ELSE IF spent = 0 THEN clip ELSE 0
  BY DEF ShownOf
<1>4. c \in Nat \ {0}
  BY <1>1
<1> HIDE DEF s, c
<1>5. CASE spent + c <= budget
  BY <1>1, <1>3, <1>4, <1>5 DEF s, c
<1>6. CASE ~(spent + c <= budget) /\ spent = 0
  BY <1>1, <1>2, <1>3, <1>4, <1>6 DEF s, c
<1>7. CASE ~(spent + c <= budget) /\ spent # 0
  BY <1>1, <1>3, <1>4, <1>7 DEF s, c
<1> QED BY <1>5, <1>6, <1>7

\* No more is spent than the budget.
LEMMA FilledIs ==
    ASSUME PageTypes, NEW chosen \in Seq(Sections), NEW clip \in Clips
    PROVE  /\ Filled(chosen, clip) \in [0..Len(chosen) -> 0..budget]
           /\ Filled(chosen, clip)[0] = 0
<1> DEFINE L == Len(chosen)
           step == [n \in 1..L |-> [x \in 0..budget |-> x + ShownOf(x, chosen[n], clip)]]
           F == CHOOSE g : g = [n \in 0..L |-> FillStep(chosen, clip, g, n)]
<1>1. L \in Nat /\ (\A n \in 1..L : chosen[n] \in Sections) /\ budget \in Nat
  BY DEF PageTypes
<1>2. Filled(chosen, clip) = F
  BY DEF Filled, FillStep
<1>3. \A n \in 1..L : \A x \in 0..budget : x + ShownOf(x, chosen[n], clip) \in 0..budget
  BY <1>1, ShownIs
<1>4. step \in [1..L -> [0..budget -> 0..budget]]
  BY <1>3
<1>5. PICK g : g \in Runs(L, 0..budget, 0, step)
  <2>1. 0 \in 0..budget
    BY <1>1
  <2> HIDE DEF step, L
  <2>2. Runs(L, 0..budget, 0, step) # {}
    BY <1>1, <1>4, <2>1, RunsExist
  <2> QED BY <2>2
<1>6. /\ g \in [0..L -> 0..budget] /\ g[0] = 0
      /\ \A n \in 1..L : g[n] = g[n - 1] + ShownOf(g[n - 1], chosen[n], clip)
  <2>1. g \in [0..L -> 0..budget] /\ g[0] = 0 /\ \A n \in 1..L : g[n] = step[n][g[n - 1]]
    BY <1>5 DEF Runs
  <2>2. \A n \in 1..L : n - 1 \in 0..L
    BY <1>1
  <2>3. \A n \in 1..L : g[n - 1] \in 0..budget
    BY <2>1, <2>2
  <2> QED BY <2>1, <2>3
<1>7. g = [n \in 0..L |-> FillStep(chosen, clip, g, n)]
  <2>1. \A n \in 0..L : g[n] = FillStep(chosen, clip, g, n)
    <3>1. \A n \in 0..L : n # 0 => n \in 1..L
      OBVIOUS
    <3> QED BY <1>6, <3>1 DEF FillStep
  <2> QED BY <1>6, <2>1
<1>8. F = [n \in 0..L |-> FillStep(chosen, clip, F, n)]
  BY <1>7
<1> HIDE DEF F, L, step
<1>9. F[0] = 0 /\ \A n \in 1..L : F[n] = F[n - 1] + ShownOf(F[n - 1], chosen[n], clip)
  <2>1. \A n \in 1..L : n \in 0..L /\ n # 0
    OBVIOUS
  <2>2. 0 \in 0..L
    BY <1>1
  <2> QED BY <1>8, <2>1, <2>2 DEF FillStep
<1> DEFINE N == {n \in 0..L : F[n] \in 0..budget}
<1>10. 0 \in N
  BY <1>1, <1>9
<1>11. ASSUME NEW n \in 0..L, n \in N, n < L PROVE n + 1 \in N
  <2>1. n + 1 \in 1..L /\ n + 1 \in 0..L /\ (n + 1) - 1 = n
    BY <1>1, <1>11
  <2>2. F[n + 1] = F[n] + ShownOf(F[n], chosen[n + 1], clip)
    BY <1>9, <2>1
  <2>3. F[n + 1] \in 0..budget
    BY <1>3, <1>11, <2>1, <2>2
  <2> QED BY <2>1, <2>3
<1>12. \A n \in 0..L : n \in N /\ n < L => n + 1 \in N
  BY <1>11, Zenon
<1> HIDE DEF N
<1>13. 0..L \subseteq N
  BY <1>1, <1>10, <1>12, Upto, Zenon
<1>14. \A n \in 0..L : F[n] \in 0..budget
  BY <1>13 DEF N
<1>15. F \in [0..L -> 0..budget]
  <2>1. F = [n \in 0..L |-> F[n]]
    BY <1>8
  <2> QED BY <1>14, <2>1
<1> QED BY <1>2, <1>9, <1>15 DEF L

\* The elements of s at the places R, as they come
Selected(s, R) == [n \in DOMAIN InOrder(R) |-> s[InOrder(R)[n]]]

\* Of a sequence without repetition, what is at some places, in the same order.
LEMMA SelectedIs ==
    ASSUME NEW S, NEW s \in Seq(S), NEW R \in SUBSET (DOMAIN s), IsInjective(s)
    PROVE  /\ Selected(s, R) \in Seq(S) /\ IsInjective(Selected(s, R))
           /\ ToSet(Selected(s, R)) = {s[n] : n \in R}
           /\ \A m, n \in R : m < n => Precedes(Selected(s, R), s[m], s[n])
<1> DEFINE o == InOrder(R)
           c == Cardinality(R)
           a == Selected(s, R)
<1>1. DOMAIN s = 1..Len(s) /\ Len(s) \in Nat /\ \A n \in DOMAIN s : s[n] \in S
  OBVIOUS
<1>2. R \in SUBSET Nat /\ IsFiniteSet(R)
  <2>1. IsFiniteSet(1..Len(s))
    BY <1>1, FS_Interval
  <2>2. R \in SUBSET (1..Len(s))
    BY <1>1
  <2>3. IsFiniteSet(R)
    BY <2>1, <2>2, FS_Subset
  <2> QED BY <2>2, <2>3
<1>3. /\ c \in Nat /\ o \in [1..c -> R] /\ \A m, n \in 1..c : m < n => o[m] < o[n]
      /\ \A i \in R : \E n \in 1..c : o[n] = i
  BY <1>2, InOrderIs
<1>4. IsInjective(o) /\ \A x, y \in R : x < y => Precedes(o, x, y)
  BY <1>2, InOrderSeq
<1> HIDE DEF o, c
<1>5. a = [n \in 1..c |-> s[o[n]]]
  BY <1>3 DEF Selected, o
<1>6. \A n \in 1..c : o[n] \in R /\ o[n] \in DOMAIN s
  BY <1>3
<1>7. a \in [1..c -> S]
  BY <1>1, <1>5, <1>6
<1>8. a \in Seq(S) /\ DOMAIN a = 1..c
  BY <1>3, <1>7
<1> HIDE DEF a
<1>9. IsInjective(a)
  <2>1. ASSUME NEW m \in 1..c, NEW n \in 1..c, a[m] = a[n] PROVE m = n
    <3>1. s[o[m]] = s[o[n]]
      BY <1>5, <2>1
    <3>2. o[m] = o[n]
      BY <1>6, <3>1 DEF IsInjective
    <3> QED BY <1>3, <1>4, <3>2 DEF IsInjective
  <2> QED BY <1>8, <2>1 DEF IsInjective
<1>10. ToSet(a) = {s[n] : n \in R}
  <2>1. \A x : x \in ToSet(a) <=> \E n \in 1..c : s[o[n]] = x
    BY <1>5, <1>8 DEF ToSet
  <2>2. \A x : x \in {s[n] : n \in R} <=> \E n \in 1..c : s[o[n]] = x
    BY <1>3, <1>6
  <2> QED BY <2>1, <2>2
<1>11. ASSUME NEW m \in R, NEW n \in R, m < n PROVE Precedes(a, s[m], s[n])
  <2>1. PICK i \in 1..c, j \in 1..c : i < j /\ o[i] = m /\ o[j] = n
    BY <1>3, <1>4, <1>11 DEF Precedes
  <2>2. a[i] = s[m] /\ a[j] = s[n]
    BY <1>5, <2>1
  <2> QED BY <1>8, <2>1, <2>2 DEF Precedes
<1> QED BY <1>8, <1>9, <1>10, <1>11 DEF a

\* What an answer has had of the page: no more of a place than there is
HadTypes == had \in [Places -> Nat] /\ \A i \in Places : had[i] <= chars[i]
\* It has had all of the section, or all that is shown of a section longer than the budget
Had(i) == had[i] = chars[i] \/ (had[i] > 0 /\ chars[i] > budget)

\* What remains of a focused read comes later in what was chosen, and the rest was shown.
LEMMA FocusedIs ==
    ASSUME PageTypes, HadTypes, NEW chosen \in Seq(Sections), IsInjective(chosen),
           Focused(chosen), UNCHANGED pageRead
    PROVE  /\ HadTypes' /\ \A i \in Places : had[i] <= had'[i]
           /\ asked' \in Seq(Sections) /\ IsInjective(asked') /\ ToSet(asked') \subseteq ToSet(chosen)
           /\ \A x, y \in ToSet(asked') : Precedes(chosen, x, y) => Precedes(asked', x, y)
           /\ chosen # <<>> => chosen[1] \notin ToSet(asked')
           /\ \A i \in ToSet(chosen) \ ToSet(asked') : Had(i)'
           /\ returned' \in 0..budget
           /\ ~truncated' => \A i \in ToSet(chosen) : had'[i] = chars[i]
<1> DEFINE L == Len(chosen)
<1>1. PICK clip \in Clips :
        LET spent == Filled(chosen, clip)
            shown == [n \in DOMAIN chosen |-> ShownOf(spent[n - 1], chosen[n], clip)]
            remaining == InOrder({n \in DOMAIN chosen : shown[n] = 0})
        IN  /\ had' = [i \in Places |->
                         Max({had[i]} \cup {shown[n] : n \in {m \in DOMAIN chosen : chosen[m] = i}})]
            /\ asked' = [n \in DOMAIN remaining |-> chosen[remaining[n]]]
            /\ returned' = spent[Len(chosen)]
            /\ truncated' = \E n \in DOMAIN chosen : shown[n] < chars[chosen[n]]
  BY DEF Focused
<1> DEFINE spent == Filled(chosen, clip)
           shown == [n \in DOMAIN chosen |-> ShownOf(spent[n - 1], chosen[n], clip)]
           R == {n \in DOMAIN chosen : shown[n] = 0}
           shownOf(i) == {had[i]} \cup {shown[n] : n \in {m \in DOMAIN chosen : chosen[m] = i}}
<1>2. /\ had' = [i \in Places |-> Max(shownOf(i))]
      /\ asked' = Selected(chosen, R)
      /\ returned' = spent[L]
      /\ truncated' = \E n \in DOMAIN chosen : shown[n] < chars[chosen[n]]
  BY <1>1, Zenon DEF Selected
<1>3. L \in Nat /\ DOMAIN chosen = 1..L /\ \A n \in 1..L : chosen[n] \in Sections
  OBVIOUS
<1>4. spent \in [0..L -> 0..budget] /\ spent[0] = 0
  BY FilledIs
<1>5. /\ Sections \subseteq Places /\ Places \subseteq Nat
      /\ \A i \in Sections : chars[i] \in Nat \ {0}
      /\ \A i \in Places : chars[i] \in Nat
  BY SectionsAre DEF PageTypes
<1>6. budget \in Nat
  BY DEF PageTypes
<1> HIDE DEF spent, L
<1>7. ASSUME NEW n \in 1..L
      PROVE  /\ shown[n] \in Nat /\ shown[n] <= chars[chosen[n]]
             /\ \/ shown[n] = 0
                \/ shown[n] = chars[chosen[n]]
                \/ shown[n] > 0 /\ chars[chosen[n]] > budget
             /\ n = 1 => shown[n] > 0
  <2>1. chosen[n] \in Sections /\ n - 1 \in 0..L
    BY <1>3
  <2>2. spent[n - 1] \in 0..budget /\ (n = 1 => spent[n - 1] = 0)
    BY <1>4, <2>1
  <2>3. shown[n] = ShownOf(spent[n - 1], chosen[n], clip)
    BY <1>3
  <2> HIDE DEF shown
  <2> QED BY <2>1, <2>2, <2>3, ShownIs
<1> HIDE DEF shown
<1>8. ASSUME NEW i \in Places
      PROVE  /\ shownOf(i) \in SUBSET Nat /\ had[i] \in shownOf(i) /\ chars[i] \in Nat
             /\ \A x \in shownOf(i) : x <= chars[i]
  <2>1. had[i] \in Nat /\ had[i] <= chars[i] /\ chars[i] \in Nat
    BY <1>5 DEF HadTypes
  <2>2. ASSUME NEW n \in DOMAIN chosen, chosen[n] = i PROVE shown[n] \in Nat /\ shown[n] <= chars[i]
    BY <1>3, <1>7, <2>2
  <2> QED BY <2>1, <2>2
<1>9. ASSUME NEW i \in Places
      PROVE  had'[i] \in shownOf(i) /\ \A x \in shownOf(i) : x <= had'[i]
  <2> HIDE DEF shownOf
  <2>1. Max(shownOf(i)) \in shownOf(i) /\ \A x \in shownOf(i) : x <= Max(shownOf(i))
    BY <1>8, MaxIs
  <2> QED BY <1>2, <2>1
<1>10. Places' = Places /\ Sections' = Sections /\ chars' = chars /\ budget' = budget
  BY DEF pageRead, Places, Headings, Sections
<1>11. ASSUME NEW i \in Places PROVE had'[i] \in Nat /\ had'[i] <= chars[i] /\ had[i] <= had'[i]
  <2> HIDE DEF shownOf
  <2> QED BY <1>8, <1>9
<1>12. HadTypes'
  <2>1. DOMAIN had' = Places /\ had' = [i \in Places |-> had'[i]]
    BY <1>2
  <2> QED BY <1>10, <1>11, <2>1 DEF HadTypes
<1>13. ASSUME NEW n \in 1..L
       PROVE  shown[n] <= had'[chosen[n]] /\ had'[chosen[n]] \in Nat /\ chars[chosen[n]] \in Nat
              /\ had'[chosen[n]] <= chars[chosen[n]]
  <2>1. chosen[n] \in Places
    BY <1>3, <1>5
  <2>2. shown[n] \in shownOf(chosen[n])
    BY <1>3
  <2> HIDE DEF shownOf
  <2> QED BY <1>5, <1>9, <1>11, <2>1, <2>2
<1> HIDE DEF shownOf
<1>14. R \in SUBSET (DOMAIN chosen)
  OBVIOUS
<1>15. /\ asked' \in Seq(Sections) /\ IsInjective(asked')
       /\ ToSet(asked') = {chosen[n] : n \in R}
       /\ \A m, n \in R : m < n => Precedes(asked', chosen[m], chosen[n])
  <2> HIDE DEF R
  <2> QED BY <1>2, <1>14, SelectedIs
<1>16. ToSet(asked') \subseteq ToSet(chosen)
  BY <1>14, <1>15 DEF ToSet
<1>17. ASSUME NEW x \in ToSet(asked'), NEW y \in ToSet(asked'), Precedes(chosen, x, y)
       PROVE  Precedes(asked', x, y)
  <2>1. PICK m \in R, n \in R : chosen[m] = x /\ chosen[n] = y
    BY <1>15
  <2>2. PICK k \in DOMAIN chosen, l \in DOMAIN chosen : k < l /\ chosen[k] = x /\ chosen[l] = y
    BY <1>17 DEF Precedes
  <2>3. k = m /\ l = n
    BY <1>14, <2>1, <2>2 DEF IsInjective
  <2> QED BY <1>15, <2>1, <2>2, <2>3
<1>18. ASSUME chosen # <<>> PROVE chosen[1] \notin ToSet(asked')
  <2>1. 1 \in 1..L
    BY <1>3, <1>18 DEF L
  <2>2. shown[1] # 0
    BY <1>7, <2>1
  <2>3. \A n \in R : chosen[n] # chosen[1]
    BY <1>3, <2>1, <2>2 DEF IsInjective
  <2> QED BY <1>15, <2>3
<1>19. ASSUME NEW i \in ToSet(chosen) \ ToSet(asked') PROVE Had(i)'
  <2>1. PICK n \in 1..L : chosen[n] = i
    BY <1>3 DEF ToSet
  <2>2. shown[n] # 0
    BY <1>3, <1>15, <2>1
  <2>3. \/ shown[n] = chars[i]
        \/ shown[n] > 0 /\ chars[i] > budget
    BY <1>7, <2>1, <2>2
  <2>4. shown[n] <= had'[i] /\ had'[i] \in Nat /\ chars[i] \in Nat /\ had'[i] <= chars[i] /\ shown[n] \in Nat
    BY <1>7, <1>13, <2>1
  <2>5. had'[i] = chars[i] \/ (had'[i] > 0 /\ chars[i] > budget)
    BY <2>3, <2>4
  <2> QED BY <1>10, <2>5 DEF Had
<1>20. returned' \in 0..budget
  BY <1>2, <1>3, <1>4
<1>21. ASSUME ~truncated', NEW i \in ToSet(chosen) PROVE had'[i] = chars[i]
  <2>1. PICK n \in 1..L : chosen[n] = i
    BY <1>3 DEF ToSet
  <2>2. ~(\E k \in DOMAIN chosen : shown[k] < chars[chosen[k]])
    BY <1>2, <1>21, Zenon
  <2>3. ~(shown[n] < chars[i])
    BY <1>3, <2>1, <2>2
  <2>4. shown[n] <= had'[i] /\ had'[i] \in Nat /\ chars[i] \in Nat /\ had'[i] <= chars[i] /\ shown[n] \in Nat
    BY <1>7, <1>13, <2>1
  <2> QED BY <2>3, <2>4
<1> QED BY <1>11, <1>12, <1>15, <1>16, <1>17, <1>18, <1>19, <1>20, <1>21

\* The least and the greatest of two
LEMMA OfTwo ==
    ASSUME NEW a \in Int, NEW b \in Int
    PROVE  /\ Min({a, b}) = IF a <= b THEN a ELSE b
           /\ Max({a, b}) = IF a <= b THEN b ELSE a
<1>1. Min({a, b}) \in {a, b} /\ \A y \in {a, b} : Min({a, b}) <= y
  <2>1. \E x \in {a, b} : \A y \in {a, b} : x <= y
    OBVIOUS
  <2> QED BY <2>1 DEF Min
<1>2. Max({a, b}) \in {a, b} /\ \A y \in {a, b} : Max({a, b}) >= y
  <2>1. \E x \in {a, b} : \A y \in {a, b} : x >= y
    OBVIOUS
  <2> QED BY <2>1 DEF Max
<1>3. Min({a, b}) = IF a <= b THEN a ELSE b
  BY <1>1
<1>4. Max({a, b}) = IF a <= b THEN b ELSE a
  BY <1>2
<1> QED BY <1>3, <1>4

\* A plain read has had all of the sections that end before the clip, and the others remain.
LEMMA PlainIs ==
    ASSUME PageTypes, Plain, UNCHANGED pageRead
    PROVE  /\ HadTypes'
           /\ asked' \in Seq(Sections) /\ IsInjective(asked')
           /\ \A i \in Sections \ ToSet(asked') : had'[i] = chars[i]
           /\ returned' \in 0..budget
           /\ ~truncated' => \A i \in Sections : had'[i] = chars[i]
<1>1. PICK clip \in IF Total <= budget THEN {Total} ELSE Clips :
        /\ had' = [i \in Places |-> Max({0, Min({chars[i], clip - Begins[i]})})]
        /\ asked' = IF clip < Total THEN RemainingAfter(clip) ELSE <<>>
        /\ returned' = clip
        /\ truncated' = (clip < Total)
  BY DEF Plain
<1>2. /\ Total \in Nat
      /\ \A i \in Places : /\ Begins[i] \in Nat /\ Begins[i + 1] = Begins[i] + chars[i]
                           /\ Begins[i + 1] <= Total
  BY BeginsIs
<1>3. /\ Sections \subseteq Places /\ Places \subseteq Nat /\ IsFiniteSet(Sections)
      /\ \A i \in Places : chars[i] \in Nat
  BY SectionsAre DEF PageTypes
<1>4. clip \in 0..budget /\ budget \in Nat
  <2>1. budget \in Nat
    BY DEF PageTypes
  <2>2. CASE Total <= budget
    BY <1>2, <2>1, <2>2
  <2>3. CASE ~(Total <= budget)
    <3>1. clip \in 1..budget
      BY <2>3 DEF Clips
    <3> QED BY <2>1, <3>1
  <2> QED BY <2>1, <2>2, <2>3
<1>5. ASSUME NEW i \in Places
      PROVE  /\ had'[i] \in Nat /\ had'[i] <= chars[i]
             /\ Begins[i + 1] <= clip => had'[i] = chars[i]
  <2> DEFINE c == chars[i]
             r == clip - Begins[i]
  <2>1. c \in Nat /\ r \in Int
    BY <1>2, <1>3, <1>4
  <2>2. Begins[i + 1] <= clip <=> c <= r
    BY <1>2, <1>3, <1>4
  <2>3. had'[i] = Max({0, Min({c, r})})
    BY <1>1
  <2> HIDE DEF c, r
  <2>4. Min({c, r}) = IF c <= r THEN c ELSE r
    BY <2>1, OfTwo
  <2>5. Min({c, r}) \in Int
    BY <2>1, <2>4
  <2>6. Max({0, Min({c, r})}) = IF 0 <= Min({c, r}) THEN Min({c, r}) ELSE 0
    BY <2>5, OfTwo
  <2>7. had'[i] \in Nat /\ had'[i] <= c /\ (c <= r => had'[i] = c)
    BY <2>1, <2>3, <2>4, <2>6
  <2> QED BY <2>2, <2>7 DEF c
<1>6. HadTypes'
  <2>1. Places' = Places /\ chars' = chars
    BY DEF pageRead, Places, Headings
  <2>2. had' = [i \in Places |-> had'[i]]
    BY <1>1
  <2>3. had' \in [Places -> Nat]
    BY <1>5, <2>2
  <2> QED BY <1>5, <2>1, <2>3 DEF HadTypes
<1>7. CASE clip < Total
  <2> DEFINE S == {i \in Sections : Begins[i + 1] > clip}
  <2>1. asked' = InOrder(S)
    BY <1>1, <1>7 DEF RemainingAfter
  <2>2. S \in SUBSET Sections
    OBVIOUS
  <2>3. \A i \in Sections \ S : had'[i] = chars[i]
    <3> SUFFICES ASSUME NEW i \in Sections, ~(Begins[i + 1] > clip) PROVE had'[i] = chars[i]
      OBVIOUS
    <3>1. i \in Places /\ Begins[i + 1] \in Nat /\ clip \in Nat
      BY <1>2, <1>3, <1>4
    <3> QED BY <1>5, <3>1
  <2> HIDE DEF S
  <2>4. S \in SUBSET Nat /\ IsFiniteSet(S)
    BY <1>3, <2>2, FS_Subset
  <2>5. /\ Cardinality(S) \in Nat /\ InOrder(S) \in [1..Cardinality(S) -> S]
        /\ ToSet(InOrder(S)) = S /\ IsInjective(InOrder(S))
    BY <2>4, InOrderIs, InOrderSeq
  <2>6. InOrder(S) \in [1..Cardinality(S) -> Sections]
    BY <2>2, <2>5
  <2>7. InOrder(S) \in Seq(Sections)
    BY <2>5, <2>6
  <2>8. truncated'
    BY <1>1, <1>7
  <2> QED BY <1>1, <1>4, <1>6, <2>1, <2>3, <2>5, <2>7, <2>8
<1>8. CASE ~(clip < Total)
  <2>1. asked' = <<>> /\ <<>> \in Seq(Sections) /\ DOMAIN <<>> = {}
    BY <1>1, <1>8
  <2>2. \A i \in Sections : had'[i] = chars[i]
    <3> TAKE i \in Sections
    <3>1. i \in Places /\ Begins[i + 1] <= Total /\ Begins[i + 1] \in Nat
      BY <1>2, <1>3
    <3>2. Begins[i + 1] <= clip
      BY <1>2, <1>4, <1>8, <3>1
    <3> QED BY <1>5, <3>1, <3>2
  <2>3. IsInjective(asked') /\ ToSet(asked') = {}
    BY <2>1 DEF IsInjective, ToSet
  <2> QED BY <1>1, <1>4, <1>6, <2>1, <2>2, <2>3
<1> QED BY <1>7, <1>8

-----------------------------------------------------------------------------
(* How often a reader asks *)

\* Of the pairs of numbers of S, those in order are half of all, and half of the diagonal.
LEMMA HalfOfThePairs ==
    ASSUME NEW S \in SUBSET Nat, IsFiniteSet(S)
    PROVE  /\ IsFiniteSet({p \in S \X S : p[1] <= p[2]})
           /\ 2 * Cardinality({p \in S \X S : p[1] <= p[2]}) = Cardinality(S) * (Cardinality(S) + 1)
<1> DEFINE A == {p \in S \X S : p[1] <= p[2]}
           B == {p \in S \X S : p[2] <= p[1]}
           D == {p \in S \X S : p[1] = p[2]}
           c == Cardinality(S)
<1>1. c \in Nat
  BY FS_CardinalityType
<1>2. IsFiniteSet(S \X S) /\ Cardinality(S \X S) = c * c
  BY FS_Product
<1>3. A \in SUBSET (S \X S) /\ B \in SUBSET (S \X S) /\ D \in SUBSET (S \X S)
  OBVIOUS
<1>4. A \cup B = S \X S /\ A \cap B = D
  <2>1. \A p \in S \X S : p[1] \in Nat /\ p[2] \in Nat
    OBVIOUS
  <2>2. \A p \in S \X S : p \in A \/ p \in B
    BY <2>1
  <2>3. \A p \in S \X S : p \in A /\ p \in B <=> p \in D
    BY <2>1
  <2> QED BY <1>3, <2>2, <2>3
<1>5. IsFiniteSet(A) /\ Cardinality(A) \in Nat
  <2> HIDE DEF A
  <2> QED BY <1>2, <1>3, FS_Subset, FS_CardinalityType
<1>6. Cardinality(B) = Cardinality(A) /\ IsFiniteSet(B)
  <2> DEFINE f == [p \in A |-> <<p[2], p[1]>>]
  <2>1. f \in [A -> B]
    OBVIOUS
  <2>2. \A p, q \in A : f[p] = f[q] => p = q
    OBVIOUS
  <2>3. \A p \in B : <<p[2], p[1]>> \in A /\ f[<<p[2], p[1]>>] = p
    OBVIOUS
  <2> HIDE DEF f, A, B
  <2>4. f \in Bijection(A, B)
    BY <2>1, <2>2, <2>3 DEF Bijection, Injection, Surjection, IsInjective
  <2> QED BY <1>5, <2>4, FS_Bijection DEF ExistsBijection
<1>7. Cardinality(D) = c
  <2> DEFINE f == [x \in S |-> <<x, x>>]
  <2>1. f \in [S -> D]
    OBVIOUS
  <2>2. \A x, y \in S : f[x] = f[y] => x = y
    OBVIOUS
  <2>3. \A p \in D : p[1] \in S /\ f[p[1]] = p
    OBVIOUS
  <2> HIDE DEF f, D
  <2>4. f \in Bijection(S, D)
    BY <2>1, <2>2, <2>3 DEF Bijection, Injection, Surjection, IsInjective
  <2> QED BY <2>4, FS_Bijection DEF ExistsBijection
<1> DEFINE a == Cardinality(A)
<1>8. c * c = a + a - c
  <2> HIDE DEF A, B, D
  <2>1. Cardinality(A \cup B) = Cardinality(A) + Cardinality(B) - Cardinality(A \cap B)
    BY <1>5, <1>6, FS_Union
  <2> QED BY <1>2, <1>4, <1>6, <1>7, <2>1
<1>9. a \in Nat
  BY <1>5
<1> HIDE DEF a, c
<1>10. c * (c + 1) = c * c + c /\ c * c \in Nat
  BY <1>1
<1>11. 2 * a = c * (c + 1)
  BY <1>1, <1>8, <1>9, <1>10
<1> QED BY <1>5, <1>11 DEF a, c

\* A section asked for that is not under one asked for before
Leads(s, x) == \E n \in 1..Len(s) : s[n] = x /\ x \notin Taken(s, n - 1)
\* What a reader that asks for s may still be given, and what for
Pairs(s) == {p \in Sections \X Sections : p[2] \in Tree(p[1]) /\ Leads(s, p[1])}

\* A tree comes after its root on the page, so that at most half of all pairs are left.
LEMMA PairsAreBounded ==
    ASSUME PageTypes, NEW s
    PROVE  /\ IsFiniteSet(Pairs(s)) /\ Cardinality(Pairs(s)) \in Nat
           /\ 2 * Cardinality(Pairs(s)) <= Cardinality(Sections) * (Cardinality(Sections) + 1)
           /\ Cardinality(Sections) * (Cardinality(Sections) + 1) \in Nat
<1> DEFINE A == {p \in Sections \X Sections : p[1] <= p[2]}
           c == Cardinality(Sections)
<1>1. Sections \subseteq Nat /\ IsFiniteSet(Sections) /\ c \in Nat
  BY SectionsAre
<1>2. IsFiniteSet(A) /\ 2 * Cardinality(A) = c * (c + 1)
  BY <1>1, HalfOfThePairs
<1>3. Pairs(s) \in SUBSET A
  <2>1. \A p \in Sections \X Sections : p[2] \in Tree(p[1]) => p[1] <= p[2]
    BY TreesAre
  <2> QED BY <2>1 DEF Pairs
<1> HIDE DEF A
<1>4. /\ IsFiniteSet(Pairs(s)) /\ Cardinality(Pairs(s)) \in Nat /\ Cardinality(A) \in Nat
      /\ Cardinality(Pairs(s)) <= Cardinality(A)
  BY <1>2, <1>3, FS_Subset, FS_CardinalityType
<1> DEFINE a == Cardinality(A)
           b == Cardinality(Pairs(s))
           d == c * (c + 1)
<1>5. a \in Nat /\ b \in Nat /\ b <= a /\ 2 * a = d
  BY <1>2, <1>4
<1> HIDE DEF a, b, d
<1>6. 2 * b <= d /\ d \in Nat
  BY <1>5
<1> QED BY <1>4, <1>6 DEF b, d

\* The place of the first of s that covers x
FirstOver(s, x) == Min({n \in 1..Len(s) : x \in Tree(s[n])})

\* The first of s that covers a section is not covered before.
LEMMA FirstOverIs ==
    ASSUME PageTypes, NEW s \in Seq(Sections), NEW x \in Taken(s, Len(s))
    PROVE  /\ FirstOver(s, x) \in 1..Len(s) /\ s[FirstOver(s, x)] \in Sections
           /\ x \in Tree(s[FirstOver(s, x)]) \ Taken(s, FirstOver(s, x) - 1)
           /\ Leads(s, s[FirstOver(s, x)])
<1> DEFINE S == {n \in 1..Len(s) : x \in Tree(s[n])}
           m == FirstOver(s, x)
<1>1. S \in SUBSET Nat /\ S # {}
  BY DEF Taken
<1>2. m \in S /\ \A n \in S : m <= n
  <2> HIDE DEF S
  <2>1. m = Min(S)
    BY DEF FirstOver, S
  <2> QED BY <1>1, <2>1, MinIsLeast
<1> HIDE DEF m
<1>3. m \in 1..Len(s) /\ m \in Nat /\ s[m] \in Sections /\ x \in Tree(s[m])
  BY <1>2
<1>4. ASSUME NEW l \in 1..(m - 1) PROVE x \notin Tree(s[l])
  <2>1. l \in 1..Len(s) /\ ~(m <= l)
    BY <1>3
  <2>2. l \notin S
    BY <1>2, <2>1
  <2> QED BY <2>1, <2>2
<1>5. x \notin Taken(s, m - 1)
  BY <1>4 DEF Taken
<1>6. s[m] \notin Taken(s, m - 1)
  <2> SUFFICES ASSUME NEW l \in 1..(m - 1), s[m] \in Tree(s[l]) PROVE FALSE
    BY DEF Taken
  <2>1. s[l] \in Sections
    BY <1>3
  <2>2. x \in Tree(s[l])
    BY <1>3, <2>1, TreesAre
  <2> QED BY <1>4, <2>2
<1>7. Leads(s, s[m])
  BY <1>3, <1>6 DEF Leads
<1> QED BY <1>3, <1>5, <1>7 DEF m

\* After a read of what s asks for, less may be asked for.
LEMMA FewerPairs ==
    ASSUME PageTypes, NEW s \in Seq(Sections), s # <<>>, NEW t \in Seq(Sections), IsInjective(t),
           ToSet(t) \subseteq ToSet(Matched(s)) \ {s[1]},
           \A x, y \in ToSet(t) : Precedes(Matched(s), x, y) => Precedes(t, x, y)
    PROVE  Cardinality(Pairs(t)) < Cardinality(Pairs(s))
<1> DEFINE lead(x) == s[FirstOver(s, x)]
           first == <<s[1], s[1]>>
           f == [p \in Pairs(t) |-> <<lead(p[1]), p[2]>>]
<1>1. /\ ToSet(Matched(s)) = Taken(s, Len(s))
      /\ \A m \in 1..Len(s) : \A x, y \in Tree(s[m]) \ Taken(s, m - 1) :
            x < y => Precedes(Matched(s), x, y)
  BY MatchedIs
<1>2. /\ DOMAIN t = 1..Len(t) /\ Len(t) \in Nat /\ 1 \in 1..Len(s)
      /\ \A n \in 1..Len(s) : s[n] \in Sections
  OBVIOUS
<1>3. s[1] \in Sections /\ Sections \subseteq Nat
  BY <1>2, SectionsAre
<1>4. first \in Pairs(s)
  <2>1. s[1] \in Tree(s[1])
    BY <1>3, TreesAre
  <2>2. Taken(s, 1 - 1) = {}
    BY DEF Taken
  <2>3. Leads(s, s[1])
    BY <1>2, <2>2 DEF Leads
  <2> QED BY <1>3, <2>1, <2>3 DEF Pairs
<1>5. ASSUME NEW p \in Pairs(t)
      PROVE  /\ p[1] \in Sections /\ p[2] \in Sections /\ p = <<p[1], p[2]>> /\ p[2] \in Tree(p[1])
             /\ \E n \in 1..Len(t) : t[n] = p[1] /\ p[1] \notin Taken(t, n - 1)
             /\ p[1] \in ToSet(t) /\ p[1] \in Taken(s, Len(s)) /\ p[1] # s[1]
  <2>1. /\ p[1] \in Sections /\ p[2] \in Sections /\ p = <<p[1], p[2]>> /\ p[2] \in Tree(p[1])
        /\ Leads(t, p[1])
    BY DEF Pairs
  <2>2. PICK n \in 1..Len(t) : t[n] = p[1] /\ p[1] \notin Taken(t, n - 1)
    BY <2>1 DEF Leads
  <2>3. p[1] \in ToSet(t)
    BY <1>2, <2>2 DEF ToSet
  <2> QED BY <1>1, <2>1, <2>2, <2>3
<1>6. ASSUME NEW p \in Pairs(t)
      PROVE  /\ FirstOver(s, p[1]) \in 1..Len(s) /\ lead(p[1]) \in Sections
             /\ p[1] \in Tree(lead(p[1])) \ Taken(s, FirstOver(s, p[1]) - 1)
             /\ Leads(s, lead(p[1]))
  BY <1>5, FirstOverIs
<1>7. ASSUME NEW p \in Pairs(t) PROVE f[p] \in Pairs(s) \ {first}
  <2>1. p[2] \in Tree(lead(p[1]))
    BY <1>5, <1>6, TreesAre
  <2>2. f[p] \in Pairs(s)
    BY <1>5, <1>6, <2>1 DEF Pairs
  <2>3. ASSUME lead(p[1]) = s[1], p[2] = s[1] PROVE FALSE
    <3>1. s[1] <= p[1]
      BY <1>3, <1>6, <2>3, TreesAre
    <3>2. p[1] <= s[1]
      BY <1>5, <2>3, TreesAre
    <3>3. p[1] = s[1]
      BY <1>3, <1>5, <3>1, <3>2
    <3> QED BY <1>5, <3>3
  <2> QED BY <2>2, <2>3
<1>8. ASSUME NEW p \in Pairs(t), NEW q \in Pairs(t), lead(p[1]) = lead(q[1]), p[2] = q[2], p[1] < q[1]
      PROVE  FALSE
  <2> DEFINE x == p[1]
             y == q[1]
             m == FirstOver(s, x)
             k == FirstOver(s, y)
  <2>1. /\ x \in Sections /\ y \in Sections /\ x \in ToSet(t) /\ y \in ToSet(t)
        /\ p[2] \in Tree(x) \cap Tree(y) /\ x < y
    BY <1>5, <1>8
  <2>2. /\ m \in 1..Len(s) /\ x \in Tree(s[m]) \ Taken(s, m - 1)
        /\ k \in 1..Len(s) /\ y \in Tree(s[k]) \ Taken(s, k - 1)
        /\ s[m] = s[k]
    BY <1>6, <1>8
  <2> HIDE DEF x, y, m, k
  <2>3. ~(m < k) /\ ~(k < m)
    <3>1. ASSUME m < k PROVE FALSE
      <4>1. m \in 1..(k - 1) /\ y \in Tree(s[m])
        BY <2>2, <3>1
      <4> QED BY <2>2, <4>1 DEF Taken
    <3>2. ASSUME k < m PROVE FALSE
      <4>1. k \in 1..(m - 1) /\ x \in Tree(s[k])
        BY <2>2, <3>2
      <4> QED BY <2>2, <4>1 DEF Taken
    <3> QED BY <3>1, <3>2
  <2>4. m = k
    BY <2>2, <2>3
  <2>5. Precedes(Matched(s), x, y)
    BY <1>1, <2>1, <2>2, <2>4
  <2>6. Precedes(t, x, y)
    BY <2>1, <2>5
  <2>7. PICK n \in 1..Len(t) : t[n] = y /\ y \notin Taken(t, n - 1)
    BY <1>5 DEF y
  <2>8. PICK i \in 1..Len(t), j \in 1..Len(t) : i < j /\ t[i] = x /\ t[j] = y
    BY <1>2, <2>6 DEF Precedes
  <2>9. j = n
    BY <1>2, <2>7, <2>8 DEF IsInjective
  <2>10. i \in 1..(n - 1)
    BY <2>8, <2>9
  <2>11. y \in Tree(x)
    <3>1. x <= y
      BY <1>3, <2>1
    <3> QED BY <2>1, <3>1, TreesAre
  <2>12. y \in Taken(t, n - 1)
    BY <2>8, <2>10, <2>11 DEF Taken
  <2> QED BY <2>7, <2>12
<1>9. ASSUME NEW p \in Pairs(t), NEW q \in Pairs(t), f[p] = f[q] PROVE p = q
  <2>1. lead(p[1]) = lead(q[1]) /\ p[2] = q[2]
    <3>1. <<lead(p[1]), p[2]>> = <<lead(q[1]), q[2]>>
      BY <1>9
    <3> HIDE DEF lead
    <3> QED BY <3>1
  <2>2. ~(p[1] < q[1]) /\ ~(q[1] < p[1])
    BY <1>8, <2>1
  <2>3. p[1] \in Nat /\ q[1] \in Nat
    BY <1>3, <1>5
  <2>4. p[1] = q[1]
    BY <2>2, <2>3
  <2> QED BY <1>5, <2>1, <2>4
<1>10. f \in Injection(Pairs(t), Pairs(s) \ {first})
  <2>1. f \in [Pairs(t) -> Pairs(s) \ {first}]
    BY <1>7
  <2> HIDE DEF f
  <2> QED BY <1>9, <2>1 DEF Injection, IsInjective
<1>11. IsFiniteSet(Pairs(s)) /\ Cardinality(Pairs(s)) \in Nat /\ Cardinality(Pairs(t)) \in Nat
  BY PairsAreBounded
<1> HIDE DEF first, f
<1>12. IsFiniteSet(Pairs(s) \ {first}) /\ Cardinality(Pairs(s) \ {first}) = Cardinality(Pairs(s)) - 1
  BY <1>4, <1>11, FS_RemoveElement
<1>13. Cardinality(Pairs(t)) <= Cardinality(Pairs(s) \ {first})
  BY <1>10, <1>12, FS_Injection
<1> QED BY <1>11, <1>12, <1>13

-----------------------------------------------------------------------------
(* The reads of a client *)

\* No more reads than pairs, of which each has taken one away
Bounded == 2 * ((reads - 1) + Cardinality(Pairs(asked)))
               <= Cardinality(Sections) * (Cardinality(Sections) + 1)
\* All that was asked for was given, whole
Whole == \A i \in wanted : had[i] = chars[i]
\* What holds between two reads
ReadInv ==
    /\ PageTypes /\ HadTypes
    /\ wanted \in SUBSET Sections
    /\ reads \in Nat
    /\ asked \in Seq(Sections) /\ IsInjective(asked)
    /\ reads = 0 => asked = <<>>
    /\ reads > 0 => /\ returned \in 0..budget
                    /\ \A i \in wanted \ ToSet(asked) : Had(i)
                    /\ ~truncated /\ reads = 1 => Whole
                    /\ Bounded

\* Before the first read
LEMMA ReadInitIs == ReadInit => ReadInv
<1> SUFFICES ASSUME ReadInit PROVE ReadInv
  OBVIOUS
<1> USE DEF ReadInit
<1>1. PICK n \in 0..MaxHeadings : levels \in [1..n -> 1..MaxLevel]
  OBVIOUS
<1>2. MaxHeadings \in Nat /\ MaxLevel \in Nat /\ Budgets \subseteq Nat \ {0} /\ Lengths \subseteq Nat
  BY ReadAssumption
<1>3. n \in Nat /\ levels \in [1..n -> Nat]
  BY <1>1, <1>2
<1>4. chars \in [Places -> Nat] /\ \A i \in Headings : chars[i] # 0
  <2>1. chars \in [Places -> {0} \cup Lengths] /\ \A i \in Headings : chars[i] > 0
    OBVIOUS
  <2>2. {0} \cup Lengths \subseteq Nat
    BY <1>2
  <2>3. \A i \in Headings : chars[i] # 0
    BY <2>1
  <2> QED BY <2>1, <2>2, <2>3
<1>5. PageTypes
  BY <1>2, <1>3, <1>4 DEF PageTypes
<1>6. HadTypes
  BY <1>4 DEF HadTypes
<1>7. asked \in Seq(Sections) /\ IsInjective(asked)
  <2>1. asked = <<>> /\ <<>> \in Seq(Sections) /\ DOMAIN <<>> = {}
    OBVIOUS
  <2> QED BY <2>1 DEF IsInjective
<1>8. wanted \in SUBSET Sections /\ reads = 0 /\ asked = <<>>
  OBVIOUS
<1> QED BY <1>5, <1>6, <1>7, <1>8 DEF ReadInv

\* The page stays as it is while it is read.
LEMMA PageStays ==
    ASSUME UNCHANGED pageRead
    PROVE  /\ Sections' = Sections /\ Places' = Places /\ (PageTypes => PageTypes')
           /\ \A t : asked' = t => Pairs(asked)' = Pairs(t)
<1>1. levels' = levels /\ chars' = chars /\ blank' = blank /\ budget' = budget
  BY DEF pageRead
<1>2. Headings' = Headings /\ Places' = Places
  BY <1>1 DEF Headings, Places
<1>3. Sections' = Sections
  BY <1>1, <1>2 DEF Sections
<1>4. \A i : Above(i)' = Above(i)
  BY <1>1 DEF Above
<1>5. Number' = Number
  BY <1>2, <1>4 DEF Number
<1>6. Descendants' = Descendants
  BY <1>2, <1>5 DEF Descendants
<1>7. PageTypes => PageTypes'
  BY <1>1, <1>2 DEF PageTypes
<1>8. ASSUME NEW t, asked' = t PROVE Pairs(asked)' = Pairs(t)
  <2>1. \A x : Tree(x)' = Tree(x)
    BY <1>6 DEF Tree
  <2>2. \A n : Taken(asked, n)' = Taken(t, n)
    BY <1>8, <2>1 DEF Taken
  <2>3. \A x : Leads(asked, x)' <=> Leads(t, x)
    BY <1>8, <2>2 DEF Leads
  <2> QED BY <1>3, <2>1, <2>3 DEF Pairs
<1> QED BY <1>2, <1>3, <1>7, <1>8

\* What the first answer promises is kept from then on.
LEMMA FirstRead ==
    ASSUME ReadInv, reads' = 1, UNCHANGED pageRead, HadTypes', wanted' \in SUBSET Sections,
           asked' \in Seq(Sections), IsInjective(asked'), returned' \in 0..budget,
           \A i \in wanted' \ ToSet(asked') : Had(i)',
           ~truncated' => \A i \in wanted' : had'[i] = chars[i]
    PROVE  ReadInv'
<1>1. /\ Sections' = Sections /\ PageTypes /\ PageTypes' /\ chars' = chars
      /\ \A t : asked' = t => Pairs(asked)' = Pairs(t)
  BY PageStays DEF ReadInv, pageRead
<1>2. Bounded'
  <2> DEFINE b == Cardinality(Pairs(asked)')
             d == Cardinality(Sections) * (Cardinality(Sections) + 1)
  <2>1. PICK t : t = asked'
    OBVIOUS
  <2>2. Pairs(asked)' = Pairs(t)
    BY <1>1, <2>1
  <2>3. b \in Nat /\ 2 * b <= d /\ d \in Nat
    BY <1>1, <2>2, PairsAreBounded
  <2>4. Bounded' <=> 2 * ((reads' - 1) + b) <= d
    BY <1>1 DEF Bounded
  <2> HIDE DEF b, d
  <2> QED BY <2>3, <2>4
<1>3. ~truncated' => Whole'
  BY <1>1 DEF Whole
<1>4. reads' \in Nat /\ (reads' = 0 => asked' = <<>>)
  OBVIOUS
<1>5. wanted' \in SUBSET Sections' /\ asked' \in Seq(Sections') /\ returned' \in 0..budget'
  BY <1>1 DEF pageRead
<1>6. reads' > 0 => /\ returned' \in 0..budget'
                    /\ \A i \in wanted' \ ToSet(asked') : Had(i)'
                    /\ ~truncated' /\ reads' = 1 => Whole'
                    /\ Bounded'
  BY <1>2, <1>3, <1>5, Zenon
<1> QED BY <1>1, <1>4, <1>5, <1>6, Zenon DEF ReadInv

\* The first read, of the page as it is
LEMMA PlainReads == ASSUME ReadInv, ReadPlain PROVE ReadInv'
<1>1. PageTypes /\ Plain /\ UNCHANGED pageRead /\ reads' = 1 /\ wanted' = Sections
  BY DEF ReadInv, ReadPlain
<1>2. /\ HadTypes'
      /\ asked' \in Seq(Sections) /\ IsInjective(asked')
      /\ \A i \in Sections \ ToSet(asked') : had'[i] = chars[i]
      /\ returned' \in 0..budget
      /\ ~truncated' => \A i \in Sections : had'[i] = chars[i]
  BY <1>1, PlainIs, Zenon
<1>3. \A i \in wanted' \ ToSet(asked') : Had(i)'
  BY <1>1, <1>2 DEF Had, pageRead
<1>4. wanted' \in SUBSET Sections /\ (~truncated' => \A i \in wanted' : had'[i] = chars[i])
  BY <1>1, <1>2, Zenon
<1> QED BY <1>1, <1>2, <1>3, <1>4, FirstRead, Zenon

\* The first read, of what the client names or asks about
LEMMA FocusedReads == ASSUME ReadInv, ReadFocused PROVE ReadInv'
<1>1. PageTypes /\ HadTypes /\ UNCHANGED pageRead /\ reads' = 1
  BY DEF ReadInv, ReadFocused
<1>2. PICK roots \in Lists(MaxRoots), ranked \in Lists(MaxRanked) :
        /\ ToSet(Matched(roots)) \cap ToSet(ranked) = {}
        /\ wanted' = ToSet(OrFirst(Matched(roots) \o ranked))
        /\ Focused(OrFirst(Matched(roots) \o ranked))
  BY DEF ReadFocused
<1>3. \A k \in Nat : \A s \in Lists(k) : s \in Seq(Sections) /\ IsInjective(s)
  <2> TAKE k \in Nat
  <2> TAKE s \in Lists(k)
  <2>1. PICK m \in 0..k : s \in [1..m -> Sections]
    BY DEF Lists
  <2>2. m \in Nat
    OBVIOUS
  <2> QED BY <2>1, <2>2 DEF Lists
<1>4. roots \in Seq(Sections) /\ ranked \in Seq(Sections) /\ IsInjective(ranked)
  BY <1>3, ReadAssumption
<1>5. Matched(roots) \in Seq(Sections) /\ IsInjective(Matched(roots))
  BY <1>1, <1>4, MatchedIs
<1> DEFINE all == Matched(roots) \o ranked
           chosen == OrFirst(all)
<1>6. all \in Seq(Sections) /\ IsInjective(all)
  BY <1>2, <1>4, <1>5, Concatenated
<1> HIDE DEF all
<1>7. chosen \in Seq(Sections) /\ IsInjective(chosen)
  <2>1. CASE all = <<>> /\ Sections # {}
    <3>1. Min(Sections) \in Sections
      BY <1>1, <2>1, SectionsAre, MinIsLeast
    <3>2. chosen = <<Min(Sections)>>
      BY <2>1 DEF OrFirst
    <3>3. <<Min(Sections)>> \in Seq(Sections) /\ DOMAIN <<Min(Sections)>> = {1}
      BY <3>1
    <3> QED BY <3>2, <3>3 DEF IsInjective
  <2>2. CASE ~(all = <<>> /\ Sections # {})
    BY <1>6, <2>2 DEF OrFirst
  <2> QED BY <2>1, <2>2
<1>8. Focused(chosen) /\ wanted' = ToSet(chosen)
  BY <1>2 DEF all
<1> HIDE DEF chosen
<1>9. /\ HadTypes'
      /\ asked' \in Seq(Sections) /\ IsInjective(asked')
      /\ \A i \in ToSet(chosen) \ ToSet(asked') : Had(i)'
      /\ returned' \in 0..budget
      /\ ~truncated' => \A i \in ToSet(chosen) : had'[i] = chars[i]
  BY <1>1, <1>7, <1>8, FocusedIs, Zenon
<1>10. wanted' \in SUBSET Sections
  BY <1>7, <1>8 DEF ToSet
<1>11. /\ \A i \in wanted' \ ToSet(asked') : Had(i)'
       /\ ~truncated' => \A i \in wanted' : had'[i] = chars[i]
  BY <1>8, <1>9, Zenon
<1> QED BY <1>1, <1>9, <1>10, <1>11, FirstRead, Zenon

\* A read of what remains gives some of it, and there is less to ask for.
LEMMA RemainingReads == ASSUME ReadInv, ReadRemaining PROVE ReadInv'
<1>1. /\ PageTypes /\ HadTypes /\ UNCHANGED pageRead /\ asked # <<>> /\ reads' = reads + 1
      /\ wanted' = wanted /\ wanted \in SUBSET Sections /\ reads \in Nat /\ reads # 0
      /\ asked \in Seq(Sections)
  BY DEF ReadInv, ReadRemaining
<1>2. /\ \A i \in wanted \ ToSet(asked) : Had(i)
      /\ Bounded
  <2>1. reads > 0
    BY <1>1
  <2> QED BY <2>1, Zenon DEF ReadInv
<1> DEFINE chosen == Matched(asked)
<1>3. /\ chosen \in Seq(Sections) /\ IsInjective(chosen)
      /\ ToSet(chosen) = Taken(asked, Len(asked))
      /\ chosen # <<>> /\ chosen[1] = asked[1]
  BY <1>1, MatchedIs
<1>4. Focused(chosen)
  BY <1>3 DEF ReadRemaining, OrFirst
<1> HIDE DEF chosen
<1>5. /\ HadTypes' /\ \A i \in Places : had[i] <= had'[i]
      /\ asked' \in Seq(Sections) /\ IsInjective(asked') /\ ToSet(asked') \subseteq ToSet(chosen)
      /\ \A x, y \in ToSet(asked') : Precedes(chosen, x, y) => Precedes(asked', x, y)
      /\ chosen[1] \notin ToSet(asked')
      /\ \A i \in ToSet(chosen) \ ToSet(asked') : Had(i)'
      /\ returned' \in 0..budget
  BY <1>1, <1>3, <1>4, FocusedIs, Zenon
<1>6. /\ Sections' = Sections /\ Places' = Places /\ PageTypes' /\ chars' = chars /\ budget' = budget
      /\ \A t : asked' = t => Pairs(asked)' = Pairs(t)
  BY <1>1, PageStays DEF pageRead
<1>7. ASSUME NEW i \in wanted \ ToSet(asked') PROVE Had(i)'
  <2>1. CASE i \in ToSet(asked)
    <3>1. PICK n \in 1..Len(asked) : asked[n] = i
      BY <1>1, <2>1 DEF ToSet
    <3>2. i \in Tree(asked[n])
      BY <3>1 DEF Tree
    <3>3. i \in ToSet(chosen)
      BY <1>3, <3>2 DEF Taken
    <3> QED BY <1>5, <3>3
  <2>2. CASE i \notin ToSet(asked)
    <3>1. Had(i)
      BY <1>2, <2>2
    <3>2. i \in Places /\ had[i] \in Nat /\ chars[i] \in Nat /\ budget \in Nat
      BY <1>1, SectionsAre DEF HadTypes, PageTypes
    <3>3. had'[i] \in Nat /\ had'[i] <= chars[i] /\ had[i] <= had'[i]
      BY <1>5, <1>6, <3>2 DEF HadTypes
    <3>4. had'[i] = chars[i] \/ (had'[i] > 0 /\ chars[i] > budget)
      BY <3>1, <3>2, <3>3 DEF Had
    <3> QED BY <1>6, <3>4 DEF Had
  <2> QED BY <2>1, <2>2
<1>8. Bounded'
  <2>1. PICK t : t = asked'
    OBVIOUS
  <2>2. Pairs(asked)' = Pairs(t)
    BY <1>6, <2>1
  <2>3. Cardinality(Pairs(t)) < Cardinality(Pairs(asked))
    <3>1. /\ t \in Seq(Sections) /\ IsInjective(t)
          /\ ToSet(t) \subseteq ToSet(Matched(asked)) \ {asked[1]}
          /\ \A x, y \in ToSet(t) : Precedes(Matched(asked), x, y) => Precedes(t, x, y)
      BY <1>3, <1>5, <2>1 DEF chosen
    <3> QED BY <1>1, <3>1, FewerPairs
  <2> DEFINE a == Cardinality(Pairs(asked))
             b == Cardinality(Pairs(t))
             d == Cardinality(Sections) * (Cardinality(Sections) + 1)
  <2>4. a \in Nat /\ b \in Nat /\ d \in Nat
    BY <1>1, PairsAreBounded
  <2>5. 2 * ((reads - 1) + a) <= d
    BY <1>2 DEF Bounded
  <2>6. Bounded' <=> 2 * ((reads' - 1) + b) <= d
    BY <1>6, <2>2 DEF Bounded
  <2> HIDE DEF a, b, d
  <2>7. b < a
    BY <2>3 DEF a, b
  <2> QED BY <1>1, <2>4, <2>5, <2>6, <2>7
<1>9. reads' \in Nat /\ reads' # 0 /\ reads' # 1
  BY <1>1
<1>10. reads' > 0 => /\ returned' \in 0..budget'
                     /\ \A i \in wanted' \ ToSet(asked') : Had(i)'
                     /\ ~truncated' /\ reads' = 1 => Whole'
                     /\ Bounded'
  <2>1. returned' \in 0..budget'
    BY <1>5, <1>6
  <2> QED BY <1>1, <1>7, <1>8, <1>9, <2>1, Zenon
<1>11. wanted' \in SUBSET Sections' /\ asked' \in Seq(Sections')
  BY <1>1, <1>5, <1>6
<1> QED BY <1>5, <1>6, <1>9, <1>10, <1>11, Zenon DEF ReadInv

\* Nothing is read
LEMMA StillReads == ASSUME ReadInv, UNCHANGED readVars PROVE ReadInv'
<1>1. /\ UNCHANGED pageRead /\ wanted' = wanted /\ had' = had /\ asked' = asked
      /\ returned' = returned /\ truncated' = truncated /\ reads' = reads
  BY DEF readVars
<1>2. /\ Sections' = Sections /\ Places' = Places /\ (PageTypes => PageTypes')
      /\ \A t : asked' = t => Pairs(asked)' = Pairs(t)
  BY <1>1, PageStays
<1>3. /\ chars' = chars /\ budget' = budget
  BY <1>1 DEF pageRead
<1>4. (HadTypes => HadTypes') /\ (Bounded => Bounded') /\ (Whole => Whole')
  BY <1>1, <1>2, <1>3 DEF HadTypes, Bounded, Whole
<1>5. \A i : Had(i) => Had(i)'
  BY <1>1, <1>3 DEF Had
<1> QED BY <1>1, <1>2, <1>3, <1>4, <1>5, Zenon DEF ReadInv

\* So it holds of every read.
LEMMA ReadInvHolds == ReadSpec => []ReadInv
<1>1. ReadInv /\ [ReadNext]_readVars => ReadInv'
  BY PlainReads, FocusedReads, RemainingReads, StillReads, Zenon DEF ReadNext
<1> QED BY <1>1, ReadInitIs, PTL DEF ReadSpec

\* For every page, budget and request: a reader that asks for what remains until nothing does
\* is done after a bounded number of reads, and has had of the sections the first read was for
\* all that can be had.  (read_focus.py fill_budget, match_requested_sections.)
THEOREM ReadersLoseNothing == ReadSpec => []NothingLost
<1>1. ReadInv => NothingLost
  <2> SUFFICES ASSUME ReadInv, reads > 0 PROVE NothingLost
    BY DEF NothingLost
  <2>1. /\ PageTypes /\ HadTypes /\ wanted \in SUBSET Sections /\ reads \in Nat
        /\ asked \in Seq(Sections)
    BY DEF ReadInv
  <2>2. /\ returned \in 0..budget
        /\ \A i \in wanted \ ToSet(asked) : Had(i)
        /\ ~truncated /\ reads = 1 => Whole
        /\ Bounded
    BY Zenon DEF ReadInv
  <2>3. returned <= budget
    BY <2>1, <2>2 DEF PageTypes
  <2>4. \A j \in Headings : Descendants[j] = {i \in Headings : Under(i, j)}
    BY <2>1, DescendantsAre
  <2>5. 2 * (reads - 1) <= Cardinality(Sections) * (Cardinality(Sections) + 1)
    <3> DEFINE a == Cardinality(Pairs(asked))
               d == Cardinality(Sections) * (Cardinality(Sections) + 1)
    <3>1. a \in Nat /\ d \in Nat
      BY <2>1, PairsAreBounded
    <3>2. 2 * ((reads - 1) + a) <= d
      BY <2>2 DEF Bounded
    <3> HIDE DEF a, d
    <3>3. 2 * (reads - 1) <= d
      BY <2>1, <3>1, <3>2
    <3> QED BY <3>3 DEF d
  <2>6. asked = <<>> => \A i \in wanted : had[i] < chars[i] => had[i] > 0 /\ chars[i] > budget
    <3> SUFFICES ASSUME asked = <<>>, NEW i \in wanted, had[i] < chars[i]
                 PROVE  had[i] > 0 /\ chars[i] > budget
      OBVIOUS
    <3>1. i \notin ToSet(asked)
      BY DEF ToSet
    <3>2. had[i] \in Nat /\ chars[i] \in Nat
      BY <2>1, SectionsAre DEF HadTypes, PageTypes
    <3> QED BY <2>2, <3>1, <3>2 DEF Had
  <2>7. ~truncated /\ reads = 1 => \A i \in wanted : had[i] = chars[i]
    BY <2>2, Zenon DEF Whole
  <2> QED BY <2>3, <2>4, <2>5, <2>6, <2>7, Zenon DEF NothingLost
<1> QED BY <1>1, ReadInvHolds, PTL
=============================================================================
