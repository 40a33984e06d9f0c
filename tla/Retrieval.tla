------------------------------ MODULE Retrieval ------------------------------
(***************************************************************************)
(* What a search answers with: the lexical and literal ranking of          *)
(* search.py with its managed tie band, the fusion of query variants of    *)
(* service.py, and the vector and the orientation-seeded hybrid retrieval  *)
(* of vector.py.  A client asks again and again and excludes what it has   *)
(* seen (exclude_page_ids), while pages are approved and withdrawn.        *)
(* Scores are whole numbers: the ranks of BM25 and cosine scores, 0 for a  *)
(* page that does not match or is under min_score.  Every page has an id   *)
(* of its own: the fusions take pages that share one for a single page.    *)
(***************************************************************************)
EXTENDS Integers, FiniteSets, FiniteSetsExt

CONSTANTS
    Corpus,           \* the pages
    Role,             \* of each page: "hot", "index", "overview" or "topic"
    Path,             \* the place of each path in the order of the paths
    Variants,         \* of the query, at most MAX_QUERY_VARIANTS
    Nil,              \* no identifier in the query, no answer yet
    TieBand,          \* lexical_tie_band
    Boosts,           \* what the managed context may add to each page
    MaxScore,         \* bound: scores
    MaxAnswers,       \* bound: limits of a search
    MaxPublications,  \* bound: publications
    DepthMin, DepthMultiplier, DepthCap,     \* HYBRID_CANDIDATE_DEPTH_...
    OrientationLimit, SeedLimit,             \* HYBRID_ORIENTATION_..._LIMIT
    PerSeedLimit, RelatedLimit,              \* HYBRID_RELATED_..._LIMIT
    Scale             \* a multiple of RRF_K plus every rank

Primary == "query"
RRF_K == 60

ASSUME RetrievalAssumption ==
    /\ IsFiniteSet(Corpus) /\ IsFiniteSet(Variants)
    /\ \A p \in Corpus : Role[p] \in {"hot", "index", "overview", "topic"} /\ Path[p] \in Nat
    /\ \A p, q \in Corpus : Path[p] = Path[q] => p = q
    /\ Primary \notin Variants
    /\ \A S \in SUBSET Corpus : Nil # S
    /\ Boosts \subseteq [Corpus -> Nat]
    /\ {TieBand, MaxScore, MaxAnswers, MaxPublications} \subseteq Nat
    /\ {DepthMin, DepthMultiplier, DepthCap, OrientationLimit, SeedLimit, PerSeedLimit,
        RelatedLimit} \subseteq Nat
    /\ DepthMin <= DepthCap
    /\ Scale \in Nat \ {0}
    /\ \A rank \in 1..Cardinality(Corpus) : Scale % (RRF_K + rank) = 0

VARIABLES
    mode,       \* of the search: "lexical" (and literal), "vector" or "hybrid"
    channels,   \* the query and its variants
    text,       \* of each channel: "words" (a stop word matches nothing), "marks" without a
                \* token of the legacy analyzer, or "none"
    score,      \* the lexical score of each page for each channel
    sim,        \* the cosine of the best chunk of each page, 0 for one without a chunk
    guard,      \* the pages that have the identifier the query is, or Nil
    links,      \* the pages an orientation page relates to by what its snippet shows
    explicit,   \* the orientation pages that the query names
    visible,    \* the pages of the snapshot that the client may see
    publications,
    limit,
    seen,       \* exclude_page_ids, what all its answers had
    before,     \* seen as it was at the last answer, Nil when there is none yet
    answer      \* the rank of every page of the last answer

query == <<mode, channels, text, score, sim, guard, links, explicit>>
searchVars == <<query, visible, publications, limit, seen, before, answer>>

Hubs == {p \in Corpus : Role[p] # "topic"}
Excluded == seen
RoleRank(p) == CASE Role[p] = "hot" -> 0 [] Role[p] = "index" -> 1
                 [] Role[p] = "overview" -> 2 [] OTHER -> 3

-----------------------------------------------------------------------------
(* Ranked lists, as functions from their pages to the ranks *)

Less(a, b) == \E i \in DOMAIN a : a[i] < b[i] /\ \A j \in 1..(i - 1) : a[j] = b[j]
\* S in the order of the keys
Ranked(S, key) == [p \in S |-> 1 + Cardinality({q \in S : Less(key[q], key[p])})]
Top(ranks, n) == [p \in {q \in DOMAIN ranks : ranks[q] <= n} |-> ranks[p]]
Among(ranks, S) ==
    Ranked(DOMAIN ranks \cap S, [p \in DOMAIN ranks |-> <<ranks[p]>>])
NoPage == [p \in {} |-> 0]

\* The term of a rank in a reciprocal rank fusion, of weight twentieths
Term(ranks, p, weight) ==
    IF p \in DOMAIN ranks THEN weight * (Scale \div (RRF_K + ranks[p])) ELSE 0
RankOr(ranks, p, other) == IF p \in DOMAIN ranks THEN ranks[p] ELSE other

-----------------------------------------------------------------------------
(* search.py *)

\* orientation_pages: the first page of every role, then the others
Overview(S) ==
    LET first(p) == /\ p \in Hubs
                    /\ \A q \in S : Role[q] = Role[p] => Path[p] <= Path[q]
    IN  Ranked(S, [p \in S |-> <<IF first(p) THEN 0 ELSE 1, RoleRank(p), Path[p]>>])

\* overview_results: the excluded pages are left out of the order, not of the choice
OverviewResults(S) == Among(Overview(S), S \ Excluded)

\* The top score of the band that each score is in: bands are cut off from the best page down
BandTop(c, S) ==
    LET scores == {score[c][p] : p \in S}
        top[s \in scores] ==
            IF \A t \in scores : t <= s THEN s
            ELSE LET above == top[Min({t \in scores : t > s})]
                 IN  IF above - s <= TieBand THEN above ELSE s
    IN  top

\* Mutant: the boosts are as large as they come, across the bands
RankByBoosts(c, S, boost) ==
    Ranked(S, [p \in S |-> <<-(score[c][p] + boost[p]), -score[c][p], RoleRank(p), Path[p]>>])

\* rank_search_results, with a boost for every page
RankResults(c, S, boost) ==
    LET bounded(p) == Min({boost[p], TieBand})
    IN  Ranked(S, [p \in S |-> <<-BandTop(c, S)[score[c][p]], -(score[c][p] + bounded(p)),
                                 -score[c][p], RoleRank(p), Path[p]>>])

NoBoost == [p \in Corpus |-> 0]

\* search_corpus and literal_search_corpus over the pages of S
Search(c, S, boost, n) ==
    IF text[c] # "words" THEN Top(OverviewResults(S), n)
    ELSE Top(RankResults(c, {p \in S \ Excluded : score[c][p] > 0}, boost), n)

-----------------------------------------------------------------------------
(* fused_lexical_variant_results *)

Fused(boost) ==
    LET results == [c \in channels |-> Search(c, visible, boost, limit)]
        found == {p \in UNION {DOMAIN results[c] : c \in channels} :
                      guard # Nil => p \in guard}
        rrf(p) == SumFunction([c \in channels |-> Term(results[c], p, 1)])
        best(p) == Min({RankOr(results[c], p, 1000000) : c \in channels})
    IN  Top(Ranked(found, [p \in found |->
                <<-rrf(p), RankOr(results[Primary], p, 1000000), best(p), RoleRank(p),
                  Path[p]>>]), limit)

-----------------------------------------------------------------------------
(* vector.py *)

VectorKey == [p \in Corpus |-> <<-sim[p], RoleRank(p), Path[p]>>]

\* search_vector_index over the pages of S; only a query without text has an overview
VectorSearch(S, n) ==
    IF text[Primary] = "none" THEN Top(OverviewResults(S), n)
    ELSE Top(Ranked({p \in S \ Excluded : sim[p] > 0}, VectorKey), n)

\* Mutant: as many candidates as there are answers
AsManyAsAsked == Min({Cardinality(visible), limit})

\* hybrid_candidate_depth
CandidateDepth ==
    Min({Cardinality(visible),
         Max({limit, Min({DepthCap, Max({DepthMin, DepthMultiplier * limit})})})})

\* orientation_seeds: the orientation pages near the top of either list, the first of them
Seeds ==
    LET hubs == visible \cap Hubs
        lexical == Search(Primary, hubs, NoBoost, OrientationLimit)
        vector == VectorSearch(hubs, OrientationLimit)
        last == OrientationLimit + 1
        key(p) == <<Min({RankOr(lexical, p, last), RankOr(vector, p, last)}),
                    RankOr(lexical, p, last), RankOr(vector, p, last), RoleRank(p), Path[p]>>
        near == DOMAIN lexical \cup DOMAIN vector
    IN  Top(Ranked(near, [p \in near |-> key(p)]), SeedLimit)

\* related_vector_results_from_orientation, by cosine
Related ==
    LET pool(seed) == {p \in (links[seed] \cap visible) \ (Excluded \cup {seed}) : sim[p] > 0}
        capped(seed) == DOMAIN Top(Ranked(pool(seed), VectorKey), PerSeedLimit)
    IN  IF text[Primary] = "none" THEN NoPage
        ELSE Top(Ranked(UNION {capped(seed) : seed \in DOMAIN Seeds}, VectorKey), RelatedLimit)

\* suppressed_orientation_answer_page_ids
Suppressed == {p \in visible \cap Hubs : p \notin explicit}
AllowedPages == (IF guard = Nil THEN visible ELSE guard \cap visible) \ Suppressed

\* rerank_related_vector_results: by cosine, then by the lexical rank
RelatedRanks(lexical) ==
    LET floor == Cardinality(DOMAIN lexical) + RRF_K + 1
        near == DOMAIN Related \cap AllowedPages
    IN  Ranked(near, [p \in near |-> <<-sim[p], RankOr(lexical, p, floor),
                                       RoleRank(p), Path[p]>>])

\* plain_hybrid_search_results
PlainScore(lexical, global) ==
    [p \in DOMAIN lexical \cup DOMAIN global |-> Term(lexical, p, 20) + Term(global, p, 20)]

\* orientation_seeded_hybrid_search_results: the graph's channel has the related pages in the
\* order of the vectors
SeededScore(lexical, global, related, seeds) ==
    [p \in UNION {DOMAIN lexical, DOMAIN global, DOMAIN related, DOMAIN seeds} |->
        Term(lexical, p, 20) + Term(related, p, 20) + Term(global, p, 15)
        + Term(seeds, p, 7) + Term(related, p, 5)]

\* hybrid_search_results_for_vector_index
Hybrid ==
    LET lexical == Among(Search(Primary, visible, NoBoost, CandidateDepth), AllowedPages)
        global == Among(VectorSearch(visible, CandidateDepth), AllowedPages)
        rrf == IF DOMAIN Related = {} THEN PlainScore(lexical, global)
               ELSE SeededScore(lexical, global, RelatedRanks(lexical),
                                Among(Seeds, AllowedPages))
        exact(p) == IF guard # Nil /\ p \in DOMAIN lexical THEN 0 ELSE 1
    IN  Top(Ranked(DOMAIN rrf, [p \in DOMAIN rrf |-> <<-rrf[p], exact(p), RoleRank(p), Path[p]>>]),
            limit)

-----------------------------------------------------------------------------
(* _search_result_objects *)

Answer(boost) ==
    CASE mode = "vector" -> VectorSearch(visible, limit)
      [] mode = "hybrid" -> Hybrid
      [] mode = "lexical" /\ channels = {Primary} -> Search(Primary, visible, boost, limit)
      [] mode = "lexical" /\ channels # {Primary} -> Fused(boost)

\* effective_lexical_query_channels: variants need a query with text, in lexical mode
Query ==
    /\ mode \in {"lexical", "vector", "hybrid"}
    /\ channels \in {{Primary} \cup V : V \in SUBSET Variants}
    /\ text \in [channels -> {"words", "marks", "none"}]
    /\ channels # {Primary} => mode = "lexical" /\ \A c \in channels : text[c] # "none"

\* exact_required_doc_indexes: a query that is an identifier matches pages that have it and no
\* others; not all of them when min_score drops some, none when the identifier is of stop words.
\* A hybrid search has no min_score.
Guarded ==
    LET matched == {p \in Corpus : score[Primary][p] > 0} IN
    /\ guard \in {Nil} \cup SUBSET Corpus
    /\ guard # Nil => /\ \A c \in channels : text[c] # "marks"
                      /\ text[Primary] = "words" /\ matched \subseteq guard
                      /\ mode = "hybrid" => matched \in {{}, guard}

SearchInit ==
    /\ Query
    /\ score \in [channels -> [Corpus -> 0..MaxScore]] /\ sim \in [Corpus -> 0..MaxScore]
    /\ Guarded
    /\ links \in [Hubs -> SUBSET Corpus]
    /\ explicit \in SUBSET Hubs /\ (text[Primary] = "none" => explicit = {})
    /\ visible \in SUBSET Corpus /\ publications = 0
    /\ limit \in 1..MaxAnswers
    /\ seen = {} /\ before = Nil /\ answer = NoPage

\* The client asks, and adds what it got to exclude_page_ids
Retrieve ==
    /\ \E boost \in IF mode = "lexical" THEN Boosts ELSE {NoBoost} : answer' = Answer(boost)
    /\ before' = seen
    /\ seen' = seen \cup DOMAIN answer'
    /\ UNCHANGED <<query, visible, publications, limit>>

\* A page is approved, or withdrawn, and the index published
PublishPages ==
    /\ publications < MaxPublications /\ publications' = publications + 1
    /\ \E p \in Corpus : visible' = IF p \in visible THEN visible \ {p} ELSE visible \cup {p}
    /\ answer' = NoPage /\ before' = Nil
    /\ UNCHANGED <<query, limit, seen>>

SearchNext == Retrieve \/ PublishPages

SearchSpec == SearchInit /\ [][SearchNext]_searchVars

-----------------------------------------------------------------------------
(* Properties *)

\* What the search is for, among the pages the client has not excluded
Matches(c) == {p \in visible : text[c] # "words" \/ score[c][p] > 0}
Near == {p \in visible : text[Primary] = "none" \/ sim[p] > 0}
Wanted ==
    (CASE mode = "vector" -> Near
       [] mode = "hybrid" -> (Matches(Primary) \cup Near) \cap AllowedPages
       [] mode = "lexical" ->
            {p \in UNION {Matches(c) : c \in channels} : guard # Nil => p \in guard})
    \ before
\* The least candidate depth holds all the suppressed pages and an answer
Room == Cardinality(Suppressed) + limit <= DepthMin

\* What cannot be missed of it.  Of the pages with the identifier that the query is, those it
\* matches itself: what only a variant matches, or only the vectors, may be cut from a list that
\* is filled by pages which are then dropped for want of the identifier.
Assured ==
    IF guard = Nil \/ mode = "vector" THEN Wanted ELSE Wanted \cap Matches(Primary)

\* "exclude_page_ids prevents already-seen pages from being returned again": a client that asks
\* until its answer is shorter than its limit has had every page once that matches in any
\* channel, whichever lists were cut, filtered and fused on the way, and no other.  The
\* exceptions are in Room and Assured.
EverythingOnce ==
    before # Nil /\ (mode = "hybrid" => Room) =>
        /\ DOMAIN answer \subseteq Wanted /\ Cardinality(DOMAIN answer) <= limit
        /\ Cardinality(DOMAIN answer) < limit => Assured \subseteq DOMAIN answer

\* p is better than q by more than a tie, in all that the search has found q by
Better(p, q) ==
    LET byWords(band) == \A c \in channels :
            text[c] = "words" /\ (score[c][q] > 0 => score[c][p] > score[c][q] + band)
        bySense == sim[q] > 0 => sim[p] > sim[q]
        seedOfNone == q \notin Hubs /\ \A h \in Hubs : q \in links[h] => p \in links[h]
    IN  CASE mode = "vector" -> text[Primary] # "none" /\ bySense
          [] mode = "hybrid" -> byWords(0) /\ bySense /\ seedOfNone /\ p \notin Hubs
          [] mode = "lexical" -> byWords(TieBand)

\* "A result with a materially lower lexical score must not outrank a result outside the
\* configured lexical tie band because of managed context", and nothing else turns around
\* what all channels agree on: not the cut of the candidates, the suppression of orientation
\* pages, the related pages or the weights.  Whoever is better in everything comes first.
BetterFirst ==
    before # Nil =>
        \A q \in DOMAIN answer, p \in Wanted :
            Better(p, q) => p \in DOMAIN answer /\ answer[p] < answer[q]
=============================================================================
