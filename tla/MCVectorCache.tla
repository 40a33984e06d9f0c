--------------------------- MODULE MCVectorCache ---------------------------
(***************************************************************************)
(* Searches of two processes over one cache directory, or an index of a    *)
(* few pages and the searches of it: each is checked from its own initial  *)
(* states, while the other stands still.                                   *)
(***************************************************************************)
EXTENDS VectorCache, VectorChunks, TLC

CONSTANTS p1, p2, r1, r2

\* Two processes that share the cache, one request at a time in each
TwoProcs == {p1, p2}
TwoRequests == {r1, r2}
Serves == [r \in Requests |-> IF r = r1 THEN p1 ELSE p2]
\* Only one of them is refreshed
RefreshesOne == [p \in Procs |-> IF p = p1 THEN 2 ELSE 0]
TheFirst == [addr |-> 1, digest |-> 1, pages |-> 1]

-----------------------------------------------------------------------------
\* "s" is silent, "wide" leaves no room beside headings, "endless" is nearly a chunk, "vast" more
MCLength == "t" :> 2 @@ "h" :> 1 @@ "k" :> 1 @@ "a" :> 1 @@ "b" :> 3 @@ "wide" :> 6
            @@ "endless" :> 11 @@ "vast" :> 13 @@ "s" :> 1
MCLines == {Heading(1, "h"), Heading(2, "t"), Heading(3, "k"), BlankLine, Line(<<"a">>), Line(<<"s">>),
            Line(<<"b", "a", "a", "b">>), Line(<<"wide", "a">>), Line(<<"a", "endless", "a">>)}
Titled(title, lines) == [title |-> title, lines |-> lines]
Skipping == Titled("t", <<Heading(1, "h"), Heading(3, "k"), Heading(2, "k"), Line(<<"a">>)>>)
MCWikis ==
    {<<Titled("t", lines), Titled("t", <<Line(<<"b">>), Line(<<"a">>)>>)>> :
        lines \in UNION {[1..n -> MCLines] : n \in 1..3}}
    \cup {<<Skipping, Titled("t", <<Line(<<"s">>)>>), Titled("t", <<Line(<<"a", "a">>)>>)>>,
          <<Titled("s", <<Line(<<"s">>), BlankLine, Line(<<"vast", "b">>)>>),
            Titled("s", <<Line(<<"s">>)>>), Skipping>>}

-----------------------------------------------------------------------------
NoWiki == wiki = <<>> /\ chunks = Missing /\ files = Missing /\ inMemory = Missing /\ found = Missing

MCInit == Init /\ (NoWiki \/ ChunksInit)

\* Bound: a second fault comes only where nothing is refreshed
MCFaults == faults' = 2 => \A p \in Procs : refreshes'[p] = 0

MCNext ==
    \/ wiki = <<>> /\ Next /\ MCFaults /\ UNCHANGED chunkVars
    \/ wiki # <<>> /\ ChunksNext /\ UNCHANGED vars

MCSpec == MCInit /\ [][MCNext]_<<vars, chunkVars>> /\ Fairness
=============================================================================
