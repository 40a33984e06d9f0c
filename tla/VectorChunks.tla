----------------------------- MODULE VectorChunks -----------------------------
(***************************************************************************)
(* What a vector index is made of and what a search of it finds            *)
(* (vector.py): pages are cut into chunks, the chunks are embedded and     *)
(* published as two sidecars, and a query is compared with every chunk of  *)
(* the pages that are eligible, by NumPy or without it.                    *)
(*                                                                         *)
(* A page is a title and a sequence of lines; of words, labels and titles  *)
(* only the length matters, and whether two are the same.  A vector is the *)
(* sequence of the words it was made from: how alike two texts are is the  *)
(* provider's business, and here the number of times a word occurs.        *)
(***************************************************************************)
EXTENDS Integers, FiniteSetsExt, SequencesExt

CONSTANTS
    Length,        \* of each title, label and word, in characters
    Silent,        \* the words that a provider gives a zero vector
    Wikis,         \* sequences of pages, in the order that breaks ties
    Questions,     \* the words that are searched for
    MaxChunk,      \* MAX_CHUNK_CHARS
    MinSegment,    \* the least segment limit: 200
    TargetTerms,   \* TARGET_CHUNK_TERMS
    MaxRows,       \* VECTOR_FILTERED_COPY_MAX_ROWS
    BlockRows,     \* VECTOR_SCORE_BLOCK_ROWS
    MaxFound,      \* the limit of a search
    Missing        \* no index, no file, no answer

VARIABLES
    wiki,     \* the pages
    chunks,   \* and what each is cut into, or Missing
    files,    \* the sidecars of the index, or Missing
    inMemory,   \* the index in memory, or Missing
    found     \* a search and its answer, or Missing

chunkVars == <<wiki, chunks, files, inMemory, found>>

Heading(level, label) == [kind |-> "heading", level |-> level, label |-> label]
BlankLine == [kind |-> "blank"]
Line(words) == [kind |-> "text", words |-> words]

Texts == DOMAIN Length
Page == [title : Texts,
         lines : Seq([kind : {"heading"}, level : Nat \ {0}, label : Texts] \cup {BlankLine}
                     \cup [kind : {"text"}, words : Seq(Texts) \ {<<>>}])]

ASSUME ChunksAssumption ==
    /\ \A text \in Texts : Length[text] \in Nat \ {0}
    /\ Wikis \subseteq Seq(Page)
    /\ {MaxChunk, TargetTerms, BlockRows} \subseteq Nat \ {0} /\ {MaxRows, MaxFound} \subseteq Nat
    /\ MinSegment \in 1..MaxChunk
    /\ Missing \notin Nat \X Nat

-----------------------------------------------------------------------------
(* Sequences *)

\* The elements of a set in an order of it
Ordered(S, before) ==
    [n \in 1..Cardinality(S) |-> CHOOSE x \in S : Cardinality({y \in S : <<y, x>> \in before}) = n - 1]
InOrder(S) == Ordered(S, {p \in S \X S : p[1] < p[2]})
\* What a sequence has at some of its places
At(s, places) == [n \in DOMAIN InOrder(places) |-> s[InOrder(places)[n]]]
\* The sums of the first elements of a sequence
Sums(s) ==
    LET sum[n \in 0..Len(s)] == IF n = 0 THEN 0 ELSE sum[n - 1] + s[n]
    IN  sum

-----------------------------------------------------------------------------
(* Chunks *)

\* The words of a line, each with where it starts and ends
Placed(words, offset) ==
    LET before == Sums([i \in DOMAIN words |-> Length[words[i]] + 1])
    IN  [i \in DOMAIN words |->
            [word |-> words[i], start |-> offset + before[i - 1],
             end |-> offset + before[i - 1] + Length[words[i]]]]
Size(line) ==   \* with its line end
    CASE line.kind = "heading" -> line.level + 1 + Length[line.label] + 1
      [] line.kind = "blank" -> 1
      [] line.kind = "text" -> Sums([i \in DOMAIN line.words |-> Length[line.words[i]] + 1])[Len(line.words)]

FlushParagraph(s) ==
    IF s.open = <<>> THEN s
    ELSE [s EXCEPT !.done = Append(@, [words |-> s.open, breadcrumb |-> s.breadcrumb]), !.open = <<>>]

Breadcrumb(breadcrumb, level, label) ==
    Append(SubSeq(breadcrumb, 1, Min({level - 1, Len(breadcrumb)})), label)

ReadLine(s, line) ==
    LET next == CASE line.kind = "heading" ->
                       [FlushParagraph(s) EXCEPT !.breadcrumb = Breadcrumb(@, line.level, line.label)]
                  [] line.kind = "blank" -> FlushParagraph(s)
                  [] line.kind = "text" -> [s EXCEPT !.open = @ \o Placed(line.words, s.offset)]
    IN  [next EXCEPT !.offset = @ + Size(line)]
ReadLines(page) ==
    LET read[n \in 0..Len(page.lines)] ==
            IF n = 0 THEN [done |-> <<>>, open |-> <<>>, breadcrumb |-> <<>>, offset |-> 0]
            ELSE ReadLine(read[n - 1], page.lines[n])
    IN  read
PageParagraphs(page) == FlushParagraph(ReadLines(page)[Len(page.lines)]).done

\* A single word that is too long is cut into pieces
ParagraphSegment(words) ==
    LET start == words[1].start
        end == Last(words).end
    IN  [k \in 1..((end - start + MaxChunk - 1) \div MaxChunk) |->
            [start |-> start + (k - 1) * MaxChunk, end |-> Min({end, start + k * MaxChunk}),
             words |-> words]]

\* Mutant: a segment that is full ends with the word that did not fit
AddWordTwice(max, s, w) ==
    IF s.count > 0 /\ (w.end - s.open[1].start > max \/ s.count >= TargetTerms)
    THEN [segments |-> s.segments \o ParagraphSegment(Append(s.open, w)), open |-> <<w>>, count |-> 1]
    ELSE [s EXCEPT !.open = Append(@, w), !.count = @ + 1]

AddWord(max, s, w) ==
    IF s.count > 0 /\ (w.end - s.open[1].start > max \/ s.count >= TargetTerms)
    THEN [segments |-> s.segments \o ParagraphSegment(s.open), open |-> <<w>>,
          count |-> 1]
    ELSE [s EXCEPT !.open = Append(@, w), !.count = @ + 1]
Splits(words, max) ==
    LET split[n \in 0..Len(words)] ==
            IF n = 0 THEN [segments |-> <<>>, open |-> <<>>, count |-> 0]
            ELSE AddWord(max, split[n - 1], words[n])
    IN  split
SplitParagraph(words, max) ==
    LET s == Splits(words, max)[Len(words)]
    IN  s.segments \o ParagraphSegment(s.open)

\* chunk_prefix: the title, and the headings unless they are just the title
PrefixLength(page, breadcrumb) ==
    LET lengths == Sums([i \in DOMAIN breadcrumb |-> Length[breadcrumb[i]]])
        path == lengths[Len(breadcrumb)] + 3 * (Len(breadcrumb) - 1)
    IN  Length[page.title] + IF breadcrumb \in {<<>>, <<page.title>>} THEN 0 ELSE 1 + path

\* bounded_chunk_text: where the embedded text ends, cut at the last space that is far enough
KeptEnd(prefix, segment) ==
    LET room == MaxChunk - prefix - 1
        breaks == {w.end : w \in {x \in ToSet(segment.words) :
                                    x.end < segment.end /\ x.end - segment.start < room}}
        boundary == prefix + 1 + Max(breaks \cup {segment.start - 1}) - segment.start
    IN  IF segment.end - segment.start <= room THEN segment.end
        ELSE IF room < 0 THEN segment.start
        ELSE IF boundary >= MaxChunk \div 2 THEN Max(breaks \cup {segment.start})
        ELSE segment.start + room

\* build_vector_chunks
Cut(page, paragraph) ==
    LET prefix == PrefixLength(page, paragraph.breadcrumb)
        segments == SplitParagraph(paragraph.words, Max({MinSegment, MaxChunk - prefix - 1}))
        kept(segment) == KeptEnd(prefix, segment)
        within(segment) == {k \in DOMAIN segment.words : /\ segment.start <= segment.words[k].start
                                                        /\ segment.words[k].end <= kept(segment)}
    IN  [i \in DOMAIN segments |->
            [start |-> segments[i].start, end |-> segments[i].end,
             breadcrumb |-> paragraph.breadcrumb, prefix |-> prefix, kept |-> kept(segments[i]),
             words |-> At(segments[i].words, within(segments[i]))]]
ChunksOf(page) ==
    LET paragraphs == PageParagraphs(page)
    IN  FlattenSeq([i \in DOMAIN paragraphs |-> Cut(page, paragraphs[i])])

-----------------------------------------------------------------------------
(* The index and its sidecars *)

\* The text of a chunk: title, headings and words
Text(page, chunk) ==
    <<page.title>> \o (IF chunk.breadcrumb = <<page.title>> THEN <<>> ELSE chunk.breadcrumb)
    \o [i \in DOMAIN chunk.words |-> chunk.words[i].word]
Embedded(text) == At(text, {i \in DOMAIN text : text[i] \notin Silent})
Norm(vector) == Len(vector)
Cosine(query, vector) == Cardinality({i \in DOMAIN vector : vector[i] = query})

\* The chunks of all pages, each with its page and its ordinal
Records ==
    LET of(p) == LET vector(i) == Embedded(Text(wiki[p], chunks[p][i]))
                 IN  [i \in DOMAIN chunks[p] |->
                        [page |-> p, ordinal |-> i - 1,
                         start |-> chunks[p][i].start, end |-> chunks[p][i].end,
                         vector |-> vector(i), norm |-> Norm(vector(i))]]
    IN  FlattenSeq([p \in DOMAIN wiki |-> of(p)])

Rows(records) == [i \in DOMAIN records |-> records[i].vector]
\* vector_index_from_sidecars: the vectors stay in the matrix
FromSidecars(sidecars) ==
    [records |-> [i \in DOMAIN sidecars.metadata |->
                    [sidecars.metadata[i] EXCEPT !.norm = Norm(sidecars.vectors[i])]],
     matrix |-> sidecars.vectors]

ChunksInit ==
    /\ wiki \in Wikis
    /\ chunks = Missing /\ files = Missing /\ inMemory = Missing /\ found = Missing

\* build_vector_chunks, of every page
CutPages ==
    /\ chunks = Missing
    /\ chunks' = [p \in DOMAIN wiki |-> ChunksOf(wiki[p])]
    /\ UNCHANGED <<wiki, files, inMemory, found>>

\* _build_index and _publish
BuildIndex ==
    /\ chunks # Missing /\ files = Missing
    /\ \E records \in {Records} :
           /\ inMemory' = [records |-> records, matrix |-> Rows(records)]
           /\ files' = [vectors |-> Rows(records),
                        metadata |-> [i \in DOMAIN records |-> [records[i] EXCEPT !.vector = <<>>]]]
    /\ UNCHANGED <<wiki, chunks, found>>

LoadIndex ==
    /\ files # Missing /\ inMemory = Missing
    /\ inMemory' = FromSidecars(files)
    /\ UNCHANGED <<wiki, chunks, files, found>>

Restart ==
    /\ inMemory # Missing
    /\ inMemory' = Missing /\ found' = Missing
    /\ UNCHANGED <<wiki, chunks, files>>

-----------------------------------------------------------------------------
(* The search *)

Positions == [i \in DOMAIN inMemory.records |-> i]

\* The rows of the pages, without a zero vector
Wanted(effective) ==
    InOrder({i \in DOMAIN inMemory.records :
                inMemory.records[i].page \in effective /\ inMemory.records[i].norm > 0})

\* Mutant: of a subset that is too large, the first rows
FirstRows(effective) == SubSeq(Wanted(effective), 1, Min({MaxRows, Len(Wanted(effective))}))

\* filtered_record_positions_for_small_page_subset, None being all positions
FilteredPositions(effective) ==
    IF effective = {} THEN <<>>
    ELSE IF {inMemory.records[i].page : i \in DOMAIN inMemory.records} \subseteq effective
            \/ Len(Wanted(effective)) > MaxRows
         THEN Positions
    ELSE Wanted(effective)

\* NumPy scores all rows in blocks, or a copy of those wanted, and has no answer if that fails;
\* the rows are then scored one by one
NumpyScores(query, positions) ==
    LET rows == IF positions = Positions THEN BlockRows ELSE Max({1, Len(positions)})
        block(cursor) ==
            [k \in 1..(Min({Len(positions), cursor + rows}) - cursor) |->
                <<positions[cursor + k], Cosine(query, inMemory.matrix[positions[cursor + k]])>>]
        blocks == [b \in 1..((Len(positions) + rows - 1) \div rows) |-> block((b - 1) * rows)]
    IN  FlattenSeq(blocks)
PythonScores(query, positions) ==
    [k \in DOMAIN positions |->
        LET record == inMemory.records[positions[k]]
        IN  <<positions[k],
              Cosine(query, IF record.vector # <<>> THEN record.vector ELSE inMemory.matrix[positions[k]])>>]

\* best_vector_records_by_page_from_scores
BetterRecord(item, other) ==
    LET ordinal(x) == inMemory.records[x[1]].ordinal
    IN  item[2] > other[2] \/ (item[2] = other[2] /\ ordinal(item) < ordinal(other))
BestByPage(items, effective) ==
    LET of(p) == {item \in ToSet(items) : /\ inMemory.records[item[1]].page = p
                                          /\ inMemory.records[item[1]].norm > 0}
        best(p) == CHOOSE item \in of(p) : \A other \in of(p) \ {item} : BetterRecord(item, other)
    IN  [p \in DOMAIN wiki |-> IF p \notin effective \/ of(p) = {} THEN Missing ELSE best(p)]

\* search_vector_index_with_query_vector: by score, then in the order of the pages
RankedPages(best) ==
    LET pages == {p \in DOMAIN wiki : best[p] # Missing}
        before == {pq \in pages \X pages :
                     \/ best[pq[1]][2] > best[pq[2]][2]
                     \/ best[pq[1]][2] = best[pq[2]][2] /\ pq[1] < pq[2]}
        ranked == Ordered(pages, before)
    IN  [i \in 1..Min({MaxFound, Len(ranked)}) |->
            [page |-> ranked[i], score |-> best[ranked[i]][2],
             start |-> inMemory.records[best[ranked[i]][1]].start,
             end |-> inMemory.records[best[ranked[i]][1]].end]]

\* A query with a zero vector has no answer
Answered(query, visible, excluded, numpy) ==
    LET effective == visible \ excluded
        positions == FilteredPositions(effective)
        items == IF numpy THEN NumpyScores(query, positions) ELSE PythonScores(query, positions)
    IN  IF query \in Silent THEN <<>> ELSE RankedPages(BestByPage(items, effective))

SearchIndex ==
    /\ inMemory # Missing /\ found = Missing
    /\ \E query \in Questions, visible, excluded \in SUBSET DOMAIN wiki, numpy \in BOOLEAN :
          found' = [query |-> query, visible |-> visible, excluded |-> excluded,
                    answer |-> Answered(query, visible, excluded, numpy)]
    /\ UNCHANGED <<wiki, chunks, files, inMemory>>

ChunksNext == CutPages \/ BuildIndex \/ LoadIndex \/ Restart \/ SearchIndex

ChunksSpec == ChunksInit /\ [][ChunksNext]_chunkVars

-----------------------------------------------------------------------------
(* Properties *)

Offset(page, i) == Sums([j \in DOMAIN page.lines |-> Size(page.lines[j])])[i - 1]
Headings(page) == {i \in DOMAIN page.lines : page.lines[i].kind = "heading"}
\* The headings a line stands under
Active(page, i) ==
    {j \in Headings(page) :
        j < i /\ \A k \in Headings(page) : j < k /\ k < i => page.lines[k].level > page.lines[j].level}
\* A heading more than one level below the one it stands under
SkipsLevels(page) == \E j \in Headings(page) : page.lines[j].level > Cardinality(Active(page, j)) + 1
WordsAt(page, i) == ToSet(Placed(page.lines[i].words, Offset(page, i)))
TextLines(page) == {i \in DOMAIN page.lines : page.lines[i].kind = "text"}
In(w, chunk) == chunk.start <= w.start /\ w.start < chunk.end

\* Every word of a page is in one chunk, at its place, under the headings it stands under, and
\* is embedded whole if it fits beside them; no chunk is larger than it may be or goes over the
\* end of a paragraph.  Two things the code does otherwise are excepted: headings that leave no
\* room for the least segment, and a heading above which a level is missing.
\* (vector.py: page_paragraphs, split_paragraph, bounded_chunk_text.)
ChunksHoldWords ==
    chunks # Missing => \A p \in DOMAIN wiki :
        LET page == wiki[p]
        IN  /\ \A i, j \in DOMAIN chunks[p] : i < j => chunks[p][i].end <= chunks[p][j].start
            /\ \A i \in TextLines(page) : \A w \in WordsAt(page, i) :
                  \E chunk \in ToSet(chunks[p]) :
                     /\ In(w, chunk)
                     /\ (w.end - w.start + chunk.prefix + 1 <= MaxChunk
                         /\ MinSegment + chunk.prefix + 1 <= MaxChunk) => w \in ToSet(chunk.words)
                     /\ ~SkipsLevels(page) =>
                           chunk.breadcrumb = LET under == InOrder(Active(page, i))
                                              IN  [k \in DOMAIN under |-> page.lines[under[k]].label]
            /\ \A chunk \in ToSet(chunks[p]) :
                  /\ chunk.prefix < MaxChunk => chunk.prefix + 1 + chunk.kept - chunk.start <= MaxChunk
                  /\ Len(chunk.words) <= TargetTerms
                  /\ \A i \in DOMAIN page.lines \ TextLines(page) :
                        Offset(page, i) <= chunk.start \/ chunk.end <= Offset(page, i)

\* A search answers with the best of the eligible pages, each with its first best chunk, by
\* exact scores of all that was embedded, whichever way the rows are selected and scored and
\* whether the index was built or loaded.
\* (vector.py: search_vector_index_with_query_vector, and the fallbacks below it.)
AnswersAreExact ==
    found # Missing =>
        LET eligible == found.visible \ found.excluded
            scores(p) == [c \in {x \in ToSet(chunks[p]) : Embedded(Text(wiki[p], x)) # <<>>} |->
                            Cosine(found.query, Text(wiki[p], c))]
            score == [p \in {x \in eligible : DOMAIN scores(x) # {}} |->
                        LET of == scores(p) IN Max({of[c] : c \in DOMAIN of})]
            atLeast(p, q) == score[p] > score[q] \/ (score[p] = score[q] /\ p < q)
            answer == found.answer
            pages == {answer[i].page : i \in DOMAIN answer}
        IN  found.query \notin Silent =>
              /\ pages \subseteq DOMAIN score /\ Cardinality(pages) = Len(answer)
              /\ Len(answer) = Min({MaxFound, Cardinality(DOMAIN score)})
              /\ \A p \in pages, q \in DOMAIN score \ pages : atLeast(p, q)
              /\ \A i, j \in DOMAIN answer : i < j => atLeast(answer[i].page, answer[j].page)
              /\ \A i \in DOMAIN answer :
                    LET of == scores(answer[i].page)
                        best == {c \in DOMAIN of : of[c] = score[answer[i].page]}
                    IN  /\ answer[i].score = score[answer[i].page]
                        /\ answer[i].start = Min({c.start : c \in best})
=============================================================================
