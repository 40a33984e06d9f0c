----------------------------- MODULE FocusedRead -----------------------------
(***************************************************************************)
(* read_focus.py: a reader of a page that is larger than its budget.  The  *)
(* first read is plain or focused on sections and on a query; then, as     *)
(* long as an answer has remaining_sections, it asks for those by number.  *)
(* Of a text only lengths are kept, and the headings in it; what the words *)
(* of a query make of the sections is any order of some of them.           *)
(***************************************************************************)
EXTENDS Integers, FiniteSetsExt, SequencesExt

CONSTANTS
    MaxHeadings, MaxLevel,  \* bounds of a page
    Lengths,                \* of the sections, in characters
    Budgets,                \* max_chars, in characters
    MaxRoots,               \* bound: sections a request names
    MaxRanked               \* FOCUSED_QUERY_MAX_SECTIONS

ASSUME ReadAssumption ==
    /\ {MaxHeadings, MaxLevel, MaxRoots, MaxRanked} \subseteq Nat
    /\ Budgets \cup Lengths \subseteq Nat \ {0}

VARIABLES
    levels,     \* of the headings of the page
    chars,      \* of what is under each heading, and at 0 of what is before the first
    blank,      \* whether what is before the first heading is blank, and no section
    budget,
    wanted,     \* the sections that the first read was for
    had,        \* the most characters of each section an answer had
    asked,      \* remaining_sections of the last answer
    returned, truncated,
    reads

pageRead == <<levels, chars, blank, budget>>
readVars == <<pageRead, wanted, had, asked, returned, truncated, reads>>

-----------------------------------------------------------------------------
(* split_markdown_sections *)

Headings == DOMAIN levels
Places == {0} \cup Headings
Sections == IF blank \/ chars[0] = 0 THEN Headings ELSE Places
\* Places in the order of the page
InOrder(S) == [n \in 1..Cardinality(S) |-> CHOOSE i \in S : Cardinality({j \in S : j < i}) = n - 1]

\* Where a place begins in the text, and at last where the text ends
Begins ==
    LET begins[i \in 0..Cardinality(Places)] == IF i = 0 THEN 0 ELSE begins[i - 1] + chars[i - 1]
    IN  begins
Total == Begins[Cardinality(Places)]

\* What is on top of the stack when those of its level and below have been popped
Above(i) == Max({0} \cup {j \in 1..(i - 1) : levels[j] < levels[i]})

\* 0, or 1.2 for the second heading in the first
Number ==
    LET number[i \in Places] ==
            IF i = 0 THEN <<0>>
            ELSE LET siblings == {j \in 1..i : Above(j) = Above(i)}
                     parent == IF Above(i) = 0 THEN <<>> ELSE number[Above(i)]
                 IN  Append(parent, Cardinality(siblings))
    IN  number

\* is_descendant_of
Descendants ==
    LET number == Number
    IN  [j \in Places |-> {i \in Places : j # 0 /\ IsStrictPrefix(number[j], number[i])}]

-----------------------------------------------------------------------------
(* focused_read_payload *)

\* match_requested_sections: every root with what is under it, unless it is chosen already
Matched(roots) ==
    LET below == Descendants
        chosen[n \in 0..Len(roots)] ==
            IF n = 0 THEN <<>>
            ELSE chosen[n - 1]
                 \o InOrder(({roots[n]} \cup below[roots[n]]) \ ToSet(chosen[n - 1]))
    IN  chosen[Len(roots)]

\* Without a match the first section
OrFirst(chosen) == IF chosen = <<>> /\ Sections # {} THEN <<Min(Sections)>> ELSE chosen

\* clip_text: at the budget, or at the last line break when it is not below 0.6 of it
Clips == {n \in 1..budget : n = budget \/ 5 * (n - 1) >= 3 * budget}

\* What fill_budget shows of a section when so much is used: nothing of one that remains
ShownOf(spent, i, clip) ==
    IF spent + chars[i] <= budget THEN chars[i] ELSE IF spent = 0 THEN clip ELSE 0

\* fill_budget: what is used before the first, and after each
Filled(chosen, clip) ==
    LET spent[n \in 0..Len(chosen)] ==
            IF n = 0 THEN 0 ELSE spent[n - 1] + ShownOf(spent[n - 1], chosen[n], clip)
    IN  spent

Focused(chosen) ==
    \E clip \in Clips :
        LET spent == Filled(chosen, clip)
            shown == [n \in DOMAIN chosen |-> ShownOf(spent[n - 1], chosen[n], clip)]
            remaining == InOrder({n \in DOMAIN chosen : shown[n] = 0})
        IN  /\ had' = [i \in Places |->
                         Max({had[i]} \cup {shown[n] : n \in {m \in DOMAIN chosen : chosen[m] = i}})]
            /\ asked' = [n \in DOMAIN remaining |-> chosen[remaining[n]]]
            /\ returned' = spent[Len(chosen)]
            /\ truncated' = \E n \in DOMAIN chosen : shown[n] < chars[chosen[n]]

-----------------------------------------------------------------------------
(* plain_read_payload *)

\* Mutant: the section that is cut off in the middle is not among them
UnseenAfter(clip) == InOrder({i \in Sections : Begins[i] >= clip})

\* The sections that end behind the clip
RemainingAfter(clip) == InOrder({i \in Sections : Begins[i + 1] > clip})

Plain ==
    \E clip \in IF Total <= budget THEN {Total} ELSE Clips :
        /\ had' = [i \in Places |-> Max({0, Min({chars[i], clip - Begins[i]})})]
        /\ asked' = IF clip < Total THEN RemainingAfter(clip) ELSE <<>>
        /\ returned' = clip
        /\ truncated' = (clip < Total)

-----------------------------------------------------------------------------
ReadInit ==
    /\ levels \in UNION {[1..n -> 1..MaxLevel] : n \in 0..MaxHeadings}
    /\ chars \in {c \in [Places -> {0} \cup Lengths] : \A i \in Headings : c[i] > 0}
    /\ blank \in BOOLEAN /\ (chars[0] = 0 => ~blank)
    /\ budget \in Budgets
    /\ wanted = {} /\ had = [i \in Places |-> 0]
    /\ asked = <<>> /\ returned = 0 /\ truncated = FALSE /\ reads = 0

Lists(n) == {s \in UNION {[1..m -> Sections] : m \in 0..n} : IsInjective(s)}

ReadPlain ==
    /\ reads = 0 /\ reads' = 1
    /\ wanted' = Sections
    /\ Plain
    /\ UNCHANGED pageRead

\* What the client names in sections, by heading or number, and what matches its query best
ReadFocused ==
    /\ reads = 0 /\ reads' = 1
    /\ \E roots \in Lists(MaxRoots), ranked \in Lists(MaxRanked) :
           LET matched == Matched(roots)
               chosen == OrFirst(matched \o ranked)
           IN  /\ ToSet(matched) \cap ToSet(ranked) = {}
               /\ wanted' = ToSet(chosen) /\ Focused(chosen)
    /\ UNCHANGED pageRead

\* The number at the start of each label in remaining_sections, in their order
ReadRemaining ==
    /\ asked # <<>> /\ reads' = reads + 1
    /\ Focused(OrFirst(Matched(asked)))
    /\ UNCHANGED <<pageRead, wanted>>

ReadNext == ReadPlain \/ ReadFocused \/ ReadRemaining

ReadSpec == ReadInit /\ [][ReadNext]_readVars

-----------------------------------------------------------------------------
\* A section has under it what a reader of the outline sees there, whatever levels are skipped
Under(i, j) == i > j /\ \A k \in (j + 1)..i : levels[k] > levels[j]

\* "remaining_sections (selected sections that did not fit)" is a promise: an answer is within
\* its budget and says when it is not all, and who asks for what remains until nothing does
\* is done: each read takes away a pair of a section and one that is it or under it; and has
\* had each of them, whole unless it is longer than the budget.
NothingLost ==
    reads > 0 =>
        /\ returned <= budget
        /\ \A j \in Headings : Descendants[j] = {i \in Headings : Under(i, j)}
        /\ 2 * (reads - 1) <= Cardinality(Sections) * (Cardinality(Sections) + 1)
        /\ ~truncated /\ reads = 1 => \A i \in wanted : had[i] = chars[i]
        /\ asked = <<>> => \A i \in wanted : had[i] < chars[i] => had[i] > 0 /\ chars[i] > budget
=============================================================================
