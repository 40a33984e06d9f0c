---------------------------- MODULE MCBenchmarkRun ----------------------------
(***************************************************************************)
(* The commands of the archive, those of the pinned wikis, or those of the *)
(* judged pool: the ones stand still while the others are checked.         *)
(***************************************************************************)
EXTENDS BenchmarkRun, VerifiedSources, JudgedPool, TLC
CONSTANTS a1, a2, corpus, labels, texts, judged, q1, q2, q3, one, two, page1, page2
VARIABLE tool

MCAcquirers == {a1, a2}
MCFiles == {corpus, labels}
MCSourceFiles == {texts, judged}
MCPages == {page1}
MCSymmetry == Permutations(MCAcquirers)

\* Two of three queries whose ids differ in what a slug leaves out
MCAsked == <<q1, q2, q3>>
MCSlug == (q1 :> one) @@ (q2 :> two) @@ (q3 :> one)
MCPlan == <<[shadow |-> FALSE, managed |-> TRUE, phase |-> "warm"],
            [shadow |-> TRUE, managed |-> TRUE, phase |-> "cold"],
            [shadow |-> TRUE, managed |-> TRUE, phase |-> "primed"]>>

\* Bound: two commands with two changes by users, or three with one
MCBothBound == 4

MCInit ==
    /\ Init /\ VerifiedInit /\ PoolInit
    /\ \/ tool = "archive"
       \/ tool \in {"pinned wiki", "judged pool"} /\ cache = "none" /\ target = Missing

MCNext ==
    /\ \/ tool = "archive" /\ Next /\ commands' + edits' <= MCBothBound
          /\ UNCHANGED <<verifiedVars, poolVars>>
       \/ tool = "pinned wiki" /\ VerifiedNext /\ calls' + changes' <= MCBothBound
          /\ UNCHANGED <<vars, poolVars>>
       \/ tool = "judged pool" /\ PoolNext /\ poolCalls' + meddlings' <= MCBothBound
          /\ UNCHANGED <<vars, verifiedVars>>
    /\ UNCHANGED tool

MCSpec == MCInit /\ [][MCNext]_<<vars, verifiedVars, poolVars, tool>>
=============================================================================
