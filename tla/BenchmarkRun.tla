----------------------------- MODULE BenchmarkRun -----------------------------
(***************************************************************************)
(* What becomes of an acquired archive: scripts/benchmark_adapters/        *)
(* beir_scifact.py materializes the extracted files as a wiki and a        *)
(* bundle, and scifact_runner.py searches the one with the queries of the  *)
(* other and publishes a report and a local manifest.  Files are read one  *)
(* by one, users edit all of them and put them back, and either command    *)
(* ends at any step.                                                       *)
(***************************************************************************)
EXTENDS ArchiveAcquire, Naturals

CONSTANTS
    Corpus, Labels,   \* of the archive: its documents, and its queries and judgments
    MaxVersion,       \* bound: versions of a file, 0 the archived one
    MaxEdits,         \* bound: edits of files
    MaxCommands,      \* bound: materializations and runs, one after the other
    None

ASSUME BenchmarkAssumption ==
    /\ Files = {Corpus, Labels} /\ None \notin Nat
    /\ MaxVersion \in Nat /\ MaxEdits \in Nat /\ MaxCommands \in Nat

\* The bundle has a file for each of the archive, and its provenance their checksums
Inputs == {"input"} \X Files
Wiki == <<"output", "wiki">>
Bundle == {"output"} \X Files
Outputs == {Wiki} \cup Bundle
Objects == Inputs \cup Outputs
\* The file of the archive that an output is made from
Source(x) == <<"input", IF x = Wiki THEN Corpus ELSE x[2]>>

VARIABLES
    content,         \* the version of every file, None where there is none
    sums,            \* the checksums in the bundle's provenance
    changed, back,   \* ghosts: the files that were edited since the command began, and again
    edits, commands,
    at,              \* the step of the command, or how it ended
    before, got, after,   \* what it read of each file for its digests and for its work
    report,          \* the command whose report is published
    runManifest      \* the command whose manifest is

trees == <<content, sums>>
ghosts == <<changed, back, edits>>
reads == <<before, got, after>>
published == <<report, runManifest>>
benchVars == <<trees, ghosts, commands, at, reads, published>>
vars == <<acquireVars, benchVars>>

Nothing == [x \in Objects |-> None]

BenchInit ==
    /\ content = [x \in Objects |-> IF x \in Inputs THEN 0 ELSE None] /\ sums = None
    /\ changed = {} /\ back = {} /\ edits = 0 /\ commands = 0
    /\ at = "idle"
    /\ before = Nothing /\ got = Nothing /\ after = Nothing
    /\ report = 0 /\ runManifest = 0

Init == AcquireInit /\ BenchInit

-----------------------------------------------------------------------------
(* Steps of both commands *)

Idle == at \in {"idle", "made", "ran", "failed"}
Settled == \A a \in Acquirers : step[a] \in Ends \cup {"start"}

BeginCommand(first) ==
    /\ Idle /\ Settled /\ commands < MaxCommands
    /\ commands' = commands + 1
    /\ at' = first
    /\ changed' = {} /\ back' = {}
    /\ before' = Nothing /\ got' = Nothing /\ after' = Nothing
    /\ UNCHANGED <<acquireVars, trees, edits, published>>

\* compute_tree_digest, and the readers: the files of a tree one after the other
ReadOne(phase, tree, what, next) ==
    /\ at = phase
    /\ IF \A x \in tree : what[x] # None THEN at' = next /\ what' = what
       ELSE /\ \E x \in {y \in tree : what[y] = None /\ content[y] # None} :
                    what' = [what EXCEPT ![x] = content[x]]
            /\ UNCHANGED at
    /\ UNCHANGED <<acquireVars, trees, ghosts, commands, published>>

Compare(phase, tree, next) ==
    /\ at = phase
    /\ at' = IF \A x \in tree : after[x] = before[x] THEN next ELSE "failed"
    /\ UNCHANGED <<acquireVars, trees, ghosts, commands, reads, published>>

\* validate_bundle: every file is there, with the checksum that provenance names
Valid == sums # None /\ \A x \in Bundle : content[x] = sums[x]

Check(phase, next) ==
    /\ at = phase
    /\ at' = IF Valid THEN next ELSE "failed"
    /\ UNCHANGED <<acquireVars, trees, ghosts, commands, reads, published>>

-----------------------------------------------------------------------------
(* materialize_beir_scifact *)

\* It needs the files of the archive, and an output directory that is missing or empty
BeginMake ==
    /\ target # Missing /\ Files \subseteq target
    /\ BeginCommand(IF \A x \in Outputs : content[x] = None THEN "make" ELSE "failed")

MakeBefore == ReadOne("make", Inputs, before, "make read") /\ UNCHANGED <<got, after>>
MakeRead == ReadOne("make read", Inputs, got, "make write") /\ UNCHANGED <<before, after>>

\* The wiki, then the files of the bundle
WriteOutput ==
    /\ at = "make write"
    /\ \E x \in Outputs :
        /\ content[x] = None /\ (x # Wiki => content[Wiki] # None)
        /\ content' = [content EXCEPT ![x] = got[Source(x)]]
    /\ UNCHANGED <<acquireVars, sums, ghosts, commands, at, reads, published>>

\* provenance.json names the digests of the files as they are now
WriteSums ==
    /\ at = "make write" /\ \A x \in Outputs : content[x] # None
    /\ sums' = [x \in Bundle |-> content[x]]
    /\ at' = "make check"
    /\ UNCHANGED <<acquireVars, content, ghosts, commands, reads, published>>

MakeCheck == Check("make check", "make after")
MakeAfter == ReadOne("make after", Inputs, after, "make compare") /\ UNCHANGED <<before, got>>
\* Mutant: the input's digests are not compared
MakeUncompared == Compare("make compare", {}, "made")

MakeCompare == Compare("make compare", Inputs, "made")

-----------------------------------------------------------------------------
(* run_scifact_benchmark *)

BeginRun == (\E x \in Outputs : content[x] # None) /\ BeginCommand("run")

RunBefore ==
    /\ \A x \in Outputs : content[x] # None
    /\ ReadOne("run", Outputs, before, "load") /\ UNCHANGED <<got, after>>

\* load_scifact_bundle: the bundle is validated before its rows are read again, and by the
\* public report gate after
Load == Check("load", "rows")
LoadRows ==
    /\ ReadOne("rows", {<<"output", Labels>>}, got, "gate") /\ UNCHANGED <<before, after>>
Gate == Check("gate", "index")
\* The service reads the wiki once, and searches that index for every query
Index == ReadOne("index", {Wiki}, got, "run after") /\ UNCHANGED <<before, after>>
RunAfter == ReadOne("run after", Outputs, after, "run compare") /\ UNCHANGED <<before, got>>
RunCompare == Compare("run compare", Outputs, "publish")

PublishReport ==
    /\ at = "publish"
    /\ report' = commands /\ at' = "manifest"
    /\ UNCHANGED <<acquireVars, trees, ghosts, commands, reads, runManifest>>

\* When one was asked for
PublishManifest ==
    /\ at = "manifest"
    /\ runManifest' \in {commands, runManifest} /\ at' = "ran"
    /\ UNCHANGED <<acquireVars, trees, ghosts, commands, reads, report>>

-----------------------------------------------------------------------------
(* What comes in between *)

\* An error, an interrupt or a kill: what was written stays
Break ==
    /\ ~Idle
    /\ at' = "failed"
    /\ UNCHANGED <<acquireVars, trees, ghosts, commands, reads, published>>

\* A user edits a file, or puts an edited one back
Edit ==
    /\ edits < MaxEdits /\ target # Missing /\ Files \subseteq target
    /\ \E x \in Objects :
        /\ content[x] # None
        /\ \E v \in 0..MaxVersion \ {content[x]} : content' = [content EXCEPT ![x] = v]
        /\ back' = IF x \in changed THEN back \cup {x} ELSE back
        /\ changed' = changed \cup {x}
    /\ edits' = edits + 1
    /\ UNCHANGED <<acquireVars, sums, commands, at, reads, published>>

\* An output directory that is in the way is removed
Clear ==
    /\ Idle /\ \E x \in Outputs : content[x] # None
    /\ content' = [x \in Objects |-> IF x \in Outputs THEN None ELSE content[x]]
    /\ sums' = None
    /\ UNCHANGED <<acquireVars, ghosts, commands, at, reads, published>>

\* Bound: the archive is acquired before anything is made of it
Acquire == commands = 0 /\ edits = 0 /\ AcquireNext /\ UNCHANGED benchVars

Next ==
    \/ Acquire
    \/ BeginMake \/ MakeBefore \/ MakeRead \/ WriteOutput \/ WriteSums
    \/ MakeCheck \/ MakeAfter \/ MakeCompare
    \/ BeginRun \/ RunBefore \/ Load \/ LoadRows \/ Gate \/ Index \/ RunAfter \/ RunCompare
    \/ PublishReport \/ PublishManifest
    \/ Break \/ Edit \/ Clear

Spec == Init /\ [][Next]_vars

-----------------------------------------------------------------------------
(* Properties *)

\* "materialize ... without mutating it": what a materialization that succeeds has made is of
\* the input it digested, file by file, unless a file was edited and put back while it ran.
BundleOfInput ==
    at = "made" =>
        /\ \A x \in Inputs : got[x] = before[x] \/ x \in back
        /\ \A x \in Bundle : x \in changed \/ (sums # None => sums[x] = got[Source(x)])

\* "wiki tree mutated during SciFact retrieval run": the results of a published report are of
\* the wiki that was digested and of the labels whose checksum it shows, unless a file was
\* edited and put back while it ran; and a manifest never comes before its report.
ReportOfItsTrees ==
    /\ at \in {"manifest", "ran"} =>
        /\ got[Wiki] = before[Wiki] \/ Wiki \in back
        /\ LET x == <<"output", Labels>> IN
            x \in back \/ (sums # None => got[x] = sums[x])
    /\ runManifest <= report

\* Both, of what the commands of a benchmark publish: a report that is of its trees, and trees
\* that are of the acquired archive.
PublishedOfItsTrees == BundleOfInput /\ ReportOfItsTrees
=============================================================================
