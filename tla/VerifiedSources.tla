--------------------------- MODULE VerifiedSources ---------------------------
(***************************************************************************)
(* Benchmarks of pinned public wikis.  collect_verified_source_runs.py     *)
(* checks a wiki out, compares it with the rows of a corpus, asks services *)
(* of it every query, and writes the rows and their inputs to an output    *)
(* directory, file after file; verified_source_benchmark.py evaluates what *)
(* is there.  One command runs at a time.  Users edit, commit, move and    *)
(* remove the checkout, edit the inputs, and either command fails or is    *)
(* killed at any step.                                                     *)
(***************************************************************************)
EXTENDS Naturals, Sequences, FiniteSets

CONSTANTS
    Pages,         \* of the wiki, and of its corpus
    Asked,         \* the queries, in their order
    Slug,          \* of a query's id: what slug_part leaves of it
    Plan,          \* the runs: of the source or a shadow copy, with managed context, and when
    Gone, Unborn,  \* no file or directory; a repository without a commit
    Part,          \* a file cut off while it was written
    MaxSource,     \* bound: versions of a page, 0 the pinned one
    MaxChanges,    \* bound: changes by users
    MaxCalls       \* bound: commands

Phases == {"cold", "warm", "primed"}

ASSUME VerifiedAssumption ==
    /\ Asked \in Seq(DOMAIN Slug) /\ Len(Asked) > 0
    /\ Plan \in Seq([shadow : BOOLEAN, managed : BOOLEAN, phase : Phases]) /\ Len(Plan) > 0
    /\ MaxSource \in Nat /\ MaxChanges \in Nat /\ MaxCalls \in Nat

\* load_queries refuses an id it has met
ASSUME QueryIdsAreUnique == \A i, j \in DOMAIN Asked : Asked[i] = Asked[j] => i = j
ASSUME UnbornIsNoTree == Unborn \notin [Pages -> (0..MaxSource) \cup {Gone}]

Pin == [page \in Pages |-> 0]
NoTree == [page \in Pages |-> Gone]
Evaluated == {"corpus", "labels", "runs"}
OutputFiles == Evaluated \cup {"report", "collection"}

VARIABLES
    wiki,           \* the version of every page in the checkout
    head,           \* the tree of its commit
    inputs,         \* the corpus, as the versions its hashes are of, and the queries and qrels
    out,            \* the files of the output directory
    doing, option,  \* the step of the command, or how it ended; what it was asked for
    todo,           \* the pages that a step has not read yet
    cased,          \* the inputs it read
    digest, again,  \* the source it digested first, and when it was evaluated
    moved,          \* whether the source changed during the evaluation
    copy,           \* the shadow copy
    nth, asked,     \* the run that is collected, and the queries it has asked
    seen,           \* the versions its rows come from
    held, met,      \* the hits in each state directory; those a query met there
    touched, recased, torn,   \* ghosts: changes since the command began; a cut-off output
    changes, calls

source == <<wiki, head>>
evaluation == <<again, moved>>
collection == <<copy, nth, asked, seen, held, met>>
users == <<inputs, touched, recased, changes>>
verifiedVars == <<source, out, torn, doing, option, todo, cased, digest, evaluation, collection,
                  users, calls>>

\* Every command has variables and a scratch directory of its own
ForgetReads ==
    /\ todo' = Pages /\ cased' = Gone /\ digest' = NoTree /\ again' = NoTree
    /\ moved' = FALSE /\ copy' = NoTree /\ nth' = 1 /\ asked' = 0
    /\ seen' = {} /\ held' = {} /\ met' = {}

VerifiedInit ==
    /\ wiki = NoTree /\ head = Gone
    /\ inputs = [corpus |-> Pin, labels |-> 0]
    /\ out = [file \in OutputFiles |-> Gone] /\ torn = FALSE
    /\ doing = "idle" /\ option = Gone
    /\ todo = Pages /\ cased = Gone /\ digest = NoTree /\ again = NoTree
    /\ moved = FALSE /\ copy = NoTree /\ nth = 1 /\ asked = 0
    /\ seen = {} /\ held = {} /\ met = {}
    /\ touched = [page \in Pages |-> 0] /\ recased = FALSE /\ changes = 0 /\ calls = 0

-----------------------------------------------------------------------------
(* Steps of a command *)

Over == {"idle", "dry", "collected", "evaluated", "failed"}
\* Of a collector, those in which it writes
Writing == {"corpus", "labels", "runs", "digests", "validate", "compare", "report", "collection"}

Call(asks, first) ==
    /\ doing \in Over /\ calls < MaxCalls
    /\ calls' = calls + 1
    /\ option' = asks /\ doing' = first
    /\ ForgetReads
    /\ touched' = [page \in Pages |-> 0] /\ recased' = FALSE
    /\ UNCHANGED <<source, out, torn, inputs, changes>>

\* An error is reported, and what was written stays
Fails ==
    /\ doing' = "failed"
    /\ torn' = (torn \/ (option.collect /\ doing \in Writing))

\* A step that reads the pages one after the other
Reads(stage, page, holds, next) ==
    /\ doing = stage /\ page \in todo
    /\ IF ~holds THEN Fails ELSE doing' = (IF todo = {page} THEN next ELSE stage) /\ UNCHANGED torn
    /\ todo' = IF todo = {page} THEN Pages ELSE todo \ {page}
    /\ UNCHANGED <<source, out, option, cased, users, calls>>

-----------------------------------------------------------------------------
(* collect_verified_source_runs.py: the source and its inputs *)

\* An explicit root is taken as it is, the checkout of a case is made when there is none
CallCollector ==
    \E pinned, dry, reported \in BOOLEAN :
        Call([collect |-> TRUE, pinned |-> pinned, dry |-> dry, report |-> reported,
              sourced |-> TRUE],
             IF ~pinned THEN "inputs" ELSE IF head = Gone THEN "clone" ELSE "clean")

\* Repository, files and commit
Clone ==
    /\ doing = "clone"
    /\ \/ head = Gone /\ head' = Unborn /\ UNCHANGED <<wiki, doing>>
       \/ /\ head = Unborn
          /\ \E page \in Pages : wiki[page] = Gone /\ wiki' = [wiki EXCEPT ![page] = 0]
          /\ UNCHANGED <<head, doing>>
       \/ /\ head = Unborn /\ \A page \in Pages : wiki[page] # Gone
          /\ head' = Pin /\ doing' = "clean" /\ UNCHANGED wiki
    /\ UNCHANGED <<out, torn, option, todo, cased, digest, evaluation, collection, users, calls>>

\* A step that goes on or fails
Goes(stage, holds, next) ==
    /\ doing = stage
    /\ IF holds THEN doing' = next /\ UNCHANGED torn ELSE Fails
    /\ UNCHANGED <<source, out, option, todo, digest, evaluation, collection, users, calls>>

\* The status of a repository without a commit shows the files there are
RequireClean == Goes("clean", wiki = (IF head = Unborn THEN NoTree ELSE head), "commit")
                /\ UNCHANGED cased
ValidateCommit == Goes("commit", head = Pin, "inputs") /\ UNCHANGED cased

LoadInputs == Goes("inputs", head # Gone, "hashes") /\ cased' = inputs
ValidateHashes ==
    \E page \in Pages :
        /\ Reads("hashes", page, wiki[page] = cased.corpus[page],
                 IF option.dry THEN "dry run" ELSE "before")
        /\ UNCHANGED <<digest, evaluation, collection>>

DryRun ==
    /\ doing = "dry run" /\ doing' = "dry"
    /\ out' = [out EXCEPT !["collection"] = [by |-> calls, of |-> {}]]
    /\ UNCHANGED <<source, torn, option, todo, cased, digest, evaluation, collection, users, calls>>

-----------------------------------------------------------------------------
(* Its runs *)

Shadowed == \E i \in DOMAIN Plan : Plan[i].shadow

DigestBefore ==
    \E page \in Pages :
        /\ Reads("before", page, TRUE, IF Shadowed THEN "shadow" ELSE "collect")
        /\ digest' = [digest EXCEPT ![page] = wiki[page]]
        /\ UNCHANGED <<evaluation, collection>>

Shadow ==
    \E page \in Pages :
        /\ Reads("shadow", page, TRUE, "collect")
        /\ copy' = [copy EXCEPT ![page] = wiki[page]]
        /\ UNCHANGED <<digest, evaluation, nth, asked, seen, held, met>>

\* Mutant: one directory for all queries of a run
StateOfRun(query) == <<nth>>

\* managed_context_for_run: a cold query's service has a directory of its own, by its slug
StateDir(query) == IF Plan[nth].phase = "cold" THEN <<nth, Slug[query]>> ELSE <<nth>>

\* A primed service is asked everything twice, and the second time counts
Priming == Plan[nth].phase = "primed" /\ asked < Len(Asked)
LastAsked == asked + 1 = IF Plan[nth].phase = "primed" THEN 2 * Len(Asked) ELSE Len(Asked)

Ask ==
    /\ doing = "collect"
    /\ LET query == Asked[(asked % Len(Asked)) + 1]
           dir == StateDir(query)
           pages == IF Plan[nth].shadow THEN copy ELSE wiki
       IN  /\ seen' = IF Priming THEN seen ELSE seen \cup {<<page, pages[page]>> : page \in Pages}
           /\ held' = IF Plan[nth].managed THEN held \cup {<<dir, query>>} ELSE held
           /\ met' = IF Priming \/ ~Plan[nth].managed THEN met
                     ELSE met \cup {[phase |-> Plan[nth].phase, query |-> query,
                                     hits |-> {q \in DOMAIN Slug : <<dir, q>> \in held}]}
    /\ asked' = IF LastAsked THEN 0 ELSE asked + 1
    /\ nth' = IF LastAsked /\ nth < Len(Plan) THEN nth + 1 ELSE nth
    /\ doing' = IF LastAsked /\ nth = Len(Plan) THEN "after" ELSE "collect"
    /\ UNCHANGED <<source, out, torn, option, todo, cased, digest, evaluation, copy, users, calls>>

\* Mutant: the source is not compared
NothingAfter ==
    \E page \in Pages :
        /\ Reads("after", page, TRUE, "rows")
        /\ UNCHANGED <<digest, evaluation, collection>>

DigestAfter ==
    \E page \in Pages :
        /\ Reads("after", page, wiki[page] = digest[page], "rows")
        /\ UNCHANGED <<digest, evaluation, collection>>

\* load_runs may find a row that a report cannot be made of
ValidateRows == (\E valid \in BOOLEAN : Goes("rows", valid, "corpus")) /\ UNCHANGED cased

-----------------------------------------------------------------------------
(* What it writes *)

Write(file, text, next) ==
    /\ doing = file /\ doing' = next
    /\ out' = [out EXCEPT ![file] = [by |-> calls, of |-> text]]
    /\ UNCHANGED <<source, option, todo, cased, digest, evaluation, collection, users, calls>>

\* copy_inputs copies the files that were read at the beginning
CopyCorpus == Write("corpus", inputs.corpus, "labels") /\ UNCHANGED torn
CopyLabels == Write("labels", inputs.labels, "runs") /\ UNCHANGED torn
WriteRuns == Write("runs", seen, IF option.report THEN "digests" ELSE "collection") /\ UNCHANGED torn

WriteCollection ==
    /\ Write("collection", Evaluated \cup (IF option.report THEN {"report"} ELSE {}), "collected")
    /\ torn' = FALSE

-----------------------------------------------------------------------------
(* verified_source_benchmark.py, a command of its own or the last step of the other *)

CallBenchmark ==
    \E sourced \in BOOLEAN :
        Call([collect |-> FALSE, pinned |-> FALSE, dry |-> FALSE, report |-> TRUE,
              sourced |-> sourced], "digests")

\* The digests of the files are of what is there, whoever wrote it
FilesThere == \A file \in Evaluated : out[file] # Gone

DigestFiles ==
    /\ doing = "digests" /\ ~option.sourced /\ FilesThere
    /\ doing' = "report"
    /\ UNCHANGED <<source, out, torn, option, todo, cased, digest, evaluation, collection, users,
                   calls>>

DigestAgain ==
    \E page \in Pages :
        /\ doing = "digests" /\ option.sourced /\ FilesThere /\ head # Gone
        /\ Reads("digests", page, TRUE, "validate")
        /\ again' = [again EXCEPT ![page] = wiki[page]]
        /\ UNCHANGED <<digest, moved, collection>>

ValidateAgain ==
    \E page \in Pages :
        /\ Reads("validate", page, out["corpus"] = Part \/ wiki[page] = out["corpus"].of[page],
                 "compare")
        /\ UNCHANGED <<digest, evaluation, collection>>

\* A source that changed is a hard failure of the report, and of the command unless it collects
CompareAgain ==
    \E page \in Pages :
        /\ Reads("compare", page, TRUE, "report")
        /\ moved' = (moved \/ wiki[page] # again[page])
        /\ UNCHANGED <<digest, again, collection>>

WriteReport ==
    /\ Write("report", [file \in Evaluated |-> out[file]],
             IF option.collect THEN "collection" ELSE "evaluated")
    /\ UNCHANGED torn

-----------------------------------------------------------------------------
(* What comes in between *)

\* An error, an interrupt or a kill; the file that is being written is cut off
Stop ==
    /\ doing \notin Over /\ Fails
    /\ LET file == IF doing = "dry run" THEN "collection" ELSE doing
       IN  out' \in {out} \cup {[out EXCEPT ![f] = Part] : f \in {file} \cap OutputFiles}
    /\ UNCHANGED <<source, option, todo, cased, digest, evaluation, collection, users, calls>>

Change ==
    /\ changes < MaxChanges /\ changes' = changes + 1
    /\ UNCHANGED <<out, torn, doing, option, todo, cased, digest, evaluation, collection, calls>>

UserEdits ==
    /\ Change
    /\ \E page \in Pages, version \in 0..MaxSource :
        /\ wiki[page] \notin {Gone, version}
        /\ wiki' = [wiki EXCEPT ![page] = version]
        /\ touched' = [touched EXCEPT ![page] = @ + 1]
    /\ UNCHANGED <<head, inputs, recased>>

\* Commits what is there, which moves the checkout off its pin or back
UserCommits ==
    /\ Change
    /\ head \notin {Gone, Unborn, wiki} /\ head' = wiki
    /\ UNCHANGED <<wiki, inputs, touched, recased>>

\* A corpus for the pages as they are, or other queries and qrels
UserRewrites ==
    /\ Change
    /\ \/ inputs' = [inputs EXCEPT !.labels = @ + 1]
       \/ head # Gone /\ (\A page \in Pages : wiki[page] # Gone)
          /\ inputs' = [inputs EXCEPT !.corpus = wiki]
    /\ recased' = TRUE
    /\ UNCHANGED <<source, touched>>

UserRemoves ==
    /\ Change /\ doing \in Over
    /\ wiki' = NoTree /\ head' = Gone
    /\ UNCHANGED <<inputs, touched, recased>>

VerifiedNext ==
    \/ CallCollector \/ Clone \/ RequireClean \/ ValidateCommit \/ LoadInputs \/ ValidateHashes
    \/ DryRun \/ DigestBefore \/ Shadow \/ Ask \/ DigestAfter \/ ValidateRows
    \/ CopyCorpus \/ CopyLabels \/ WriteRuns \/ WriteCollection
    \/ CallBenchmark \/ DigestFiles \/ DigestAgain \/ ValidateAgain \/ CompareAgain \/ WriteReport
    \/ Stop \/ UserEdits \/ UserCommits \/ UserRewrites \/ UserRemoves

VerifiedSpec == VerifiedInit /\ [][VerifiedNext]_verifiedVars

-----------------------------------------------------------------------------
(* Properties *)

PutBack(page) == touched[page] > 1

\* "source tree mutated during run collection", "input_artifacts": the rows of a collection are
\* of the source it digested, which is the pinned one unless users edited it meanwhile, and the
\* files its report lists are its own.  A report beside them is of these files, and where it
\* shows no change, of pages with the hashes of its corpus.
CollectionOfOneSource ==
    /\ doing = "collected" =>
        /\ \A pair \in seen : digest[pair[1]] = pair[2] \/ PutBack(pair[1])
        /\ option.pinned => \A page \in Pages : digest[page] = 0 \/ touched[page] > 0
        /\ ~recased => out["corpus"].of = cased.corpus /\ out["labels"].of = cased.labels
    /\ doing \in Over /\ ~torn /\ out["collection"] \notin {Gone, Part} =>
        \A file \in out["collection"].of :
            IF file = "report" /\ out[file] # Part
            THEN out[file].of = [read \in Evaluated |-> out[read]]
            ELSE file # "report" => out[file].by = out["collection"].by
    /\ doing \in {"collected", "evaluated"} /\ option.report /\ option.sourced /\ ~moved
        /\ out["corpus"] # Part =>
        \A page \in Pages : again[page] = out["corpus"].of[page] \/ PutBack(page)

\* "cold/warm mode labeled": a cold query meets hits of none but earlier queries of its slug, a
\* warm one those of the queries before it in its run, a primed one those of all of them.
Place(query) == CHOOSE i \in DOMAIN Asked : Asked[i] = query
AsLabeled(m) ==
    LET earlier == {Asked[i] : i \in 1..(Place(m.query) - 1)}
    IN  CASE m.phase = "cold" -> m.hits = {q \in earlier : Slug[q] = Slug[m.query]}
          [] m.phase = "warm" -> m.hits = earlier
          [] m.phase = "primed" -> m.hits = {Asked[i] : i \in DOMAIN Asked}
ColdIsCold == \A m \in met : AsLabeled(m)
=============================================================================
