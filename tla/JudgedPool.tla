------------------------------ MODULE JudgedPool ------------------------------
(***************************************************************************)
(* The judged pool of NoMIRACL.  nomiracl_ko.py acquires the pinned files  *)
(* of the dataset, and materializes the documents its judgments name as a  *)
(* wiki and a bundle; nomiracl_ko_runner.py, which has no dataset at hand, *)
(* searches the wiki with the queries of the bundle and reports.  One      *)
(* command runs at a time, file after file; users edit, remove and put     *)
(* back files meanwhile, all but the provenance, and a command fails or is *)
(* killed at any step.                                                     *)
(***************************************************************************)
EXTENDS Naturals, FiniteSets

CONSTANTS
    SourceFiles,    \* of the dataset: its passages, and the topics and judgments of two splits
    PoolPages,      \* of the wiki, one for each document of the pool
    SearchModes,    \* lexical, vector, plain-rrf and hybrid
    Nowhere,        \* no file
    MaxText,        \* bound: versions of a source file, 0 the pinned one
    MaxMeddlings,   \* bound: changes by users
    MaxPoolCalls    \* bound: commands

BundleFiles == {"corpus.jsonl", "queries.jsonl", "qrels.jsonl"}
PoolOutputs == PoolPages \cup BundleFiles
PoolObjects == SourceFiles \cup PoolOutputs
Texts == 0..MaxText

ASSUME PoolAssumption ==
    /\ SourceFiles \cap PoolOutputs = {} /\ PoolPages \cap BundleFiles = {}
    /\ PoolPages # {} /\ SourceFiles # {} /\ SearchModes # {}
    /\ MaxText \in Nat /\ MaxMeddlings \in Nat /\ MaxPoolCalls \in Nat

\* What a user leaves of a file: as it was made, with other words, or with other ids or judgments
Edits == {"none", "words", "ids"}
\* What a file of the wiki or the bundle is made of
Made(versions) == [of |-> versions, edit |-> "none"]
Unread == [file \in SourceFiles |-> Nowhere]
Official == [file \in SourceFiles |-> 0]

SourceVersions == [SourceFiles -> Texts \cup {Nowhere}]
Writings == [of : SourceVersions, edit : Edits]
Provenances == [sums : [BundleFiles -> Writings], pool : SourceVersions]

ASSUME NowhereIsNoFile == Nowhere \notin Texts \cup Writings \cup Provenances

VARIABLES
    stored,         \* the version of a source file, what an output is made of; Nowhere
    output,         \* whether its directories are there
    provenance,     \* of the bundle: its checksums, and the pool the materializer had in memory
    task, poolAt,   \* the command, and its step or how it ended
    left,           \* what the step has not read or written yet
    fetching,       \* the source file that is being downloaded
    digested,       \* the files, as they were when the command began
    rows,           \* the versions of the source files that were read
    loaded, indexed,   \* the bundle's rows and the wiki's pages, as the runner has them
    poolReport,     \* what the report that is published says the pool is of
    meddled, twice, \* ghosts: the files that changed since the command began, and again,
    unseen,         \* and those that did where no checksum was there to tell
    meddlings, poolCalls

memory == <<digested, rows, loaded, indexed>>
poolGhosts == <<meddled, twice, unseen, meddlings>>
files == <<stored, output, provenance>>
poolVars == <<files, task, poolAt, left, fetching, memory, poolReport, poolGhosts, poolCalls>>

NoMemory ==
    /\ digested' = [x \in PoolObjects |-> Nowhere] /\ rows' = Unread
    /\ loaded' = [x \in BundleFiles |-> Nowhere] /\ indexed' = [x \in PoolPages |-> Nowhere]

PoolInit ==
    /\ stored = [x \in PoolObjects |-> Nowhere] /\ output = FALSE /\ provenance = Nowhere
    /\ task = "none" /\ poolAt = "idle" /\ left = {} /\ fetching = Nowhere
    /\ digested = [x \in PoolObjects |-> Nowhere] /\ rows = Unread
    /\ loaded = [x \in BundleFiles |-> Nowhere] /\ indexed = [x \in PoolPages |-> Nowhere]
    /\ poolReport = Unread
    /\ meddled = {} /\ twice = {} /\ unseen = {} /\ meddlings = 0 /\ poolCalls = 0

-----------------------------------------------------------------------------
(* Steps of a command *)

PoolOver == {"idle", "acquired", "made", "reported", "failed"}

\* The files, or the modes of search, that a step takes one after the other
Share(stage) ==
    CASE stage \in {"files", "source", "rows", "digest", "digest again"} -> SourceFiles
      [] stage \in {"pages", "index"} -> PoolPages
      [] stage \in {"bundle", "validate", "load", "gate"} -> BundleFiles
      [] stage = "ids" -> {"corpus.jsonl"}
      [] stage = "labels" -> {"queries.jsonl", "qrels.jsonl"}
      [] stage \in {"trees", "trees again"} -> PoolOutputs
      [] stage = "search" -> SearchModes
      [] OTHER -> {}

To(stage) == poolAt' = stage /\ left' = Share(stage)
FailsPool == To("failed")

Takes(stage, x, holds, next) ==
    /\ poolAt = stage /\ x \in left
    /\ IF ~holds THEN FailsPool
       ELSE IF left = {x} THEN To(next)
       ELSE poolAt' = stage /\ left' = left \ {x}
    /\ UNCHANGED <<task, poolGhosts, poolCalls>>

BeginTask(what, first) ==
    /\ poolAt \in PoolOver /\ poolCalls < MaxPoolCalls
    /\ poolCalls' = poolCalls + 1
    /\ task' = what /\ To(first) /\ NoMemory
    /\ meddled' = {} /\ twice' = {}
    /\ UNCHANGED <<files, fetching, poolReport, meddlings>>

-----------------------------------------------------------------------------
(* acquire_nomiracl_ko *)

\* The metadata of the host are not asked for with --skip-hf-metadata
CallAcquire ==
    /\ \E asked \in BOOLEAN : BeginTask("acquire", IF asked THEN "metadata" ELSE "files")
    /\ UNCHANGED unseen

VerifyMetadata ==
    /\ poolAt = "metadata" /\ \E pinned \in BOOLEAN : To(IF pinned THEN "files" ELSE "failed")
    /\ UNCHANGED <<files, task, fetching, memory, poolReport, poolGhosts, poolCalls>>

\* A file that is there is never downloaded again
ReuseFile ==
    \E file \in SourceFiles :
        /\ fetching = Nowhere /\ stored[file] # Nowhere
        /\ Takes("files", file, stored[file] = 0, "source")
        /\ UNCHANGED <<files, fetching, memory, poolReport>>

BeginDownload ==
    /\ poolAt = "files" /\ fetching = Nowhere
    /\ \E file \in left : stored[file] = Nowhere /\ fetching' = file
    /\ UNCHANGED <<files, task, poolAt, left, memory, poolReport, poolGhosts, poolCalls>>

\* It takes the name of a file that a user put there meanwhile
EndDownload ==
    /\ fetching # Nowhere
    /\ \E right \in BOOLEAN :
        /\ Takes("files", fetching, right, "source")
        /\ stored' = IF right THEN [stored EXCEPT ![fetching] = 0] ELSE stored
    /\ fetching' = Nowhere
    /\ UNCHANGED <<output, provenance, memory, poolReport>>

\* Mutant: the digests of a source that is there are not verified
TrustSource ==
    \E file \in SourceFiles :
        /\ Takes("source", file, stored[file] # Nowhere, "rows")
        /\ UNCHANGED <<files, fetching, memory, poolReport>>

\* validate_nomiracl_ko_source: the digests of all files, then their rows
VerifySource ==
    \E file \in SourceFiles :
        /\ Takes("source", file, stored[file] = 0, "rows")
        /\ UNCHANGED <<files, fetching, memory, poolReport>>

ReadRows ==
    \E file \in SourceFiles :
        /\ Takes("rows", file, stored[file] # Nowhere, "count")
        /\ rows' = [rows EXCEPT ![file] = stored[file]]
        /\ UNCHANGED <<files, fetching, digested, loaded, indexed, poolReport>>

\* Other rows may join, and have the official counts; directories are made for the output
CountRows ==
    /\ poolAt = "count"
    /\ \E counted \in BOOLEAN :
        /\ rows = Official => counted
        /\ To(IF ~counted THEN "failed" ELSE IF task = "make" THEN "pages" ELSE "list acquired")
        /\ output' = (output \/ (counted /\ task = "make"))
    /\ UNCHANGED <<stored, provenance, task, fetching, memory, poolReport, poolGhosts, poolCalls>>

\* A manifest is written when one was asked for; nothing reads it
Lists(stage, next) ==
    /\ poolAt = stage /\ To(next)
    /\ UNCHANGED <<files, task, fetching, memory, poolReport, poolGhosts, poolCalls>>

ListAcquired == Lists("list acquired", "acquired")

-----------------------------------------------------------------------------
(* materialize_nomiracl_ko *)

\* The output directory is missing or empty
CallMake ==
    /\ BeginTask("make", IF output THEN "failed" ELSE "digest")
    /\ unseen' = IF output THEN unseen ELSE {}

DigestSource ==
    \E file \in SourceFiles :
        /\ Takes("digest", file, TRUE, "source")
        /\ digested' = [digested EXCEPT ![file] = stored[file]]
        /\ UNCHANGED <<files, fetching, rows, loaded, indexed, poolReport>>

Writes(stage, x, next) ==
    /\ Takes(stage, x, TRUE, next)
    /\ stored' = [stored EXCEPT ![x] = Made(rows)]
    /\ UNCHANGED <<output, provenance, fetching, memory, poolReport>>

\* Pages are named by a digest of the document's id
WritePage == \E page \in PoolPages : Writes("pages", page, "bundle")
WriteBundleFile == \E file \in BundleFiles : Writes("bundle", file, "provenance")

\* The checksums are of the files as they are now, the pool is that of the rows in memory
WriteProvenance ==
    /\ poolAt = "provenance"
    /\ IF \A file \in BundleFiles : stored[file] # Nowhere
       THEN /\ provenance' = [sums |-> [file \in BundleFiles |-> stored[file]], pool |-> rows]
            /\ To("validate")
       ELSE FailsPool /\ UNCHANGED provenance
    /\ UNCHANGED <<stored, output, task, fetching, memory, poolReport, poolGhosts, poolCalls>>

\* validate_bundle: the rows of the files join, which other ids may do as well, and the files have
\* the checksums of the provenance
Summed(file) == provenance # Nowhere /\ stored[file] = provenance.sums[file]
Validates(stage, next) ==
    \E file \in BundleFiles, joins \in BOOLEAN :
        /\ (stored[file] # Nowhere /\ stored[file].edit # "ids") => joins
        /\ Takes(stage, file, joins /\ Summed(file), next)
        /\ UNCHANGED <<files, fetching, memory, poolReport>>

ValidateMade == Validates("validate", "digest again")

\* The digest shows a change when all is written: wiki and bundle stay
DigestSourceAgain ==
    \E file \in SourceFiles :
        /\ Takes("digest again", file, stored[file] = digested[file], "made")
        /\ UNCHANGED <<files, fetching, memory, poolReport>>

-----------------------------------------------------------------------------
(* run_nomiracl_ko_benchmark *)

CallRun ==
    /\ BeginTask("run", IF output THEN "trees" ELSE "failed")
    /\ UNCHANGED unseen

DigestTrees ==
    \E x \in PoolOutputs :
        /\ Takes("trees", x, TRUE, "ids")
        /\ digested' = [digested EXCEPT ![x] = stored[x]]
        /\ UNCHANGED <<files, fetching, rows, loaded, indexed, poolReport>>

ReadsBundle(stage, next) ==
    \E file \in BundleFiles :
        /\ Takes(stage, file, stored[file] # Nowhere, next)
        /\ loaded' = [loaded EXCEPT ![file] = stored[file]]
        /\ UNCHANGED <<files, fetching, digested, rows, indexed, poolReport>>

\* load_nomiracl_ko_bundle: the documents' ids are those that were read while the bundle was
\* validated, queries and judgments are read again
ReadCorpusIds == ReadsBundle("ids", "load")
LoadBundle == Validates("load", "labels")
ReadLabels == ReadsBundle("labels", "scope")

\* The digests of a pool: its documents' and queries' ids, and whole judgments
InPool(file, content) ==
    /\ content # Nowhere /\ content.of = provenance.pool
    /\ content.edit \in (IF file = "qrels.jsonl" THEN {"none"} ELSE {"none", "words"})

\* validate_nomiracl_evaluation_scope: the ids in memory are those of the pool; of the judgments
\* there only the numbers are compared, and the file is read again for their digest
Scope ==
    /\ poolAt = "scope"
    /\ \E counted \in BOOLEAN :
        /\ InPool("qrels.jsonl", loaded["qrels.jsonl"]) => counted
        /\ To(IF /\ counted
                 /\ InPool("corpus.jsonl", loaded["corpus.jsonl"])
                 /\ InPool("queries.jsonl", loaded["queries.jsonl"])
                 /\ InPool("qrels.jsonl", stored["qrels.jsonl"])
              THEN "gate" ELSE "failed")
    /\ UNCHANGED <<files, task, fetching, memory, poolReport, poolGhosts, poolCalls>>

\* evaluate_public_release_gate validates the bundle again
GatePool == Validates("gate", "limit")

\* limit_nomiracl_bundle: fewer queries may be asked for, but not for none
LimitQueries ==
    /\ poolAt = "limit" /\ \E positive \in BOOLEAN : To(IF positive THEN "index" ELSE "failed")
    /\ UNCHANGED <<files, task, fetching, memory, poolReport, poolGhosts, poolCalls>>

\* The service reads the wiki once
IndexPage ==
    \E page \in PoolPages :
        /\ Takes("index", page, TRUE, "map")
        /\ indexed' = [indexed EXCEPT ![page] = stored[page]]
        /\ UNCHANGED <<files, fetching, digested, rows, loaded, poolReport>>

\* build_path_to_original_id_map: every page is of a document of the bundle, and every document
\* has one page
MapPages ==
    /\ poolAt = "map"
    /\ To(IF \A page \in PoolPages : indexed[page] # Nowhere /\ indexed[page].edit # "ids"
          THEN "search" ELSE "failed")
    /\ UNCHANGED <<files, task, fetching, memory, poolReport, poolGhosts, poolCalls>>

\* run_mode_queries: every query is asked of that index, its results are mapped and measured
SearchMode ==
    \E mode \in SearchModes :
        /\ Takes("search", mode, TRUE, "trees again")
        /\ UNCHANGED <<files, fetching, memory, poolReport>>

DigestTreesAgain ==
    \E x \in PoolOutputs :
        /\ Takes("trees again", x, stored[x] = digested[x], "report")
        /\ UNCHANGED <<files, fetching, memory, poolReport>>

\* validate_public_report; what the report is built of is in memory
CheckReport ==
    /\ poolAt = "report" /\ \E valid \in BOOLEAN : To(IF valid THEN "publish" ELSE "failed")
    /\ UNCHANGED <<files, task, fetching, memory, poolReport, poolGhosts, poolCalls>>

\* The report shows the pool of the provenance it loaded; it is written whole, or not at all
ReportPool ==
    /\ poolAt = "publish" /\ To("list report")
    /\ poolReport' = provenance.pool
    /\ UNCHANGED <<files, task, fetching, memory, poolGhosts, poolCalls>>

ListReport == Lists("list report", "reported")

-----------------------------------------------------------------------------
(* What comes in between *)

\* An error, an interrupt or a kill: the file that is being written is cut off, a download is not
\* there, and everything else stays
BreakOff ==
    /\ poolAt \notin PoolOver /\ FailsPool
    /\ fetching' = Nowhere
    /\ LET written == IF poolAt \in {"pages", "bundle"} THEN left ELSE {}
       IN  stored' \in {stored}
               \cup {[stored EXCEPT ![x] = [of |-> rows, edit |-> "ids"]] : x \in written}
    /\ UNCHANGED <<output, provenance, task, memory, poolReport, poolGhosts, poolCalls>>

\* A user edits or removes a file, or puts one back; a source file may be a copy of their own
Meddle ==
    /\ meddlings < MaxMeddlings /\ meddlings' = meddlings + 1
    /\ \E x \in PoolObjects :
        /\ IF x \in SourceFiles
           THEN \E text \in (Texts \cup {Nowhere}) \ {stored[x]} :
                    stored' = [stored EXCEPT ![x] = text]
           ELSE /\ stored[x] # Nowhere
                /\ stored' \in {[stored EXCEPT ![x] = Nowhere]}
                       \cup {[stored EXCEPT ![x].edit = edit] : edit \in Edits \ {stored[x].edit}}
        /\ twice' = IF x \in meddled THEN twice \cup {x} ELSE twice
        /\ meddled' = meddled \cup {x}
        /\ unseen' = IF x \in PoolPages \/ (task = "make" /\ poolAt \notin PoolOver)
                     THEN unseen \cup {x} ELSE unseen
    /\ UNCHANGED <<output, provenance, task, poolAt, left, fetching, memory, poolReport, poolCalls>>

ClearOutput ==
    /\ poolAt \in PoolOver /\ output
    /\ stored' = [x \in PoolObjects |-> IF x \in PoolOutputs THEN Nowhere ELSE stored[x]]
    /\ output' = FALSE /\ provenance' = Nowhere
    /\ UNCHANGED <<task, poolAt, left, fetching, memory, poolReport, poolGhosts, poolCalls>>

PoolNext ==
    \/ CallAcquire \/ VerifyMetadata \/ ReuseFile \/ BeginDownload \/ EndDownload
    \/ VerifySource \/ ReadRows \/ CountRows \/ ListAcquired
    \/ CallMake \/ DigestSource \/ WritePage \/ WriteBundleFile \/ WriteProvenance
    \/ ValidateMade \/ DigestSourceAgain
    \/ CallRun \/ DigestTrees \/ ReadCorpusIds \/ LoadBundle \/ ReadLabels \/ Scope \/ GatePool
    \/ LimitQueries \/ IndexPage \/ MapPages \/ SearchMode \/ DigestTreesAgain
    \/ CheckReport \/ ReportPool \/ ListReport
    \/ BreakOff \/ Meddle \/ ClearOutput

PoolSpec == PoolInit /\ [][PoolNext]_poolVars

-----------------------------------------------------------------------------
(* Properties *)

\* "source_files", "evaluation_pool": the runner sees no dataset, and yet the documents that a
\* published report searched, its queries and its judgments are those of the pinned files, and
\* the judgments those of the pool it shows.  The exceptions are a source file that changed while
\* the bundle was made of it, a page of the wiki, for which there is no checksum, or a file of the
\* bundle that changed before it was summed, and what was changed and put back during the run.
\* But for the last, all are of the trees it digested.
OfficialPool ==
    poolAt \in {"list report", "reported"} =>
        \A x \in PoolOutputs \ twice :
            LET content == IF x \in PoolPages THEN indexed[x] ELSE loaded[x]
            IN  /\ content # Nowhere /\ content = digested[x]
                /\ \A file \in SourceFiles : content.of[file] = 0 \/ file \in unseen
                /\ content.edit = "none" \/ x \in unseen
                /\ x = "qrels.jsonl" => content = Made(poolReport)
=============================================================================
