# llmwiki-serve in TLA+

`llmwiki-serve` serves one local directory of Markdown (a *source*) to agents over HTTP, MCP and
A2A. It keeps nothing of its own: every answer is derived from the files, and everything it stores
(indexes, vectors, graphs, page hits, records of running servers) is derived data that may be
removed. What makes it correct is therefore that derived data is never taken for what it is not:
an index of older files, a graph of another version, vectors of another snapshot, the record of
another process. All of it is shared by request threads, by processes over one root, and with the
people and producers who edit the files meanwhile; and what is answered from it has to be what the
request asked for, at whichever surface. That is what these modules are about.

Paths below are under `src/llmwiki_serve/` unless they say `scripts/`. The `_proof` modules hold
the theorems TLAPS checks, the `MC` modules and `.cfg` files the instances TLC checks;
`PROJECT.json` maps every definition to the lines it stands for.

## Inventory

| Component | State | Operations | Hard | Correct when |
|---|---|---|---|---|
| Projection freshness (`service.py` 236-420, 1400-1931) | `_retrieval_snapshot`, `_index_lock`, signature caches, the refresh interval, the last producer marker | answer from the published index; check, scan, load, publish; refresh | a pass over the files is not atomic; threads share caches; mtimes may be preserved; a failing build; a restart over a durable store | an answer is of the files that are there, as late as its mode promises |
| Git sync (`git_sync.py`) | in-flight sync, generation, outcome, cooldown | start, join, wait with a limit; fetch, compare, fast-forward | users and the remote act between any two commands; a command or thread fails | syncs never interleave; only fast-forwards; a counted move reaches every later answer |
| Projection store (`projection_store.py`) | records in memory or Redis, availability | get, put, invalidate | a failing Redis, the fallback that follows, damaged payloads | a store changes no answer |
| Graph store (`graph_store.py`) | three tables of SQLite | get, put, invalidate | reads of three statements among writers; damaged rows | a graph is whole, of the request's index and scope |
| Vector cache (`vector.py`, `service.py` 759-843) | salt, records of three files, lock files; loaded indexes by `id()` | chunk, embed, look up, build under a lock, publish, retry, clear, search | processes that end under a lock, stale locks, reused addresses, partly written records; words at the limit of a chunk | a search ranks with the vectors of its own snapshot, and exactly |
| Managed-context sidecar (`managed_context.py`) | secret, record of page hits, locks | read boosts, count hits | read-modify-write by several processes, crashes, clocks going back | no hit lost, one secret, no search waits for ever |
| Instance registry (`instances.py`, `cli.py` serve) | record files, the process table, sockets | register, replace, remove; list, probe, prune | pids and endpoints are reused between two steps of the listing | running servers are listed and keep their records; stale ones go |
| Source adapters (`adapters.py`, `parser.py`, `okf.py`, `projection.py`) | none | detect, parse, link, project | two sets of rules for one tree; links and tags shared with drafts | an unchanged signature means an unchanged answer; drafts stay hidden |
| Retrieval (`search.py`, `service.py` 600-760, 1400-1440, `guided_retrieval.py`) | none (per index) | rank, page, fuse variants, suppress, seed | lists are cut before pages are excluded and fused | pages of a result partition it; a better page is never behind a worse one |
| Focused reading (`read_focus.py`) | none | number, select, clip, continue | pages larger than the budget | what is cut off is named, and following it reads the whole page |
| Graph engine (`graph_engine.py`, `service.py` 1200-1544) | none | neighbours, paths, markers, neighbourhood, approved view | limits on depth, nodes and paths | what it returns is there, within the limits, and all of it unless truncated |
| Query action judgement (`query_action_judgment.py`) | none | one external call per request | timeouts, malformed answers | whatever fails, the unjudged context is served |
| Surfaces (`api.py`, `models.py`, `errors.py`, `cli.py`) | the tools enabled, titles at start | HTTP, MCP, its stream, A2A, command line | responses put together from two snapshots; five parsers of the same arguments | a mixed answer shows; the sides call the service alike; tools listed can be called |
| I/O logging (`io_logging.py`) | the log's lock | one event per request | the disk fails after the answer was sent | every answer leaves one true event |
| Benchmark pipeline (`scripts/benchmark_adapters/`) | archive, bundle, wiki, run directory | acquire, materialize, run, validate | edits and kills between any two steps, two at a time | a directory is whole or not there; a report is of the files it names |
| Verified source benchmarks (`scripts/collect_verified_source_runs.py`, `scripts/verified_source_benchmark.py`) | checkout, state directories, seven output files | collect, evaluate | the source changes under a collection; files replaced one by one | a collection is of one source; a cold query is cold |

How they interact: a request ensures the checkout is fresh (git sync), takes the index lock and
reuses or rebuilds the index (projection freshness, projection store), then works on that snapshot
without the lock (retrieval, vector cache, graph store, graph engine, focused reading), counts hits
(sidecar), and reads the sync status into its response, which the middleware logs. Threads of a
process share the service, its caches and locks; processes share Redis, the SQLite file, the vector
cache directory, the sidecar directory and the registry directory, and coordinate through files,
Redis and SQLite only. The scripts of the benchmarks run the service over copies of their own.

## Modules

| Module | Models | Over |
|---|---|---|
| `ProjectionCache` | the index lock, interval, signature and marker caches, store lookup, load, publication, failed builds, restarts; producers edit files between any two reads | processes, threads, stores, files |
| `Checkout` | what git sync promises (abstract) | branches, commits |
| `GitSync` | `ensure_fresh` and the sync thread, one step per git command | requests, syncs, branches, commits |
| `GitServe` (extends `GitSync`) | the two composed: generation check, rebuild, status in the response | as `GitSync` |
| `SourceTree` | which files are pages, which adapter takes a directory, what it reads of it; what the service watches of the same tree | names, contents |
| `HitRecord` | decay, counting, bounding of a record of hits | keys |
| `HitLedger` (extends `HitRecord`) | what the sidecar promises (abstract) | secrets, pages |
| `ManagedSidecar` (extends `HitRecord`) | searches that read, then update secret and record under an in-process lock and a lock directory | processes, threads, pages |
| `VectorCache` | loaded indexes, salt, lock files and records on disk, refreshes, crashes | processes, requests, addresses, contents |
| `VectorChunks` | chunking, sidecars and the exact search of an index | words, pages |
| `DerivedStores` | Redis with its per-process fallback, and the SQLite graph store, under a service that builds and publishes | processes, requests, contents |
| `InstanceRegistry` | servers that register, bind, stop or are killed; a listing that reads, judges and prunes | pids, endpoints |
| `Projection` | the graph of a wiki, and the view of it a request may see | pages, other nodes, relations |
| `GraphQuery` (extends `Projection`) | neighbours, backlinks, neighbourhood, paths and marker lookups, one step per entry of the queue or per edge | requests |
| `Retrieval` | ranking, tie bands, exclusion, fusion of variants, vector and hybrid search, over given scores | pages |
| `FocusedRead` | sections, budgets, clips and the reads that follow them | pages |
| `Serving` | a request from its body to its logged answer, at every surface, while indexes are published; the judge | requests, contents |
| `McpStream` | what the streamable HTTP surface lets through to the SDK and in which form | headers, bodies |
| `SurfaceCalls` | options and environment of a server, and what its five sides make of one request | arguments in every form |
| `ArchiveAcquire`, `BenchmarkRun` | acquisition, materialization, validation and the retrieval run | files, acquirers |
| `JudgedPool` | the pinned files of NoMIRACL, the pool and the bundle made of them, the run that searches it, file by file | files, pages |
| `VerifiedSources` | the collector from its checkout to its report, and the evaluation of its output | queries, pages |

An action is a stretch of code that no other thread, process or user can come between in a way that
matters: a read of one file, a git command, a file replaced, a SQL statement or transaction, what
is done under a lock nobody else reads past. Its guard is the code's condition; where the code has
a `try`, the failure is an action or a disjunct of its own. Data is abstract: contents are values,
a stamp stands for device, inode and mtime, a signature is a function of contents and stamps, an
index is the contents it was projected from. Threads wait at any point and for any time; timeouts
happen at any moment they are armed.

Machines that share nothing are checked in one run, each from its own initial states with the
others at rest: `SourceTree` beside the git machine, `VectorChunks` beside `VectorCache`,
`Retrieval` and `FocusedRead` beside `GraphQuery`, `McpStream` and `SurfaceCalls` beside `Serving`,
`VerifiedSources` and `JudgedPool` beside `BenchmarkRun`. The `MC` modules say how.

Choices worth knowing:

- `ProjectionCache`: an edit may keep a file's stamp (a preserved mtime). A load reads file by
  file, so an index may mix versions: that is the case the marker `raced` records. `GitServe`
  summarises this module as one build step per request.
- `GitSync`: a sync is named by its Event. `GitServe` reads the status as a separate step, as
  `api.py` does.
- `SourceTree`: paths are sequences of names; stamps and symbolic links are left out, contents are
  what the adapters tell apart. Where the adapters see what the signature does not, the properties
  name it (`PROJECT.json` lists these as findings). `HubsWhateverMarkers` compares what an LLMWiki
  source is when served alone with what `load_wiki` really loads of the directory it lies in;
  `OwnRules` names the adapters under which it is not kept (a Dendron workspace has no hubs but in
  its one vault, Logseq and a Quartz `content` load other directories, OKF goes by types).
- `ManagedSidecar`: one namespace and scope. A file that cannot be read passes for a missing one,
  also under the lock (`blind`), as in `read_json_payload`.
- `VectorCache`: `id()` of an index is an address, which a new index may be given once nothing
  refers to the old one; the digest of an index need not tell its contents apart. Creating and
  signing a lock file is one step, judging it stale and removing it are two, and either removal may
  fail: a lock file that its holder could not remove is stale only once the process has ended, and
  `BusyIsRetryable` excepts it until then (`Abandoned`). A pid reused within a
  second of a create time, and an embedding that never returns, are left out.
- `VectorChunks`: words and labels are lengths, vectors the words they were made of; rounding of
  floats is left out. Headings that leave a chunk no room and skipped heading levels are exceptions
  of `ChunksHoldWords` (findings).
- `DerivedStores`: a build reads the source at one instant, after the signature was taken (mixing
  is in `ProjectionCache`). A row of `graph_snapshots` holds a digest, taken not to collide; counts
  follow from it. Contention between SQLite writers is a failure of the later one. Files may be
  touched without a change at any time, which makes a request look its index up again. The refresh
  interval, the marker and the `latest` key, which nothing reads, are left out. `_index_lock` is
  not fair, so no request is promised the lock: requests are bounded by `MaxAsks`.
- `InstanceRegistry`: a record is a file for an endpoint and a pid, holding a create time. A listing
  looks at the process of a record twice, for whether it runs and for its create time, and any
  number of steps of others may come in between; a removal that fails ends the listing.
  `StaleRecordsGo` names both (`Vanished`, the stage `failed`). Parsing
  of command lines, wrapper processes and manual ports are left out.
- `GraphQuery`: an entry of a queue is the way it was reached, of which the engine keeps the part
  it needs. Seeds and markers are taken as resolved to nodes of the view. Ids of pages are what
  their front matter says and need not differ: pages with one id are one node, that of the first
  of them, and a draft may be shown in the place of the approved page whose id it has (a finding;
  `ApprovedOnly` says that this is the only way).
- `Retrieval`: pages have an id each (those that share one are excluded together, and a fusion takes
  them for one). Scores are whole numbers, which stand for the order of BM25 sums and cosines;
  `Scale` is the least common multiple of the ranks' denominators 61 to 64, so that reciprocal ranks
  add up exactly. `DepthMin` 3 stands for 256 candidates. `Room`: suppressed pages and the limit
  together fit the least depth; beyond it a hybrid search may answer fewer. With an identifier for a
  query the guard is a set of pages of its own: the query need not match all of them (`min_score`
  cuts some, a query of stop words scores none), and one that only a variant or the vectors find may
  be cut before the guard is applied (a finding): `Assured` has those that cannot be missed.
- `FocusedRead`: a reader follows `remaining_sections` by number. A page edited between two reads
  is not modelled. A clipped first section is not in the `remaining_sections` of a focused read,
  though it is in a plain read's.
- `Serving`: requests share only the published index, hence the run has one. `MixedShows` says what
  an answer of two snapshots lets its reader see. A captured body that cannot be read, redacted or
  encoded ends its request without an event.
- `McpStream`, `SurfaceCalls`: arguments are parsed each for itself, so that one is given at a time,
  in every form. Exceptions are named in `Odd` and `Ambiguous` ("t" for true and
  "2.0" for an integer on `/mcp`; a number for a text, which `/mcp` drops and query strings and
  options take for its text; commas, blanks and repetitions in lists).
- `BenchmarkRun`: acquisitions run at the same time, later commands one at a time; the cached
  archive is not replaced between its hash and its extraction.
- `VerifiedSources`: one command at a time; the inputs are read at one time; a commit stands for
  its tree; a checkout is removed only between commands. A file cut off by a kill may still be
  evaluated, and nothing detects a directory mixed from two runs: `CollectionOfOneSource` says
  what is still true of them. `torn`, `recased` and `touched` are ghosts.
- `JudgedPool`: one command at a time, whose steps take the files they read or write one by one, in
  any order. An output is the versions of the source files it was made of, and whether a user has
  since changed its words or its ids. Rows of other versions may join and have the official counts,
  and judgments the numbers of others. The provenance is edited by nobody; the limits on queries
  choose among what was loaded; what a search answers and how it is measured is left out. `meddled`,
  `twice` and `unseen` are ghosts: `OfficialPool` excepts what changed before it was summed, for
  which the code has no means to tell, and what changed twice during the run.

## Runs

| Run | Instance (distinct states) | Shows |
|---|---|---|
| `cache_strict` | 1 process, 2 threads, 1 file, 2 edits, durable store (437 thousand) | `StrictFreshnessUnlessRaced`, `LockReleased` |
| `cache_interval` | 1 thread, 2 files, a producer marker from the start, interval of 1 of 2 ticks, 2 edits, a fast-forward (7.0 million) | `IntervalVisibility`, `FastForwardServed` |
| `cache_revert` | 1 thread, 1 file, 2 edits (5 thousand) | `StrictFreshness` is violated (a finding) |
| `git_sync` | 1 request at a time, 2 syncs, 2 branches, 2 acts of users, 1 push, 1 failure (1.0 million) | `KeepsLocalWork` (implements `Checkout`), `StartedSyncsEnd` |
| `git_synced` | 2 requests, 2 syncs, 1 push, 1 failure; beside it trees of up to 2 files, 2 changes (4.0 million) | `SyncedAnswerUnlessUncounted`, `LateIsStaleUnlessEnded`; `AnswersAsStarted`, `HubsWhateverMarkers` |
| `sidecar` | 2 threads in 1 or 2 processes, 2 pages, 2 secrets, a failure or a blind read, a crash (655 thousand) | `BoostsWereReturned`, `KeepsLedger` (implements `HitLedger`), `EverySearchEnds` |
| `vectors` | 2 processes, 1 request in each, 2 refreshes of one, 2 addresses, a fault, or 2 where nothing is refreshed (`MCFaults`); beside it pages of up to 4 lines, chunks of 12 characters and 3 terms, blocks of 2 rows (839 thousand) | `VectorsOfSnapshot`, `BusyIsRetryable`; `ChunksHoldWords`, `AnswersAreExact` |
| `registry` | 2 pids, 2 endpoints, 3 processes, a fault before the third (462 thousand) | `ServersAreListed`, `RunningKeepsRecord`, `StaleRecordsGo` |
| `stores` | 2 threads in 1 or 2 processes of opposite policies, 2 contents, 3 requests, 2 edits, a fault (1.2 million) | `GraphIsWhole`, `AsWithoutStoresUnlessRaced`, `KeepsServing` |
| `queries` | graphs of 3 pages and 2 other nodes with up to 5 edges, or up to 2 where a draft has the id of an approved page, depth and limit to 3; beside it searches of 4 pages by 2 variants, answers of a publication, and reads of pages of up to 3 headings of 3 levels, of lengths 1, 3 and 6 with budget 5 (1.8 million) | `ApprovedOnly`, `WalksAnswered`, `RealPaths`; `EverythingOnce`, `BetterFirst`; `NothingLost` |
| `serving` | 1 request at every surface, 3 publications; beside it every combination of headers and `_meta` over 3 versions, and servers of every selection of tools with one argument in every form (1.2 million) | `MixedShows`, `LoggedAsSent`, `EveryRequestEnds`; `ForwardedAgrees`; `CallsAgree`, `ToolsAsListed` |
| `benchmark` | 2 acquirers, 2 files, up to 3 commands and 2 edits, together 4; beside it, in the same bounds, 3 queries and 2 pages of a pinned wiki, and 2 source files and 1 page of a judged pool (2.6 million) | `TargetWhole`, `PublishedOfItsTrees`; `CollectionOfOneSource`, `ColdIsCold`; `OfficialPool` |

The bounds are chosen so that the interesting histories fit: two edits make a change and its revert,
and the second can fall into the build that saw the first; two secrets, pids or addresses are what
reuse and replacement take; a single fault is enough for most error paths, with recovery as what
follows it; a lock file that outlives a failed removal and then its process takes two. Two threads
or requests are needed for each race found, in one process (locks) and in two (files, Redis,
SQLite). Users change a source once the service has looked at it (`ChangedOnceServed`): a change
before that is another tree to begin with. Depth and limit three put the limit at, below and beyond
what graphs of five nodes hold. Instances are reduced only where values are alike: `FilesAlike` and
`MCSymmetry` for files and acquirers, the first thread in the first process (`MCManagedSidecar`,
where one file operation fails at most), the first pid and endpoint (`MCInstanceRegistry`, which
also lets the third process start between listings only, lets nothing fail after it, and lets every
listing prune). In `DerivedStores.cfg` the first thread is in the process that falls back, the
second in either. `MaxClock`, `MaxEdits`, `MaxFaults` and their like bound histories and appear only
in guards, so no theorem depends on them. Runs end in states without successors once the bounds are
used up, which is why deadlock is not checked; the liveness properties say what must not get stuck.

Every property has a mutant in `PROJECT.json`: a plausible mistake in a mapped definition with which
the run finds the property violated. Types and the invariants `NoLostUpdate`, `OneSecret`,
`OneHolder`, `FreshSignature`, `ForcedReadsDisk`, `SaltKept`, `OneBuilderUnlessRobbed`,
`PublishedIsWhole`, `OneRecordPerPid`, `SingleFlight` and `NoRebuild` are proved and no run repeats
them; TLC checked them before they were.

Fairness: a thread that may take a step of the request, sync or listing it is in takes one some
time (`LockReleased`, `StartedSyncsEnd`, `EverySearchEnds`, `StaleRecordsGo`, `KeepsServing`): git
commands, probes and waits have time limits in the code, and everything else is local computation.
`BusyIsRetryable` also assumes that time passes (`Age`), that a refresh which waits for a lock gets
it (`PublishIndex`) and that a client retries. `EveryRequestEnds` assumes that a client which stays
connected sends its body, and that the time limit of a socket bounds each read of the judge.
Nothing is assumed of who gets a lock, of users, producers, crashes or failures.

## Proofs

The theorems hold for any number of processes, threads, files, pids and so on, any contents and any
bounds, under the assumptions named in the modules (`StoresAssumption` and so on: that Python's
`None` is no page, and the types of the constants), which TLC evaluates on every run. Assumptions
that say more: the history of commits has no cycles (`HistoryIsAcyclic`), ids of queries differ
(`QueryIdsAreUnique`), an unborn checkout has no tree (`UnbornIsNoTree`), the keys of a record are
finitely many (`KeysAreFinite`), and decay leaves a counter as it is in no time and never raises
it (`RecordAssumption`), what stands for nothing in a request is no text (`McpAssumption`), and no
text is both true and false, a number is no empty text, and the defaults are within the bounds
(`CallsAssumption`). A tree is one of a file system: what holds anything is a directory
(`TreeAssumption`). Words, labels and titles are not empty, and the least segment is within a chunk
(`ChunksAssumption`), as 200 and 1200 are.

- `ProjectionCache_proof`: all its safety properties and the types. The properties speak of
  answers already given; the invariant `IInv` says what a pass over the files knows while it runs:
  a pass no edit has disturbed has read what is on disk (`PassOK`), and each property's
  condition makes the pass that answered an undisturbed one (`Calm`). Until a build was raced,
  signatures and contents in every store go together.
- `GitSync_proof`: `SingleFlight` and `KeepsLocalWork`, the refinement of `Checkout`, from `GInv`: a
  running sync is the one in flight, and what it merges was published. Over `GitServe`,
  `SyncedAnswerUnlessUncounted` and `LateIsStaleUnlessEnded`, from `ServeInv`: what a sync has
  fetched since a request began is the remote's commit (`Fetched`, `Settled`), and an index recorded
  at the current generation is of the head, once every move is counted (`Seen`). Of `SourceTree`,
  `AnswersAsStarted` and `HubsWhateverMarkers`, for every tree: a scan that is current signs the
  tree as it is (`CurrentScanSigns`, by the lengths of directories' paths), and two trees with one
  signature that agree on `Unseen` are read as the same by every adapter (`LoadsAgree`, from
  `IncludedIsKept`). The attempt found what the small trees do not hold: `.wiki-compiler.json` and
  graphs under `.runtime-logs` belong to `Unseen`, and beside other markers a wiki at the root has
  hubs further down that it has not when it is served alone.
- `ManagedSidecar_proof`: `OneHolder`, `NoLostUpdate`, `OneSecret`, from `SInv`: who is inside has
  made the lock directory, and until a blind read what a search has read is what the file holds.
  `BoostsWereReturned`, and `KeepsLedger`, the refinement of `HitLedger`, from `LInv` and the lemmas
  on trimming: the ranks of a strict total order are a bijection onto 0 to n - 1, so that trimming
  keeps exactly the best `max_hit_entries`, and a bounded record loses nothing when it decays.
- `VectorCache_proof`: all its safety properties. `VectorsOfSnapshot` rests on `ObjectInv` (two
  living indexes never share an address, and an entry found by an address is of the index there),
  `NoRebuild` and the others on `Holding` (who is inside a lock owns its file, until it is robbed).
  Of `VectorChunks`: `AnswersAreExact` and `ChunksHoldWords` (`SearchesAreExact` and
  `ChunksHoldAllWords`), from `ChunksInv`, by which records, sidecars and the matrix are the chunks
  of all pages in order (`Located`, `IndexIs`). Every choice of rows has those that count, and
  either way of scoring gives each its score (`PositionsAre`, `NumpyScoresAre`, `PythonScoresAre`),
  so that the best of each page and then the best pages are found (`BestByPageIs`, `RankedIsExact`).
  That no word is lost goes by what has been done of a page: each word read is in the open paragraph
  or one before it (`ReadSoFar`), each word of a paragraph in the open segment or one before it
  (`SplitSoFar`, `CutUpTo`), and the reader has the headings above a line, of which the k-th is of
  level k unless a level is skipped (`Under`).
- `InstanceRegistry_proof`: `OneRecordPerPid` and `RunningKeepsRecord`, from `RInv`: what a listing
  is about to remove is the record of a process that ended, unless it was rewritten since.
  `ServersAreListed`, from `LInv`: a server that listens throughout a listing is in what it has read
  (`Seen`), and nothing else is listed as running there (`OnlyItself`).
  Of `Serving`: `MixedShows` and `LoggedAsSent`; the labels of an answer are of contents that were
  published, and nothing is sent or logged before there is an answer. Of `McpStream`:
  `ForwardedAgrees`, by the cases of a legacy handshake and of a body that is completed; completing
  a completed request changes nothing (`UnchangedAgain`). Of `SurfaceCalls`: `ToolsAsListed`, from
  `ListInv`; and `CallsAgree`: each value of an argument has one meaning, or none (`Meaning`,
  `OneMeaning`), of which every side parses nothing else unless the value is one of the exceptions
  (`HttpMeans` and its like), so that two sides that parse it agree.
- `DerivedStores_proof`: `GraphIsWhole` and `AsWithoutStoresUnlessRaced`, from `DInv`: whatever
  anybody holds under a signature was built under it, a stored graph is the graph of one such
  index, and until a race there is only one.
  Of `Retrieval`: `EverythingOnce` and `BetterFirst` (`PagesComeOnce` and `BetterComeFirst`). Each
  list of a search is a `Cut`: the first so many of the pages it is of, in the order of keys of
  numbers that no two pages share (`KeysDecide`, `TopRanked`); the bands of `BandTop` exist and keep
  apart what is apart (`BandsExist`, `BandsHold`); a sum of terms is no less where every term is no
  less (`SumsCompare`); and a list that is ordered by such sums keeps what all the lists under it
  agree on (`FusedIs`, `HybridIs`). That candidates are enough for an answer needs
  `DepthMin <= DepthCap`, as 256 and 1024 are in `vector.py`.
- `BenchmarkRun_proof`: `TargetWhole` and `PublishedOfItsTrees` (`BundlesAreOfInput` and
  `ReportsAreOfTheirTrees`), and of `VerifiedSources` `CollectionOfOneSource` and `ColdIsCold`. The
  idea of all: a file edited once has had two contents, so that if what was worked on differs from
  what was digested, the digest taken later differs too, unless the file was edited twice. Of
  `JudgedPool`: `OfficialPool`, from `PoolInv`, which follows the contents from command to command:
  the rows that a materialization goes on with are of files it verified (`RowsInv`), what is in the
  output was made of such rows and what has a checksum is as it was written (`WrittenInv`,
  `SummedInv`), what a run has read agrees with the first digest of its tree (`TreesInv`,
  `LoadedInv`, `IndexedInv`), and after the last one with what it has searched (`UnchangedInv`).
- `GraphQuery_proof`: `ApprovedOnly`, `WalksAnswered` and `RealPaths`, the whole contract of the
  engine. A walk is a breadth-first search: after `t` nodes were taken, everything as near as the
  last of them is selected and nothing more than an edge further (`Covered`, `Closed`), and the
  selected nodes are in the order of their distance. Of a lookup, the markers before the `t`-th have
  all their pages. In the search for paths every simple way to the target is found, begins with an
  entry of the queue, goes on along an edge still to follow, or is no shorter than the last of as
  many paths as were asked for (`Pursued`), and nothing is there that another entry still leads to
  (`Fresh`), with the queue in the order of lengths (`Rising`). Recursive functions are shown to
  exist and to be unique by finite induction over their prefixes (`Upto`), which stands in for the
  induction theorems of the library.
  Of `FocusedRead`: `NothingLost` (`ReadersLoseNothing`), from `ReadInv`. A number is the one of the
  heading above and one place more, and no two are the same, so that the numbers under one are
  those of the headings under it (`NumbersDiffer`, `DescendantsAre`) and two trees of sections are
  one in the other or apart (`TreesAre`). What an answer does not show comes later among what was
  chosen (`FocusedIs`), and of what a section is the first to cover all is chosen in order
  (`MatchedIs`); so each read shows a section that no other covers as early, and takes a pair of a
  section and one under it away (`FewerPairs`), of which there are at most `n * (n + 1) / 2`. The
  attempt found that the bound checked before, of `2 * n + 1` reads, holds for pages of three
  headings and not for four that are nested: the bound here is the one that is proved.

Only model-checked: liveness and `ENABLED`, which are outside what the prover can do
(`LockReleased`, `StartedSyncsEnd`, `EverySearchEnds`, `BusyIsRetryable`, `StaleRecordsGo`,
`KeepsServing`, `EveryRequestEnds`). Every safety property of the runs is proved, except
`StrictFreshness` of the run that finds it violated.

## Findings

`PROJECT.json` lists 28 places where the code does other than its documents, comments or tests say,
each with the quotation. One has a run whose counterexample shows it: `cache_revert`, an index of
files edited and reverted during a build. The others are named in the properties, as what a property
excepts or says instead:

- git sync: a fast-forward that is not counted when the command after it fails; a late answer
  reported fresh; a branch checked out during the fetch; a sync whose thread could not start.
- derived data: a secret or record replaced after a failed read; a lock file of a live owner
  removed; a lock file that could not be removed and is waited for as long as its process runs; a
  graph saved from a raced build that outlives refreshes; words lost at the end of a chunk under
  long headings; headings of skipped levels.
- answers: a draft shown for the approved page whose id it has; pages with an identifier lost behind
  others of a variant; hubs that are topics or not loaded under the markers of other tools; a label
  of one snapshot on references of another; ranks fused in floating point and after the prior; a
  source changed in ways its signature ignores; directories ignored by the signature alone.
- surfaces: an event that cannot be encoded; a body that cannot be read, logged or answered; a
  listing that a failed removal ends; a null that hides what would be filled in; the budget of a
  focused read; descriptions that are old, or name a tool that is not there.
- scripts: a revision taken from an option; a failed evaluation reported as done; cold queries that
  share a state directory.

## Not modelled

The map covers three tenths of the implementation's lines. What is left is parsing of Markdown, YAML
and options, tokenising, BM25 weights, cosines and snippets (floating point), the wording and shapes
of responses, validators of row and report formats, metrics, bootstrap intervals, generated schemas
and smoke scripts that assert what one sample answers. The other runners of
`scripts/benchmark_adapters/` compute metrics of searches in one process.
Symbolic links, a page that changes between two reads, and contention between SQLite writers beyond
failure are left out where the modules say so.
