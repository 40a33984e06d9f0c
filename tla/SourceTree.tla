------------------------------ MODULE SourceTree ------------------------------
(***************************************************************************)
(* What a directory is served as (adapters.py), and what a service in      *)
(* strict mode watches of it to know when to load it anew (service.py:     *)
(* _source_signature_snapshot).  The loader and the watcher each have      *)
(* rules of their own about which files and directories count; here users  *)
(* change a tree in any way between the requests of a service.             *)
(*                                                                         *)
(* A path is the sequence of its names.  Symbolic links, which both sides  *)
(* leave out, are no part of the tree; a content is what it is parsed to.  *)
(***************************************************************************)
EXTENDS Naturals, FiniteSets, SequencesExt

CONSTANTS
    Names,            \* of files and directories
    Contents,
    Version,          \* the OKF version a content declares, or ""
    Typed,            \* contents with a type
    Unclosed,         \* those whose frontmatter is none to OKF, and those with fields it refuses
    Invalid,
    Vaults,           \* the vaults a content lists, as paths, or <<>>
    NamesFoam,        \* contents that recommend the extension
    Markdown, Org,    \* names with these suffixes
    TypedDirs, HubFiles,
    RootName,         \* the name of the directory itself
    Profiles,         \* as which services are asked to read it
    Absent,          \* no index, no reply
    Trees,            \* those a service may find
    Writable,         \* the files users write, each with its contents
    Creatable,        \* the directories they create
    MaxTreeChanges    \* bound: changes by users

Ignored == {".git", ".obsidian", ".foam", "node_modules", ".venv", "__pycache__", "dist", "build"}
Unwatched == {".git", ".runtime-logs", "node_modules", ".venv", "__pycache__", "dist", "build"}
MarkerNames == {".foam", ".obsidian"}
WatchedNames == {".wiki-compiler.json", "dendron.yml", "quartz.config.ts"}
WatchedPaths == {<<".vscode", "extensions.json">>, <<"logseq", "config.edn">>}
PreferredRoots == <<"wiki", "openwiki">>

VARIABLES
    profile,          \* "auto", or a profile that is asked for
    tree,             \* its directories but the root, and its files with their contents
    snapshot,         \* the last scan of the watcher
    signed, served,   \* the signature and the wiki that are published
    loaded,           \* ghost: the tree that wiki was loaded from
    reply,           \* of the last request, until the tree changes
    treeChanges

treeVars == <<profile, tree, snapshot, signed, served, loaded, reply, treeChanges>>

-----------------------------------------------------------------------------
(* What the loader sees *)

Dirs(t) == t.dirs \cup {<<>>}
Files(t) == DOMAIN t.files
Below(dir, path) == IsStrictPrefix(dir, path)
Relative(dir, path) == SubSeq(path, Len(dir) + 1, Len(path))
Child(dir, path) == Below(dir, path) /\ Len(path) = Len(dir) + 1
Page(path) == Last(path) \in Markdown
Parents(path) == {SubSeq(path, 1, k) : k \in 1..(Len(path) - 1)}

\* As a file system keeps it: what holds a file or a directory is a directory
Paths == Seq(Names) \ {<<>>}
IsTree(t) ==
    /\ t = [dirs |-> t.dirs, files |-> t.files]
    /\ t.dirs \subseteq Paths /\ Files(t) \subseteq Paths
    /\ \A path \in Files(t) : t.files[path] \in Contents
    /\ \A path \in t.dirs \cup Files(t) : Parents(path) \subseteq t.dirs

ASSUME TreeAssumption ==
    /\ {"wiki", "openwiki", "content", "graph", "graph.json", ".wiki-compiler.json"} \subseteq Names
    /\ \A t \in Trees : IsTree(t)
    /\ Writable \subseteq Paths \X Contents /\ Creatable \subseteq Paths
    /\ Vaults \in [Contents -> Seq(Seq(Names))]
    /\ "index.md" \in Markdown

\* Notes about the editor, not of the wiki
EditorNote(names) == ".vscode" \in ToSet(names) /\ Last(names) \in Markdown \cup Org

IncludeFile(t, path, root) ==
    /\ path \in Files(t) /\ Below(root, path)
    /\ ToSet(Relative(root, path)) \cap Ignored = {}
    /\ ~EditorNote(Relative(root, path))
IncludeDir(t, path) == path \in Dirs(t)
IncludePath(t, path) == path \in Files(t) \cup Dirs(t)

MarkdownUnder(t, dir, root) ==
    {f \in Files(t) : Below(dir, f) /\ Page(f) /\ IncludeFile(t, f, root)}

\* The signs of a directory of the LLMWiki layout
Compiled(t, dir) == IncludeFile(t, Append(dir, ".wiki-compiler.json"), dir)
MarkdownNames(t, dir) == {Last(f) : f \in {x \in MarkdownUnder(t, dir, dir) : Child(dir, x)}}
HasTypedPages(t, dir) ==
    \E name \in TypedDirs : IncludeDir(t, Append(dir, name)) /\ MarkdownUnder(t, Append(dir, name), dir) # {}
NameOf(dir) == IF dir = <<>> THEN RootName ELSE Last(dir)
NamedSourceRoot(t, dir) ==
    NameOf(dir) \in ToSet(PreferredRoots) /\ "quickstart.md" \in MarkdownNames(t, dir)

IsLlmwikiRoot(t, dir, nested) ==
    LET names == MarkdownNames(t, dir)
        hub == names \cap HubFiles # {}
    IN  /\ dir \in Dirs(t)
        /\ \/ Compiled(t, dir)
           \/ nested /\ (hub \/ HasTypedPages(t, dir))
           \/ ~nested /\ \/ NamedSourceRoot(t, dir)
                         \/ "hot.md" \in names /\ names \cap {"index.md", "overview.md"} # {}
                         \/ hub /\ HasTypedPages(t, dir)

\* The directory whose pages are the wiki, at most one
LlmwikiSourceRoots(t) ==
    LET nested == {dir \in {<<"wiki">>, <<"openwiki">>} : IsLlmwikiRoot(t, dir, TRUE)}
    IN  IF nested = {} THEN {dir \in {<<>>} : IsLlmwikiRoot(t, dir, FALSE)}
        ELSE {dir \in nested : dir = <<"wiki">> \/ <<"wiki">> \notin nested}

ProbableNestedRoot(t, dir) ==
    \/ Compiled(t, dir) \/ HasTypedPages(t, dir) \/ NamedSourceRoot(t, dir)
    \/ Cardinality(MarkdownNames(t, dir) \cap HubFiles) >= 2

\* Mutant: the preferred names are like any other
HubRootsProbable(t, root) ==
    {dir \in Dirs(t) : /\ Child(root, dir) /\ Last(dir) \notin Ignored \cup {".vscode"}
                       /\ ProbableNestedRoot(t, dir)}

\* Where a hub file is the hub of a wiki inside a larger directory
HubRoots(t, root) ==
    {dir \in Dirs(t) : /\ Child(root, dir)
                       /\ IF Last(dir) \in ToSet(PreferredRoots) THEN IsLlmwikiRoot(t, dir, TRUE)
                          ELSE Last(dir) \notin Ignored \cup {".vscode"} /\ ProbableNestedRoot(t, dir)}

HubRole == [name \in HubFiles |-> CASE name = "hot.md" -> "hot"
                                    [] name \in {"index.md", "quickstart.md"} -> "index"
                                    [] name = "overview.md" -> "overview"
                                    [] OTHER -> "topic"]
PageRole(root, path, hubRoots) ==
    IF Last(path) \in HubFiles /\ (Front(path) = root \/ Front(path) \in hubRoots)
    THEN HubRole[Last(path)] ELSE "topic"

-----------------------------------------------------------------------------
(* What it makes of it *)

ParsePage(t, path, root, scan, hubRoots) ==
    [path |-> Relative(root, path), text |-> t.files[path], role |-> PageRole(root, path, hubRoots),
     scan |-> scan]
ParsePages(t, dir, root, hubRoots) ==
    {ParsePage(t, f, root, dir, hubRoots) : f \in MarkdownUnder(t, dir, root)}

GraphFiles(t, root) ==
    {f \in {<<"graph", "graph.json">>, root \o <<"graph", "graph.json">>} : IncludeFile(t, f, <<>>)}

LoadedWiki(t, adapter, root, pages, scans) ==
    [adapter |-> adapter, root |-> root, pages |-> pages, vaults |-> scans,
     graph |-> {<<f, t.files[f]>> : f \in UNION {GraphFiles(t, dir) : dir \in scans}}]
Refusal(reason) == [adapter |-> reason, root |-> <<>>, pages |-> {}, vaults |-> {}, graph |-> {}]

OkfVersion(t) == IF <<"index.md">> \in Files(t) THEN Version[t.files[<<"index.md">>]] ELSE ""
IsOkfRoot(t) == OkfVersion(t) = "0.2" /\ t.files[<<"index.md">>] \notin Unclosed

OkfDocuments(t) == {f \in MarkdownUnder(t, <<>>, <<>>) : Last(f) # "log.md"}
OkfPage(t, f) == [path |-> f, text |-> t.files[f], scan |-> <<>>,
                  role |-> IF Last(f) = "index.md" THEN "index" ELSE "topic"]
OkfRefuses(content) == content \in Unclosed \cup Invalid

\* One bad page and nothing is served
OkfLoad(t) ==
    IF \/ OkfDocuments(t) = {} \/ OkfVersion(t) \notin {"", "0.2"}
       \/ \E f \in OkfDocuments(t) : \/ OkfRefuses(t.files[f])
                                     \/ Last(f) # "index.md" /\ t.files[f] \notin Typed
    THEN Refusal("invalid")
    ELSE LoadedWiki(t, "okf", <<>>, {OkfPage(t, f) : f \in OkfDocuments(t)}, {<<>>})

MarkdownLoad(t, adapter, root) ==
    LoadedWiki(t, adapter, root, ParsePages(t, root, root, HubRoots(t, root)), {root})

LlmwikiLoad(t) ==
    LET root == CHOOSE dir \in LlmwikiSourceRoots(t) : TRUE
    IN  LoadedWiki(t, "llmwiki", root, ParsePages(t, root, root, {}), {root})

\* Every vault once, also those that are not there
Configured(t) == IF IncludeFile(t, <<"dendron.yml">>, <<>>) THEN ToSet(Vaults[t.files[<<"dendron.yml">>]]) ELSE {}
DendronLoad(t) ==
    LET configured == Configured(t)
        vaults == configured \cap Dirs(t)
        several == Cardinality(configured) > 1
        root == IF Cardinality(vaults) = 1 /\ ~several THEN CHOOSE dir \in vaults : TRUE ELSE <<>>
        scans == IF vaults = {} /\ configured = {} THEN {<<>>} ELSE vaults
    IN  LoadedWiki(t, "dendron", root, UNION {ParsePages(t, dir, root, {}) : dir \in scans}, scans)

QuartzLoad(t) ==
    MarkdownLoad(t, "quartz", IF IncludeDir(t, <<"content">>) THEN <<"content">> ELSE <<>>)

LogseqLoad(t) ==
    LET scans == {<<"pages">>, <<"journals">>} \cap Dirs(t)
        notes(dir) == {f \in Files(t) : /\ Below(dir, f) /\ Last(f) \in Markdown \cup Org
                                        /\ IncludeFile(t, f, <<>>)}
    IN  LoadedWiki(t, "logseq", <<>>,
             UNION {{ParsePage(t, f, <<>>, dir, {}) : f \in notes(dir)} : dir \in scans}, {<<>>})

RecommendsFoam(t) ==
    LET f == <<".vscode", "extensions.json">> IN IncludeFile(t, f, <<>>) /\ t.files[f] \in NamesFoam

IsObsidian(t) == IncludeDir(t, <<".obsidian">>) /\ MarkdownUnder(t, <<>>, <<>>) # {}
IsLogseq(t) == \/ IncludeFile(t, <<"logseq", "config.edn">>, <<>>)
               \/ IncludeDir(t, <<"pages">>) /\ IncludeDir(t, <<"journals">>)
IsDendron(t) == IncludeFile(t, <<"dendron.yml">>, <<>>)
IsFoam(t) == IncludePath(t, <<".foam">>) \/ RecommendsFoam(t)
IsQuartz(t) == IncludeFile(t, <<"quartz.config.ts">>, <<>>)

\* The first adapter that takes the directory is the only one that loads it
Load(t, asked) ==
    LET wiki ==
          IF asked = "okf" \/ IsOkfRoot(t) THEN OkfLoad(t)
          ELSE IF IsObsidian(t) THEN MarkdownLoad(t, "obsidian", <<>>)
          ELSE IF IsLogseq(t) THEN LogseqLoad(t)
          ELSE IF IsDendron(t) THEN DendronLoad(t)
          ELSE IF IsFoam(t) THEN MarkdownLoad(t, "foam", <<>>)
          ELSE IF IsQuartz(t) THEN QuartzLoad(t)
          ELSE IF LlmwikiSourceRoots(t) # {} THEN LlmwikiLoad(t)
          ELSE IF MarkdownUnder(t, <<>>, <<>>) # {} THEN MarkdownLoad(t, "generic", <<>>)
          ELSE Refusal("unsupported")
    IN  IF wiki.pages = {} /\ wiki.adapter # "invalid" THEN Refusal("unsupported") ELSE wiki

-----------------------------------------------------------------------------
(* What the watcher sees *)

\* The walk does not go into these
WalkedDirs(t) == {dir \in Dirs(t) : ToSet(dir) \cap (Unwatched \cup MarkerNames) = {}}

\* Mutant: files that only detection reads are forgotten
IsPageFile(path) ==
    /\ ToSet(path) \cap Unwatched = {} /\ ~EditorNote(path)
    /\ Last(path) \in Markdown \cup Org \cup WatchedNames \cup {"graph.json"}

IsSignatureFile(path) ==
    /\ ToSet(path) \cap Unwatched = {} /\ ~EditorNote(path)
    /\ \/ Last(path) \in Markdown \cup Org \cup WatchedNames
       \/ Len(path) > 1 /\ SubSeq(path, Len(path) - 1, Len(path)) = <<"graph", "graph.json">>
       \/ path \in WatchedPaths \cup {<<name>> : name \in MarkerNames}

Entries(t) == {<<f, t.files[f]>> : f \in {x \in Files(t) : IsSignatureFile(x) /\ Front(x) \in WalkedDirs(t)}}
MarkerDirs(t) == {<<name>> : name \in MarkerNames} \cap Dirs(t)

\* The names in a directory, of its files those that count
Children(t, dir) ==
    {<<"dir", d>> : d \in {x \in t.dirs : Child(dir, x) /\ Last(x) \notin Unwatched}}
    \cup {<<"file", f>> : f \in {x \in Files(t) : Child(dir, x) /\ IsSignatureFile(x)}}

Scan(t) == [files |-> Entries(t), markers |-> MarkerDirs(t),
            children |-> {<<dir, Children(t, dir)>> : dir \in WalkedDirs(t)}]
Signature(scan) == <<scan.files, scan.markers>>

\* Whether every path that a scan recorded is as it was
IsCurrent(t, scan) ==
    /\ \A entry \in scan.files : entry[1] \in Files(t) /\ t.files[entry[1]] = entry[2]
    /\ scan.markers \subseteq Dirs(t)
    /\ \A entry \in scan.children : entry[1] \in Dirs(t) /\ Children(t, entry[1]) = entry[2]

-----------------------------------------------------------------------------
TreeInit ==
    /\ profile \in Profiles /\ tree \in Trees
    /\ snapshot = Absent /\ signed = Absent /\ served = Absent /\ loaded = Absent
    /\ reply = Absent /\ treeChanges = 0

ChangeTree(to) ==
    /\ treeChanges < MaxTreeChanges /\ to # tree
    /\ tree' = to /\ reply' = Absent /\ treeChanges' = treeChanges + 1
    /\ UNCHANGED <<profile, snapshot, signed, served, loaded>>

Without(f, path) == [x \in DOMAIN f \ {path} |-> f[x]]
With(f, path, value) == [x \in DOMAIN f \cup {path} |-> IF x = path THEN value ELSE f[x]]

\* By users: a file is written, with the directories above it, or removed; a directory is
\* created or, when it is empty, removed
WriteFile == \E file \in Writable :
    ChangeTree([dirs |-> tree.dirs \cup Parents(file[1]), files |-> With(tree.files, file[1], file[2])])
RemoveFile == \E path \in Files(tree) : ChangeTree([tree EXCEPT !.files = Without(@, path)])
CreateDir == \E dir \in Creatable : ChangeTree([tree EXCEPT !.dirs = @ \cup {dir} \cup Parents(dir)])
RemoveDir == \E dir \in tree.dirs :
    /\ \A path \in tree.dirs \cup Files(tree) : ~Below(dir, path)
    /\ ChangeTree([tree EXCEPT !.dirs = @ \ {dir}])

Reuse(scan) ==
    /\ served # Absent /\ Signature(scan) = signed
    /\ reply' = served
    /\ UNCHANGED <<signed, served, loaded>>

\* A load that fails leaves what is published
Rebuild(scan) ==
    /\ served = Absent \/ Signature(scan) # signed
    /\ LET wiki == Load(tree, profile) IN
       /\ reply' = wiki
       /\ IF wiki.pages = {} THEN UNCHANGED <<signed, served, loaded>>
          ELSE signed' = Signature(scan) /\ served' = wiki /\ loaded' = tree

AskService ==
    /\ reply = Absent
    /\ LET scan == IF snapshot # Absent /\ IsCurrent(tree, snapshot) THEN snapshot ELSE Scan(tree) IN
       /\ snapshot' = scan
       /\ Reuse(scan) \/ Rebuild(scan)
    /\ UNCHANGED <<profile, tree, treeChanges>>

TreeNext == WriteFile \/ RemoveFile \/ CreateDir \/ RemoveDir \/ AskService

TreeSpec == TreeInit /\ [][TreeNext]_treeVars

-----------------------------------------------------------------------------
\* What the loader takes and the watcher does not: Markdown in a directory of logs, a single
\* vault where nobody looks, and directories that count even when they are empty
Unseen(t) ==
    LET vaults == Configured(t)
        hidden == {dir \in vaults : Cardinality(vaults) = 1 /\ ToSet(dir) \cap (Unwatched \cup MarkerNames \cup {".vscode"}) # {}}
    IN  <<{<<f, t.files[f]>> : f \in {x \in Files(t) :
              \/ ".runtime-logs" \in ToSet(x) /\ Last(x) \in Markdown \cup Org \cup {".wiki-compiler.json", "graph.json"}
              \/ \E dir \in hidden : Below(dir, x)}},
          t.dirs \cap ({<<"pages">>, <<"journals">>, <<"content">>} \cup vaults)>>

\* A service that goes on answers what one started now would, unless all that changed since it
\* loaded is what nothing watches (adapters.py: load_wiki, service.py: is_signature_file).
AnswersAsStarted ==
    reply # Absent =>
        \/ reply = Load(tree, profile)
        \/ reply = served /\ Unseen(tree) # Unseen(loaded)

\* Where another adapter goes by rules of its own: OKF has its own roles, Logseq and Quartz read
\* directories of their own, and a Dendron workspace has the hubs only of a wiki that is its one
\* vault, or of one at its root when it configures none
OwnRules(t, asked, root) ==
    \/ asked = "okf" \/ IsOkfRoot(t)
    \/ /\ ~IsObsidian(t)
       /\ \/ IsLogseq(t)
          \/ IsDendron(t) /\ Configured(t) # {root} /\ ~(Configured(t) = {} /\ root = <<>>)
          \/ IsQuartz(t) /\ ~IsDendron(t) /\ ~IsFoam(t) /\ IncludeDir(t, <<"content">>)

Keeps(wiki, root, page) == \E other \in wiki.pages :
    /\ wiki.root \o other.path = root \o page.path
    /\ page.role # other.role => root = <<>> /\ page.role = "topic"

\* A wiki keeps its pages and its hubs when markers beside it call for another adapter: what
\* LLMWiki would take for a hub is one in what is really loaded, unless that adapter goes by
\* OwnRules; a load of the whole directory finds hubs further down as well (adapters.py: load_wiki,
\* llmwiki_source_root and llmwiki_hub_source_roots).
HubsWhateverMarkers ==
    \A root \in LlmwikiSourceRoots(tree) :
        \/ OwnRules(tree, profile, root)
        \/ \A page \in LlmwikiLoad(tree).pages : Keeps(Load(tree, profile), root, page)
=============================================================================
