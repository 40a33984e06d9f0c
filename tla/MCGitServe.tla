------------------------------- MODULE MCGitServe -------------------------------
(***************************************************************************)
(* Requests over a git checkout, or a service over a directory that users  *)
(* change: each is checked from its own initial states, while the other    *)
(* stands still.                                                           *)
(***************************************************************************)
EXTENDS GitServe, SourceTree, TLC

CONSTANTS r1, r2, s1, s2, main, other, c0, c1, c2, mine

\* The remote grows from c0 to c1 to c2, a local commit leaves it at c0
MCAncestors == c0 :> {c0} @@ c1 :> {c0, c1} @@ c2 :> {c0, c1, c2} @@ mine :> {c0, mine}

-----------------------------------------------------------------------------
\* Markers of every adapter, files that only one of loader and watcher takes, wikis in wikis
MCContents == {"text", "okf", "typed", "open", "invalid", "vault", "vaults", "hidden", "own", "foam", "data"}
MCVersion == [c \in MCContents |-> IF c = "okf" THEN "0.2" ELSE ""]
MCVaults == [c \in MCContents |-> CASE c = "vault" -> <<<<"notes">>>>
                                   [] c = "vaults" -> <<<<"notes">>, <<"logs">>>>
                                   [] c = "hidden" -> <<<<"build">>>>
                                   [] c = "own" -> <<<<"wiki">>>>
                                   [] OTHER -> <<>>]
MCWritable ==
    ({<<"wiki", "index.md">>, <<"wiki", "concepts", "a.md">>, <<"notes", "a.md">>,
      <<"content", "index.md">>, <<"pages", "a.org">>, <<".runtime-logs", "a.md">>,
      <<"build", "a.md">>, <<".foam", "a.md">>, <<".vscode", "a.md">>} \X {"text"})
    \cup ({<<"index.md">>} \X {"text", "okf"}) \cup ({<<"hot.md">>} \X {"typed", "open", "invalid"})
    \cup ({<<"dendron.yml">>} \X {"vault", "vaults", "hidden", "own"})
    \cup ({<<".vscode", "extensions.json">>} \X {"foam", "data"})
    \cup ({<<"quartz.config.ts">>, <<"logseq", "config.edn">>, <<"graph", "graph.json">>,
          <<"wiki", ".wiki-compiler.json">>} \X {"data"})
MCCreatable == {<<".obsidian">>, <<".foam">>, <<"journals">>, <<"pages">>, <<"content">>, <<"notes">>}
MCNames ==
    UNION {ToSet(w[1]) : w \in MCWritable} \cup UNION {ToSet(dir) : dir \in MCCreatable}
    \cup {"openwiki", "logs"}
TreeOf(written) ==
    [dirs |-> UNION {Parents(w[1]) : w \in written},
     files |-> [f \in {w[1] : w \in written} |-> (CHOOSE w \in written : w[1] = f)[2]]]
MCTrees == {TreeOf({})} \cup {TreeOf({v, w}) : v, w \in MCWritable}

NoTree ==
    /\ profile = Absent /\ tree = TreeOf({}) /\ snapshot = Absent /\ signed = Absent
    /\ served = Absent /\ loaded = Absent /\ reply = Absent /\ treeChanges = 0

-----------------------------------------------------------------------------
\* Bound: where a service is told to take what it serves for OKF, it begins with a file at most
MCInit ==
    /\ ServeInit
    /\ \/ NoTree
       \/ TreeInit /\ (profile = "okf" => Cardinality(Files(tree)) <= 1)

\* Bound: users change a source once a service has looked at it
ChangedOnceServed == treeChanges' # treeChanges => snapshot # Absent

MCNext ==
    \/ profile = Absent /\ ServeNext /\ UNCHANGED treeVars
    \/ profile # Absent /\ TreeNext /\ ChangedOnceServed /\ UNCHANGED serveVars

MCSpec == MCInit /\ [][MCNext]_<<serveVars, treeVars>>
=============================================================================
