------------------------- MODULE BenchmarkRun_proof -------------------------
(***************************************************************************)
(* The properties of an acquisition and of the commands after it, of the   *)
(* benchmarks of pinned wikis and of the judged pool, for any number of    *)
(* acquisitions, files, pages, versions, edits, queries, runs and          *)
(* commands.                                                               *)
(***************************************************************************)
EXTENDS BenchmarkRun, VerifiedSources, JudgedPool, TLAPS

(***************************************************************************)
(* The acquisition.  Only a command whose directory is complete comes to   *)
(* rename it, and only onto nothing or an empty directory; once a command  *)
(* has, the target holds the files, so that none comes after it.           *)
(***************************************************************************)
Steps == {"start", "download", "extract", "members", "publish", "manifest", "writing"} \cup Ends
Beside == SUBSET (Files \cup {"download", "manifest", "directory"})

AcquireTypes ==
    /\ step \in [Acquirers -> Steps] /\ temp \in [Acquirers -> Beside]
    /\ target \in Directories \cup {Missing}

WholeOrNot == target # Missing => target \ {Theirs} \in {{}, Files}
TheirsStays == wrote => target # Missing /\ Theirs \in target
Complete == \A a \in Acquirers : step[a] = "publish" => Files \subseteq temp[a]
OneHasPublished ==
    \A a \in Acquirers : Published(a) =>
        /\ target # Missing /\ Files \subseteq target
        /\ \A b \in Acquirers : Published(b) => b = a

AcquireInv ==
    AcquireTypes /\ WholeOrNot /\ TheirsStays /\ Complete /\ OneHasPublished /\ LeftByCut

LEMMA AcquireStart == AcquireInit => AcquireInv
<1> SUFFICES ASSUME AcquireInit PROVE AcquireInv
  OBVIOUS
<1>1. AcquireTypes
  BY DEF AcquireInit, AcquireTypes, Steps, Beside, Directories
<1>2. WholeOrNot /\ TheirsStays
  BY AcquireAssumption DEF AcquireInit, WholeOrNot, TheirsStays
<1>3. Complete /\ OneHasPublished /\ LeftByCut
  BY DEF AcquireInit, Complete, OneHasPublished, LeftByCut, Published, Ends
<1> QED BY <1>1, <1>2, <1>3 DEF AcquireInv

\* A step that leaves the target and the user's file alone
LEMMA TargetKept ==
    ASSUME AcquireInv, NEW a \in Acquirers, NEW s \in Steps, NEW t \in Beside, Go(a, s, t),
           UNCHANGED <<target, wrote>>, cut \subseteq cut',
           s = "publish" => Files \subseteq t,
           s \in {"manifest", "writing", "done"} => Published(a),
           s \in Ends /\ t # {} => a \in cut'
    PROVE  AcquireInv'
<1> USE DEF AcquireInv
<1>1. AcquireTypes'
  BY DEF Go, AcquireTypes
<1>2. WholeOrNot' /\ TheirsStays'
  BY DEF WholeOrNot, TheirsStays
<1>3. \A b \in Acquirers : /\ step'[b] = IF b = a THEN s ELSE step[b]
                           /\ temp'[b] = IF b = a THEN t ELSE temp[b]
  BY DEF Go, AcquireTypes
<1>4. Complete'
  BY <1>3 DEF Complete
<1>5. OneHasPublished'
  BY <1>3 DEF OneHasPublished, Published
<1>6. LeftByCut'
  BY <1>3 DEF LeftByCut
<1> QED BY <1>1, <1>2, <1>4, <1>5, <1>6

\* Where the target is empty, nobody has published, and the user has written nothing
LEMMA EmptyMeansFirst ==
    ASSUME AcquireInv, Empty
    PROVE  ~wrote /\ \A b \in Acquirers : ~Published(b)
BY AcquireAssumption DEF Empty, AcquireInv, TheirsStays, OneHasPublished

LEMMA AcquireSteps == AcquireInv /\ AcquireNext => AcquireInv'
<1> SUFFICES ASSUME AcquireInv, AcquireNext PROVE AcquireInv'
  OBVIOUS
<1>1. CASE UserWrites
  <2> USE <1>1 DEF UserWrites
  <2>1. AcquireTypes' /\ WholeOrNot' /\ TheirsStays'
    BY AcquireAssumption
    DEF AcquireInv, AcquireTypes, WholeOrNot, TheirsStays, Directories
  <2>2. Complete' /\ LeftByCut'
    BY DEF AcquireInv, Complete, LeftByCut
  <2>3. OneHasPublished'
    BY AcquireAssumption DEF AcquireInv, AcquireTypes, Directories, OneHasPublished, Published
  <2> QED BY <2>1, <2>2, <2>3 DEF AcquireInv
<1>2. ASSUME NEW a \in Acquirers, Command(a) \/ Cut(a) PROVE AcquireInv'
  <2> temp[a] \in Beside /\ step[a] \in Steps
    BY DEF AcquireInv, AcquireTypes
  <2>0. {} \in Beside /\ {"download"} \in Beside /\ {"manifest"} \in Beside /\ {"directory"} \in Beside
    BY DEF Beside
  <2>1. ASSUME Begin(a) \/ Download(a) \/ MakeTemp(a) \/ ExtractFails(a) PROVE AcquireInv'
    BY <2>0, <2>1, TargetKept
    DEF Begin, Download, MakeTemp, ExtractFails, Fail, Steps, Ends
  <2>2. CASE ExtractMember(a)
    BY <2>2, TargetKept DEF ExtractMember, Steps, Ends, Beside
  <2>3. CASE RemoveEmpty(a)
    <3>1. CASE ~Empty
      BY <2>0, <2>3, <3>1, TargetKept DEF RemoveEmpty, Fail, Steps, Ends
    <3>2. CASE Empty
      <4> target' = Missing /\ Go(a, "publish", temp[a]) /\ Files \subseteq temp[a]
        BY <2>3, <3>2 DEF RemoveEmpty
      <4> UNCHANGED <<wrote, cut>>
        BY <2>3 DEF RemoveEmpty
      <4>1. \A b \in Acquirers : /\ step'[b] = IF b = a THEN "publish" ELSE step[b]
                                 /\ temp'[b] = temp[b]
        BY DEF Go, AcquireInv, AcquireTypes
      <4>2. AcquireTypes'
        BY DEF Go, AcquireInv, AcquireTypes, Steps
      <4>3. WholeOrNot' /\ TheirsStays'
        BY <3>2, EmptyMeansFirst DEF WholeOrNot, TheirsStays
      <4>4. Complete' /\ LeftByCut'
        BY <4>1 DEF AcquireInv, Complete, LeftByCut, Ends
      <4>5. OneHasPublished'
        BY <3>2, <4>1, EmptyMeansFirst DEF OneHasPublished, Published
      <4> QED BY <4>2, <4>3, <4>4, <4>5 DEF AcquireInv
    <3> QED BY <3>1, <3>2
  <2>4. CASE Publish(a)
    <3>1. CASE ~Empty
      BY <2>0, <2>4, <3>1, TargetKept DEF Publish, Fail, Steps, Ends
    <3>2. CASE Empty
      <4>0. target' = Files /\ Go(a, "manifest", {}) /\ UNCHANGED <<wrote, cut>>
        BY <2>4, <3>2 DEF Publish, AcquireInv, Complete
      <4>1. \A b \in Acquirers : /\ step'[b] = IF b = a THEN "manifest" ELSE step[b]
                                 /\ temp'[b] = IF b = a THEN {} ELSE temp[b]
        BY <4>0 DEF Go, AcquireInv, AcquireTypes
      <4>2. AcquireTypes'
        BY <2>0, <4>0 DEF Go, AcquireInv, AcquireTypes, Steps, Directories
      <4>3. WholeOrNot' /\ TheirsStays'
        BY <3>2, <4>0, EmptyMeansFirst, AcquireAssumption DEF WholeOrNot, TheirsStays
      <4>4. Complete' /\ LeftByCut'
        BY <4>0, <4>1 DEF AcquireInv, Complete, LeftByCut, Ends
      <4>5. OneHasPublished'
        BY <3>2, <4>0, <4>1, EmptyMeansFirst, AcquireAssumption DEF OneHasPublished, Published
      <4> QED BY <4>2, <4>3, <4>4, <4>5 DEF AcquireInv
    <3> QED BY <3>1, <3>2
  <2>5. CASE BeginManifest(a) \/ WriteManifest(a)
    BY <2>0, <2>5, TargetKept DEF BeginManifest, WriteManifest, Fail, Steps, Ends, Published
  <2>6. CASE Cut(a)
    BY <2>6, TargetKept DEF Cut, Steps, Ends
  <2> QED BY <1>2, <2>1, <2>2, <2>3, <2>4, <2>5, <2>6 DEF Command
<1> QED BY <1>1, <1>2 DEF AcquireNext

LEMMA OthersLeaveArchive == Next => Acquire \/ UNCHANGED acquireVars
BY DEF Next, BeginMake, MakeBefore, MakeRead, WriteOutput, WriteSums, MakeCheck, MakeAfter,
       MakeCompare, BeginRun, RunBefore, Load, LoadRows, Gate, Index, RunAfter, RunCompare,
       PublishReport, PublishManifest, Break, Edit, Clear, BeginCommand, ReadOne, Compare, Check

LEMMA AcquireAlways == Spec => []AcquireInv
<1>1. Init => AcquireInv
  BY AcquireStart DEF Init
<1>2. AcquireInv /\ UNCHANGED acquireVars => AcquireInv'
  BY DEF acquireVars, AcquireInv, AcquireTypes, WholeOrNot, TheirsStays, Complete,
         OneHasPublished, LeftByCut, Published
<1>3. AcquireInv /\ [Next]_vars => AcquireInv'
  BY <1>2, OthersLeaveArchive, AcquireSteps DEF Acquire, vars
<1> QED BY <1>1, <1>3, PTL DEF Spec

\* A target is there whole or not at all, whoever was killed, came second or wrote into it:
\* _publish of beir_scifact_acquire.py, for any number of acquisitions and files.
THEOREM TargetsAreWhole == Spec => []TargetWhole
<1>1. AcquireInv => TargetWhole
  BY DEF AcquireInv, WholeOrNot, TheirsStays, OneHasPublished, TargetWhole, Published
<1> QED BY <1>1, AcquireAlways, PTL

\* An acquisition that ends by itself leaves nothing beside its target and its cache.
THEOREM NothingIsLeft == Spec => []LeftByCut
<1>1. AcquireInv => LeftByCut
  BY DEF AcquireInv
<1> QED BY <1>1, AcquireAlways, PTL

-----------------------------------------------------------------------------
(***************************************************************************)
(* The commands.  A file that was edited once since a command began has    *)
(* had two contents, and what is read after the first one is not read      *)
(* again: so when what a command works on differs from what it digested,   *)
(* it digests afterwards what it worked on, and the digests differ.        *)
(***************************************************************************)
MakeSteps == {"make", "make read", "make write", "make check", "make after", "make compare"}
Loaded == {"index", "run after", "run compare", "publish", "manifest", "ran"}
RunSteps == {"run", "load", "rows", "gate"} \cup (Loaded \ {"ran"})
TheLabels == <<"output", Labels>>
Versions == Nat \cup {None}

BenchTypes ==
    /\ content \in [Objects -> Versions] /\ before \in [Objects -> Versions]
    /\ got \in [Objects -> Versions] /\ after \in [Objects -> Versions]
    /\ at \in {"idle", "made", "ran", "failed"} \cup MakeSteps \cup RunSteps
    /\ commands \in Nat /\ report \in Nat /\ runManifest \in Nat
    /\ runManifest <= report /\ report <= commands
    /\ at = "manifest" => report = commands

\* What was read of a file that was not edited, or edited once
Once(x) ==
    /\ x \notin changed => /\ before[x] \in {None, content[x]}
                         /\ got[x] \in {None, content[x]}
                         /\ after[x] \in {None, content[x]}
    /\ before[x] # None /\ got[x] \notin {None, before[x]} =>
           got[x] = content[x] /\ after[x] \in {None, content[x]}

EditedOnce == at \in MakeSteps \cup RunSteps => \A x \in Objects \ back : Once(x)

InTurn ==
    /\ at \in {"make", "run", "load"} => \A x \in Objects : got[x] = None
    /\ at \in {"make", "make read", "make write", "make check", "run", "load", "rows", "gate", "index"} =>
           \A x \in Objects : after[x] = None
    /\ at \in MakeSteps => \A x \in Outputs : before[x] = None /\ got[x] = None /\ after[x] = None
    /\ at \in MakeSteps \ {"make"} => \A x \in Inputs : before[x] # None
    /\ at \in MakeSteps \ {"make", "make read"} => \A x \in Inputs : got[x] # None
    /\ at \in RunSteps \ {"run"} => \A x \in Outputs : before[x] # None
    /\ at \in (RunSteps \cap Loaded) \cup {"gate"} => got[TheLabels] # None
    /\ at \in (RunSteps \cap Loaded) \ {"index"} => got[Wiki] # None

Written ==
    /\ at \in {"make", "make read"} => \A x \in Outputs : content[x] = None
    /\ at = "make write" =>
           \A x \in Outputs : content[x] # None /\ x \notin changed => content[x] = got[Source(x)]
    /\ at \in {"make check", "make after", "make compare", "made"} =>
           \A x \in Bundle : x \in changed \/ (sums # None => sums[x] = got[Source(x)])

\* Between the two validations of the bundle, and after
LabelsOfSums ==
    /\ at \in {"rows", "gate"} =>
           sums # None /\ (TheLabels \notin back =>
               /\ TheLabels \notin changed => content[TheLabels] = sums[TheLabels]
               /\ got[TheLabels] \notin {None, sums[TheLabels]} =>
                      got[TheLabels] = content[TheLabels])
    /\ at \in Loaded =>
           TheLabels \in back \/ (sums # None => got[TheLabels] = sums[TheLabels])

Compared ==
    /\ at = "made" => \A x \in Inputs : got[x] = before[x] \/ x \in back
    /\ at \in {"publish", "manifest", "ran"} => got[Wiki] = before[Wiki] \/ Wiki \in back

BenchInv == BenchTypes /\ EditedOnce /\ InTurn /\ Written /\ LabelsOfSums /\ Compared
LEMMA Places ==
    /\ Objects = Inputs \cup Outputs /\ Inputs \cap Outputs = {}
    /\ Wiki \in Outputs /\ TheLabels \in Bundle /\ Bundle \subseteq Outputs
    /\ \A x \in Outputs : Source(x) \in Inputs
<1>1. \A x \in Inputs : x[1] = "input"
  BY DEF Inputs
<1>2. \A x \in Outputs : x[1] = "output"
  BY DEF Outputs, Bundle, Wiki
<1>3. \A x \in Outputs : Source(x) \in Inputs
  BY BenchmarkAssumption DEF Source, Inputs, Outputs, Bundle
<1> QED BY <1>1, <1>2, <1>3, BenchmarkAssumption DEF Objects, Outputs, Bundle, TheLabels

LEMMA BenchStart == BenchInit => BenchInv
BY Places, BenchmarkAssumption
DEF BenchInit, BenchInv, BenchTypes, EditedOnce, InTurn, Written, LabelsOfSums, Compared, Nothing, Once,
    Versions, MakeSteps, RunSteps, Loaded

LEMMA BeginKeeps == BenchInv /\ (BeginMake \/ BeginRun) => BenchInv'
<1> SUFFICES ASSUME BenchInv, BeginMake \/ BeginRun PROVE BenchInv'
  OBVIOUS
<1> USE Places, BenchmarkAssumption DEF BenchInv
<1>1. BenchTypes'
  <2>1. PICK s \in {"make", "failed", "run"} : BeginCommand(s)
    BY DEF BeginMake, BeginRun
  <2>2. Nothing \in [Objects -> Versions]
    BY DEF Nothing, Versions
  <2>3. at' = s /\ commands' = commands + 1 /\ UNCHANGED <<content, report, runManifest>>
    BY <2>1 DEF BeginCommand, trees, published
  <2>4. before' = Nothing /\ got' = Nothing /\ after' = Nothing
    BY <2>1 DEF BeginCommand
  <2>5. commands' \in Nat /\ report' <= commands'
    BY <2>3 DEF BenchTypes
  <2> QED BY <2>2, <2>3, <2>4, <2>5 DEF BenchTypes, MakeSteps, RunSteps
<1>0. /\ at' \in {"make", "failed", "run"}
      /\ \A x \in Objects : before'[x] = None /\ got'[x] = None /\ after'[x] = None
  BY DEF BeginMake, BeginRun, BeginCommand, Nothing
<1>2. EditedOnce'
  BY <1>0 DEF EditedOnce, Once
<1>3. InTurn'
  <2> HIDE DEF BenchInv
  <2>1. \A x \in Outputs : x \in Objects
    OBVIOUS
  <2> QED BY <1>0, <2>1 DEF InTurn, MakeSteps, RunSteps, Loaded
<1>4. Written'
  BY DEF BenchTypes, Versions, Written, InTurn, MakeSteps, BeginMake, BeginRun, BeginCommand,
         Idle, Nothing, published, trees
<1>5. LabelsOfSums'
  BY DEF BenchTypes, Versions, LabelsOfSums, InTurn, EditedOnce, Once, RunSteps, Loaded,
         BeginMake, BeginRun, BeginCommand, Idle, Nothing, published, trees
<1>6. Compared'
  BY DEF Compared, Loaded, BeginMake, BeginRun, BeginCommand, Idle, Nothing, published, trees
<1> QED BY <1>1, <1>2, <1>3, <1>4, <1>5, <1>6

LEMMA MakeReadsKeeps == BenchInv /\ (MakeBefore \/ MakeRead \/ MakeAfter) => BenchInv'
<1> SUFFICES ASSUME BenchInv, MakeBefore \/ MakeRead \/ MakeAfter PROVE BenchInv'
  OBVIOUS
<1> USE Places, BenchmarkAssumption DEF BenchInv
<1>1. BenchTypes'
  BY DEF BenchTypes, Versions, MakeSteps, RunSteps, Loaded, MakeBefore, MakeRead, MakeAfter,
         ReadOne, published, trees, ghosts
<1>2. EditedOnce'
  <2> SUFFICES ASSUME (at \in MakeSteps \cup RunSteps)', NEW x \in Objects, x \notin back'
               PROVE  Once(x)'
    BY DEF EditedOnce
  <2>0. Once(x) /\ x \notin back
    BY DEF EditedOnce, Once, MakeBefore, MakeRead, MakeAfter, ReadOne, ghosts, MakeSteps,
           RunSteps, Loaded
  <2>1. CASE MakeBefore
    BY <2>0, <2>1 DEF Once, InTurn, BenchTypes, MakeSteps, RunSteps, Loaded, MakeBefore,
           ReadOne, published, trees, ghosts
  <2>2. CASE MakeRead
    <3>1. after[x] = None /\ UNCHANGED <<content, before, after, changed>>
      BY <2>2 DEF InTurn, MakeRead, ReadOne, trees, ghosts
    <3>2. got'[x] \in {got[x], content[x]}
      BY <2>2 DEF MakeRead, ReadOne, BenchTypes
    <3> QED BY <2>0, <3>1, <3>2 DEF Once
  <2>3. CASE MakeAfter
    <3>1. UNCHANGED <<content, before, got, changed>>
      BY <2>3 DEF MakeAfter, ReadOne, trees, ghosts
    <3>2. after'[x] \in {after[x], content[x]}
      BY <2>3 DEF MakeAfter, ReadOne, BenchTypes
    <3> QED BY <2>0, <3>1, <3>2 DEF Once
  <2> QED BY <2>1, <2>2, <2>3
<1>3. InTurn'
  <2>1. CASE MakeBefore
    <3>1. at = "make" /\ at' \in {"make", "make read"} /\ UNCHANGED <<got, after>>
      BY <2>1 DEF MakeBefore, ReadOne
    <3>2. at' = "make read" => \A x \in Inputs : before'[x] # None
      BY <2>1, <3>1 DEF MakeBefore, ReadOne
    <3>3. \A x \in Outputs : before'[x] = before[x]
      BY <2>1 DEF MakeBefore, ReadOne, BenchTypes
    <3> QED BY <3>1, <3>2, <3>3 DEF InTurn, MakeSteps, RunSteps, Loaded
  <2>2. CASE MakeRead
    <3>1. at = "make read" /\ at' \in {"make read", "make write"} /\ UNCHANGED <<before, after>>
      BY <2>2 DEF MakeRead, ReadOne
    <3>2. at' = "make write" => \A x \in Inputs : got'[x] # None
      BY <2>2, <3>1 DEF MakeRead, ReadOne
    <3>3. \A x \in Outputs : got'[x] = got[x]
      BY <2>2 DEF MakeRead, ReadOne, BenchTypes
    <3> QED BY <3>1, <3>2, <3>3 DEF InTurn, MakeSteps, RunSteps, Loaded
  <2>3. CASE MakeAfter
    <3>1. /\ at = "make after" /\ at' \in {"make after", "make compare"}
          /\ UNCHANGED <<before, got>>
      BY <2>3 DEF MakeAfter, ReadOne
    <3>2. \A x \in Outputs : after'[x] = after[x]
      BY <2>3 DEF MakeAfter, ReadOne, BenchTypes
    <3> QED BY <3>1, <3>2 DEF InTurn, MakeSteps, RunSteps, Loaded
  <2> QED BY <2>1, <2>2, <2>3
<1>4. Written'
  BY DEF BenchTypes, Versions, Written, InTurn, MakeSteps, MakeBefore, MakeRead, MakeAfter,
         ReadOne, published, trees, ghosts
<1>5. LabelsOfSums'
  BY DEF BenchTypes, Versions, LabelsOfSums, InTurn, EditedOnce, Once, RunSteps, Loaded,
         MakeBefore, MakeRead, MakeAfter, ReadOne, published, trees, ghosts
<1>6. Compared'
  BY DEF Compared, Loaded, MakeBefore, MakeRead, MakeAfter, ReadOne, published, trees, ghosts
<1> QED BY <1>1, <1>2, <1>3, <1>4, <1>5, <1>6

LEMMA RunReadsKeeps == BenchInv /\ (RunBefore \/ LoadRows \/ Index \/ RunAfter) => BenchInv'
<1> SUFFICES ASSUME BenchInv, RunBefore \/ LoadRows \/ Index \/ RunAfter PROVE BenchInv'
  OBVIOUS
<1> USE Places, BenchmarkAssumption DEF BenchInv
<1>1. BenchTypes'
  BY DEF BenchTypes, Versions, MakeSteps, RunSteps, Loaded, RunBefore, LoadRows, Index,
         RunAfter, ReadOne, TheLabels, published, trees, ghosts
<1>2. EditedOnce'
  <2> SUFFICES ASSUME (at \in MakeSteps \cup RunSteps)', NEW x \in Objects, x \notin back'
               PROVE  Once(x)'
    BY DEF EditedOnce
  <2>0. Once(x) /\ x \notin back
    BY DEF EditedOnce, Once, RunBefore, LoadRows, Index, RunAfter, ReadOne, ghosts, MakeSteps,
           RunSteps, Loaded
  <2>1. CASE RunBefore
    <3>1. got[x] = None /\ after[x] = None /\ UNCHANGED <<content, changed, back, got, after>>
      BY <2>1 DEF InTurn, RunBefore, ReadOne, trees, ghosts
    <3>2. before'[x] \in {before[x], content[x]}
      BY <2>1 DEF RunBefore, ReadOne, BenchTypes
    <3> QED BY <2>0, <3>1, <3>2 DEF Once
  <2>2. CASE LoadRows
    BY <2>0, <2>2 DEF Once, InTurn, BenchTypes, MakeSteps, RunSteps, Loaded, LoadRows, ReadOne,
           TheLabels, published, trees, ghosts
  <2>3. CASE Index
    BY <2>0, <2>3 DEF Once, InTurn, BenchTypes, MakeSteps, RunSteps, Loaded, Index, ReadOne,
           TheLabels, published, trees, ghosts
  <2>4. CASE RunAfter
    BY <2>0, <2>4 DEF Once, InTurn, BenchTypes, MakeSteps, RunSteps, Loaded, RunAfter, ReadOne,
           TheLabels, published, trees, ghosts
  <2> QED BY <2>1, <2>2, <2>3, <2>4
<1>3. InTurn'
  BY DEF BenchTypes, Versions, InTurn, MakeSteps, RunSteps, Loaded, RunBefore, LoadRows, Index,
         RunAfter, ReadOne, TheLabels, published, trees, ghosts
<1>4. Written'
  BY DEF BenchTypes, Versions, Written, InTurn, MakeSteps, RunBefore, LoadRows, Index, RunAfter,
         ReadOne, TheLabels, published, trees, ghosts
<1>5. LabelsOfSums'
  <2>1. CASE RunBefore
    BY <2>1 DEF LabelsOfSums, Loaded, RunBefore, ReadOne, TheLabels, published, trees, ghosts
  <2>2. CASE LoadRows
    <3>1. at = "rows" /\ at' \in {"rows", "gate"} /\ UNCHANGED <<content, sums, changed, back>>
      BY <2>2 DEF LoadRows, ReadOne, trees, ghosts
    <3>2. got'[TheLabels] \in {got[TheLabels], content[TheLabels]}
      BY <2>2 DEF LoadRows, ReadOne, BenchTypes
    <3> QED BY <3>1, <3>2 DEF LabelsOfSums, Loaded
  <2>3. CASE Index
    BY <2>3 DEF LabelsOfSums, InTurn, EditedOnce, Once, Versions, RunSteps, Loaded, BenchTypes,
           Index, ReadOne, TheLabels, published, trees, ghosts
  <2>4. CASE RunAfter
    BY <2>4 DEF LabelsOfSums, Loaded, RunAfter, ReadOne, TheLabels, published, trees, ghosts
  <2> QED BY <2>1, <2>2, <2>3, <2>4
<1>6. Compared'
  BY DEF Compared, Loaded, RunBefore, LoadRows, Index, RunAfter, ReadOne, TheLabels, published,
         trees, ghosts
<1> QED BY <1>1, <1>2, <1>3, <1>4, <1>5, <1>6

LEMMA ChecksKeeps == BenchInv /\ (MakeCheck \/ Load \/ Gate) => BenchInv'
<1> SUFFICES ASSUME BenchInv, MakeCheck \/ Load \/ Gate PROVE BenchInv'
  OBVIOUS
<1> USE Places, BenchmarkAssumption DEF BenchInv
<1>1. BenchTypes'
  BY DEF BenchTypes, Versions, MakeSteps, RunSteps, Loaded, MakeCheck, Load, Gate, Check, Valid,
         published, trees, ghosts, reads
<1>2. EditedOnce'
  BY DEF BenchTypes, Versions, EditedOnce, Once, MakeSteps, RunSteps, Loaded, MakeCheck, Load,
         Gate, Check, Valid, published, trees, ghosts, reads
<1>3. InTurn'
  BY DEF BenchTypes, Versions, InTurn, MakeSteps, RunSteps, Loaded, MakeCheck, Load, Gate,
         Check, Valid, published, trees, ghosts, reads
<1>4. Written'
  BY DEF BenchTypes, Versions, Written, InTurn, MakeSteps, MakeCheck, Load, Gate, Check, Valid,
         published, trees, ghosts, reads
<1>5. LabelsOfSums'
  <2>1. CASE MakeCheck
    BY <2>1 DEF LabelsOfSums, Loaded, MakeCheck, Check, Valid, published, trees, ghosts, reads
  <2>2. CASE Load
    BY <2>2 DEF LabelsOfSums, InTurn, Loaded, Load, Check, Valid, published, trees, ghosts,
           reads
  <2>3. CASE Gate
    BY <2>3 DEF LabelsOfSums, InTurn, Loaded, Gate, Check, Valid, published, trees, ghosts,
           reads
  <2> QED BY <2>1, <2>2, <2>3
<1>6. Compared'
  BY DEF Compared, Loaded, MakeCheck, Load, Gate, Check, Valid, published, trees, ghosts, reads
<1> QED BY <1>1, <1>2, <1>3, <1>4, <1>5, <1>6

LEMMA ComparesKeeps == BenchInv /\ (MakeCompare \/ RunCompare) => BenchInv'
<1> SUFFICES ASSUME BenchInv, MakeCompare \/ RunCompare PROVE BenchInv'
  OBVIOUS
<1> USE Places, BenchmarkAssumption DEF BenchInv
<1>1. BenchTypes'
  BY DEF BenchTypes, Versions, MakeSteps, RunSteps, Loaded, MakeCompare, RunCompare, Compare,
         published, trees, ghosts, reads
<1>2. EditedOnce'
  BY DEF BenchTypes, Versions, EditedOnce, Once, MakeSteps, RunSteps, Loaded, MakeCompare,
         RunCompare, Compare, published, trees, ghosts, reads
<1>3. InTurn'
  BY DEF BenchTypes, Versions, InTurn, MakeSteps, RunSteps, Loaded, MakeCompare, RunCompare,
         Compare, published, trees, ghosts, reads
<1>4. Written'
  BY DEF BenchTypes, Versions, Written, InTurn, MakeSteps, MakeCompare, RunCompare, Compare,
         published, trees, ghosts, reads
<1>5. LabelsOfSums'
  BY DEF BenchTypes, Versions, LabelsOfSums, InTurn, EditedOnce, Once, RunSteps, Loaded,
         MakeCompare, RunCompare, Compare, published, trees, ghosts, reads
<1>6. Compared'
  <2>1. CASE MakeCompare
    <3>1. /\ at = "make compare" /\ at' \in {"made", "failed"}
          /\ UNCHANGED <<before, got, after, back, content, changed>>
          /\ at' = "made" => \A x \in Inputs : after[x] = before[x]
      BY <2>1 DEF MakeCompare, Compare, trees, ghosts, reads
    <3>2. ASSUME NEW x \in Inputs, at' = "made" PROVE got[x] = before[x] \/ x \in back
      <4>1. x \in Objects /\ got[x] # None /\ before[x] # None /\ after[x] = before[x]
        BY <3>1, <3>2 DEF InTurn, MakeSteps
      <4>2. x \in back \/ Once(x)
        BY <3>1, <4>1 DEF EditedOnce, MakeSteps
      <4> QED BY <4>1, <4>2 DEF Once
    <3> QED BY <3>1, <3>2 DEF Compared
  <2>2. CASE RunCompare
    <3>1. /\ at = "run compare" /\ at' \in {"publish", "failed"}
          /\ UNCHANGED <<before, got, after, back, content, changed>>
          /\ at' = "publish" => \A x \in Outputs : after[x] = before[x]
      BY <2>2 DEF RunCompare, Compare, trees, ghosts, reads
    <3>2. ASSUME at' = "publish" PROVE got[Wiki] = before[Wiki] \/ Wiki \in back
      <4>1. /\ Wiki \in Objects /\ got[Wiki] # None /\ before[Wiki] # None
            /\ after[Wiki] = before[Wiki]
        BY <3>1, <3>2 DEF InTurn, RunSteps, Loaded
      <4>2. Wiki \in back \/ Once(Wiki)
        BY <3>1, <4>1 DEF EditedOnce, RunSteps, Loaded
      <4> QED BY <4>1, <4>2 DEF Once
    <3> QED BY <3>1, <3>2 DEF Compared
  <2> QED BY <2>1, <2>2
<1> QED BY <1>1, <1>2, <1>3, <1>4, <1>5, <1>6

LEMMA WriteOutputsKeeps == BenchInv /\ WriteOutput => BenchInv'
<1> SUFFICES ASSUME BenchInv, WriteOutput PROVE BenchInv'
  OBVIOUS
<1> USE Places, BenchmarkAssumption DEF BenchInv
<1>1. BenchTypes'
  BY DEF BenchTypes, WriteOutput, published, reads
<1>2. EditedOnce'
  <2>1. PICK z \in Outputs : content[z] = None /\ content' = [content EXCEPT ![z] = got[Source(z)]]
    BY DEF WriteOutput
  <2>2. at = "make write" /\ at' = at /\ UNCHANGED <<changed, back, before, got, after>>
    BY DEF WriteOutput, ghosts, reads
  <2>3. \A x \in Objects : x # z => content'[x] = content[x]
    BY <2>1 DEF BenchTypes
  <2>4. before[z] = None /\ got[z] = None /\ after[z] = None
    BY <2>2 DEF InTurn, MakeSteps
  <2>5. \A x \in Objects \ back : Once(x)
    BY <2>2 DEF EditedOnce, MakeSteps
  <2>6. \A x \in Objects \ back' : Once(x)'
    BY <2>2, <2>3, <2>4, <2>5 DEF Once
  <2> QED BY <2>6 DEF EditedOnce
<1>3. InTurn'
  BY DEF InTurn, WriteOutput, ghosts, reads
<1>4. Written'
  <2>1. at = "make write" /\ UNCHANGED <<at, got, sums, changed>>
    BY DEF WriteOutput, ghosts, reads
  <2>2. PICK x \in Outputs : content' = [content EXCEPT ![x] = got[Source(x)]]
    BY DEF WriteOutput
  <2>3. \A y \in Outputs : content'[y] = IF y = x THEN got[Source(x)] ELSE content[y]
    BY <2>2 DEF BenchTypes
  <2>4. \A y \in Outputs : content[y] # None /\ y \notin changed => content[y] = got[Source(y)]
    BY <2>1 DEF Written
  <2>5. \A y \in Outputs :
            content'[y] # None /\ y \notin changed' => content'[y] = got'[Source(y)]
    <3> HIDE DEF BenchInv
    <3> QED BY <2>1, <2>3, <2>4
  <2> QED BY <2>1, <2>5 DEF Written
<1>5. LabelsOfSums'
  BY DEF LabelsOfSums, WriteOutput, published, ghosts, reads
<1>6. Compared'
  BY DEF Compared, Loaded, WriteOutput, published, ghosts, reads
<1> QED BY <1>1, <1>2, <1>3, <1>4, <1>5, <1>6

LEMMA WriteSumsKeeps == BenchInv /\ WriteSums => BenchInv'
<1> SUFFICES ASSUME BenchInv, WriteSums PROVE BenchInv'
  OBVIOUS
<1> USE Places, BenchmarkAssumption DEF BenchInv
<1>1. BenchTypes'
  BY DEF BenchTypes, MakeSteps, WriteSums, published, reads
<1>2. EditedOnce'
  BY DEF BenchTypes, Versions, EditedOnce, Once, MakeSteps, RunSteps, Loaded, WriteSums,
         published, ghosts, reads
<1>3. InTurn'
  BY DEF InTurn, MakeSteps, RunSteps, Loaded, WriteSums, ghosts, reads
<1>4. Written'
  BY DEF BenchTypes, Versions, Written, InTurn, MakeSteps, WriteSums, published, ghosts, reads
<1>5. LabelsOfSums'
  BY DEF BenchTypes, Versions, LabelsOfSums, InTurn, EditedOnce, Once, RunSteps, Loaded,
         WriteSums, published, ghosts, reads
<1>6. Compared'
  BY DEF Compared, Loaded, WriteSums, published, ghosts, reads
<1> QED BY <1>1, <1>2, <1>3, <1>4, <1>5, <1>6

LEMMA PublishKeeps == BenchInv /\ (PublishReport \/ PublishManifest \/ Break) => BenchInv'
<1> SUFFICES ASSUME BenchInv, PublishReport \/ PublishManifest \/ Break PROVE BenchInv'
  OBVIOUS
<1> USE Places, BenchmarkAssumption DEF BenchInv
<1>1. BenchTypes'
  <2>1. CASE PublishReport
    BY <2>1 DEF RunSteps, Loaded, BenchTypes, PublishReport, trees, reads
  <2>2. CASE PublishManifest
    BY <2>2 DEF BenchTypes, PublishManifest, trees, reads
  <2>3. CASE Break
    BY <2>3 DEF BenchTypes, Break, published, trees, reads
  <2> QED BY <2>1, <2>2, <2>3
<1>2. EditedOnce'
  BY DEF BenchTypes, Versions, EditedOnce, Once, MakeSteps, RunSteps, Loaded, PublishReport,
         PublishManifest, Break, Idle, published, trees, ghosts, reads
<1>3. InTurn'
  BY DEF BenchTypes, Versions, InTurn, MakeSteps, RunSteps, Loaded, PublishReport,
         PublishManifest, Break, Idle, published, trees, ghosts, reads
<1>4. Written'
  BY DEF BenchTypes, Versions, Written, InTurn, MakeSteps, PublishReport, PublishManifest,
         Break, Idle, published, trees, ghosts, reads
<1>5. LabelsOfSums'
  BY DEF BenchTypes, Versions, LabelsOfSums, InTurn, EditedOnce, Once, RunSteps, Loaded,
         PublishReport, PublishManifest, Break, Idle, published, trees, ghosts, reads
<1>6. Compared'
  BY DEF Compared, Loaded, PublishReport, PublishManifest, Break, Idle, published, trees,
         ghosts, reads
<1> QED BY <1>1, <1>2, <1>3, <1>4, <1>5, <1>6

LEMMA EditKeeps == BenchInv /\ Edit => BenchInv'
<1> SUFFICES ASSUME BenchInv, Edit PROVE BenchInv'
  OBVIOUS
<1> USE Places, BenchmarkAssumption DEF BenchInv
<1>1. BenchTypes'
  <2>1. PICK x \in Objects, v \in 0..MaxVersion : content' = [content EXCEPT ![x] = v]
    BY DEF Edit
  <2>2. content' \in [Objects -> Versions]
    BY <2>1 DEF BenchTypes, Versions
  <2> QED BY <2>2 DEF Edit, BenchTypes, published, reads
<1>2. EditedOnce'
  <2> SUFFICES ASSUME (at \in MakeSteps \cup RunSteps)', NEW x \in Objects, x \notin back'
               PROVE  Once(x)'
    BY DEF EditedOnce
  <2>0. Once(x) /\ x \notin back /\ UNCHANGED <<before, got, after>>
    BY DEF EditedOnce, Edit, reads
  <2>1. PICK y \in Objects :
            /\ \E v \in 0..MaxVersion : content' = [content EXCEPT ![y] = v]
            /\ back' = IF y \in changed THEN back \cup {y} ELSE back
            /\ changed' = changed \cup {y}
    BY DEF Edit
  <2>2. CASE x = y
    BY <2>0, <2>1, <2>2 DEF Once
  <2>3. CASE x # y
    BY <2>0, <2>1, <2>3 DEF Once
  <2> QED BY <2>2, <2>3
<1>3. InTurn'
  BY DEF InTurn, Edit, reads
<1>4. Written'
  BY DEF BenchTypes, Versions, Written, InTurn, MakeSteps, Edit, published, reads
<1>5. LabelsOfSums'
  BY DEF BenchTypes, LabelsOfSums, Edit, published, reads
<1>6. Compared'
  BY DEF Compared, Loaded, Edit, published, reads
<1> QED BY <1>1, <1>2, <1>3, <1>4, <1>5, <1>6

LEMMA ClearKeeps == BenchInv /\ Clear => BenchInv'
<1> SUFFICES ASSUME BenchInv, Clear PROVE BenchInv'
  OBVIOUS
<1> USE Places, BenchmarkAssumption DEF BenchInv
<1>1. BenchTypes'
  BY DEF BenchTypes, Versions, MakeSteps, RunSteps, Loaded, Clear, Idle, published, ghosts,
         reads
<1>2. EditedOnce'
  BY DEF BenchTypes, Versions, EditedOnce, Once, MakeSteps, RunSteps, Loaded, Clear, Idle,
         published, ghosts, reads
<1>3. InTurn'
  BY DEF InTurn, Clear, published, ghosts, reads
<1>4. Written'
  BY DEF Written, Clear, ghosts, reads
<1>5. LabelsOfSums'
  BY DEF LabelsOfSums, Clear, Idle, published, ghosts, reads
<1>6. Compared'
  BY DEF Compared, Loaded, Clear, Idle, published, ghosts, reads
<1> QED BY <1>1, <1>2, <1>3, <1>4, <1>5, <1>6

LEMMA BenchSteps == BenchInv /\ [Next]_vars => BenchInv'
<1> SUFFICES ASSUME BenchInv, [Next]_vars PROVE BenchInv'
  OBVIOUS
<1>1. CASE UNCHANGED benchVars
  <2> USE <1>1 DEF BenchInv, benchVars, trees, ghosts, reads, published
  <2>1. BenchTypes' /\ InTurn'
    BY DEF BenchTypes, InTurn
  <2>2. EditedOnce' /\ LabelsOfSums'
    BY DEF EditedOnce, Once, LabelsOfSums
  <2>3. Written' /\ Compared'
    BY DEF Written, Compared
  <2> QED BY <2>1, <2>2, <2>3
<1>2. CASE Next /\ ~UNCHANGED benchVars
  BY <1>2, BeginKeeps, MakeReadsKeeps, RunReadsKeeps, ChecksKeeps, ComparesKeeps,
     WriteOutputsKeeps, WriteSumsKeeps, PublishKeeps, EditKeeps, ClearKeeps
  DEF Next, Acquire
<1> QED BY <1>1, <1>2 DEF vars

LEMMA BenchAlways == Spec => []BenchInv
<1>1. Init => BenchInv
  BY BenchStart DEF Init
<1> QED BY <1>1, BenchSteps, PTL DEF Spec

\* A materialization that succeeds has made its bundle of the input it digested, unless a file
\* was edited and put back while it ran: materialize_beir_scifact, for any
\* number of edits and versions.
LEMMA BundlesAreOfInput == Spec => []BundleOfInput
<1>1. BenchInv => BundleOfInput
  BY DEF BenchInv, Compared, Written, BundleOfInput
<1> QED BY <1>1, BenchAlways, PTL

\* The results of a published report are of the wiki it digested and of the labels whose
\* checksum it shows, unless a file was edited and put back; and no manifest comes before its
\* report: run_scifact_benchmark, for any number of commands and edits.
LEMMA ReportsAreOfTheirTrees == Spec => []ReportOfItsTrees
<1>1. BenchInv => ReportOfItsTrees
  BY DEF BenchInv, BenchTypes, Compared, LabelsOfSums, Loaded, TheLabels, ReportOfItsTrees
<1> QED BY <1>1, BenchAlways, PTL

\* What a benchmark publishes, the bundle and the report, is of the trees it says
\* (PublishedOfItsTrees).
THEOREM PublicationsAreOfTheirTrees == Spec => []PublishedOfItsTrees
<1>1. BundleOfInput /\ ReportOfItsTrees => PublishedOfItsTrees
  BY DEF PublishedOfItsTrees
<1> QED BY <1>1, BundlesAreOfInput, ReportsAreOfTheirTrees, PTL

-----------------------------------------------------------------------------
(***************************************************************************)
(* The collector and the benchmark of pinned wikis.  The invariant follows *)
(* every version of a page that a step has read: it agrees with the one it *)
(* is to be compared with, or the page has been edited since the command   *)
(* began, and twice where the checkout holds yet another version, so that  *)
(* a comparison which finds the first version again finds a page that was  *)
(* put back.  A collector that has begun to write leaves its mark if it    *)
(* does not end, and one that ends has written every file it lists.        *)
(***************************************************************************)
PageVersions == (0..MaxSource) \cup {Gone}
Options ==
    [collect : BOOLEAN, pinned : BOOLEAN, dry : BOOLEAN, report : BOOLEAN, sourced : BOOLEAN]
Rereading == {"digests", "validate", "compare"}
ReadStages == {"hashes", "before", "shadow", "after"} \cup Rereading
Early == {"clone", "clean", "commit", "inputs", "hashes", "before", "shadow"}
Finishing == Writing \cup {"rows", "collected"}
CollectorOnly ==
    Early \cup {"dry run", "dry", "collect", "after", "rows", "corpus", "labels", "runs",
                "collection", "collected"}
Stages == CollectorOnly \cup Rereading \cup {"report", "idle", "failed", "evaluated"}

VerifiedTypes ==
    /\ wiki \in [Pages -> PageVersions]
    /\ out = [file \in OutputFiles |-> out[file]]
    /\ torn \in BOOLEAN /\ moved \in BOOLEAN /\ recased \in BOOLEAN
    /\ doing \in Stages /\ (doing # "idle" => option \in Options)
    /\ todo \subseteq Pages
    /\ digest \in [Pages -> PageVersions] /\ again \in [Pages -> PageVersions]
    /\ copy \in [Pages -> PageVersions]
    /\ seen \subseteq Pages \X PageVersions
    /\ touched \in [Pages -> Nat]
    /\ nth \in DOMAIN Plan /\ asked \in Nat

InCourse ==
    /\ doing \in CollectorOnly => option.collect
    /\ doing = "evaluated" => ~option.collect
    /\ doing \notin ReadStages \cup {"failed"} => todo = Pages
    /\ doing = "digests" /\ ~option.sourced => todo = Pages
    /\ doing \in Early => seen = {}
    /\ doing # "idle" /\ option.pinned => option.collect

\* A stage has read this page, or it is over
ReadIn(stage, later, page) == (doing = stage /\ page \notin todo) \/ doing \in later

PinKept ==
    /\ doing = "commit" /\ head # Unborn =>
        \A page \in Pages : wiki[page] = head[page] \/ touched[page] > 0
    /\ doing \in {"inputs", "hashes", "before"} /\ option.pinned =>
        \A page \in Pages : wiki[page] = 0 \/ touched[page] > 0
    /\ doing # "idle" /\ option.pinned => \A page \in Pages :
        ReadIn("before", {"shadow", "collect", "after"} \cup Finishing, page) =>
            digest[page] = 0 \/ touched[page] > 0

\* A version that was read, and the one it is compared with
Agrees(v, first, page) ==
    v # first => touched[page] > 0 /\ (wiki[page] = v \/ touched[page] > 1)

SourceKept ==
    \A page \in Pages :
    /\ ReadIn("before", {"shadow", "collect", "after"}, page) =>
        Agrees(wiki[page], digest[page], page)
    /\ ReadIn("shadow", {"collect"}, page) /\ Shadowed => Agrees(copy[page], digest[page], page)
    /\ doing \in {"collect", "after"} =>
        \A pair \in seen : pair[1] = page => Agrees(pair[2], digest[page], page)
    /\ ReadIn("after", Finishing, page) /\ option.collect =>
        \A pair \in seen : pair[1] = page => digest[page] = pair[2] \/ PutBack(page)

Collects(stages) == doing \in stages /\ option.collect

InputsKept ==
    /\ ~recased => (doing \in {"hashes", "before", "shadow", "collect", "after", "rows",
                               "corpus", "labels"} => cased = inputs)
    /\ Collects(Finishing \ {"rows", "corpus"}) =>
        out["corpus"].by = calls /\ (~recased => out["corpus"].of = cased.corpus)
    /\ Collects(Finishing \ {"rows", "corpus", "labels"}) =>
        out["labels"].by = calls /\ (~recased => out["labels"].of = cased.labels)
    /\ Collects(Finishing \ {"rows", "corpus", "labels", "runs"}) => out["runs"].by = calls

Listed ==
    \A file \in out["collection"].of :
        /\ file \in OutputFiles
        /\ IF file = "report" /\ out[file] # Part
           THEN out[file].of = [read \in Evaluated |-> out[read]]
           ELSE file # "report" => out[file].by = out["collection"].by

ListKept ==
    /\ ~torn /\ ~Collects(Writing) /\ out["collection"] \notin {Gone, Part} => Listed
    /\ Collects({"collection"}) /\ option.report =>
        out["report"].of = [read \in Evaluated |-> out[read]]

Judged(page) ==
    \/ doing = "compare" /\ page \notin todo
    \/ doing \in {"report", "collection", "collected", "evaluated"}
       /\ option.report /\ option.sourced

AgainKept ==
    \A page \in Pages :
    /\ ReadIn("digests", {"validate", "compare"}, page) => Agrees(wiki[page], again[page], page)
    /\ ReadIn("validate", {"compare"}, page) /\ out["corpus"] # Part =>
        Agrees(out["corpus"].of[page], again[page], page)
    /\ Judged(page) /\ ~moved /\ out["corpus"] # Part =>
        again[page] = out["corpus"].of[page] \/ PutBack(page)

VerifiedInv ==
    /\ VerifiedTypes /\ InCourse /\ PinKept /\ SourceKept
    /\ InputsKept /\ ListKept /\ AgainKept



LEMMA VerifiedStutter ==
    ASSUME VerifiedInv, UNCHANGED verifiedVars
    PROVE  VerifiedInv'
<1>1. /\ wiki' = wiki /\ head' = head /\ inputs' = inputs /\ out' = out /\ torn' = torn
      /\ doing' = doing /\ option' = option /\ todo' = todo /\ cased' = cased
      /\ digest' = digest /\ again' = again /\ moved' = moved /\ copy' = copy /\ nth' = nth
      /\ asked' = asked /\ seen' = seen /\ held' = held /\ met' = met
      /\ touched' = touched /\ recased' = recased /\ calls' = calls
  BY DEF verifiedVars, source, evaluation, collection, users
<1>2. VerifiedTypes' /\ InCourse'
  BY <1>1, Zenon DEF VerifiedInv, VerifiedTypes, InCourse
<1>3. PinKept' /\ SourceKept'
  BY <1>1, Zenon DEF VerifiedInv, PinKept, SourceKept, ReadIn, Agrees, PutBack
<1>4. InputsKept' /\ ListKept'
  BY <1>1, Zenon DEF VerifiedInv, InputsKept, ListKept, Collects, Listed
<1>5. AgainKept'
  BY <1>1, Zenon DEF VerifiedInv, AgainKept, ReadIn, Agrees, Judged, PutBack
<1> QED BY <1>2, <1>3, <1>4, <1>5 DEF VerifiedInv

\* Both commands begin in the same way
LEMMA Calls ==
    ASSUME CallCollector \/ CallBenchmark
    PROVE  \E asks \in Options, first \in {"inputs", "clone", "clean", "digests"} :
              Call(asks, first) /\ (asks.collect <=> first # "digests")
                /\ (asks.pinned => asks.collect /\ first # "inputs")
<1>1. CASE CallCollector
  <2>1. PICK pinned, dry, reported \in BOOLEAN :
            Call([collect |-> TRUE, pinned |-> pinned, dry |-> dry, report |-> reported,
                  sourced |-> TRUE],
                 IF ~pinned THEN "inputs" ELSE IF head = Gone THEN "clone" ELSE "clean")
    BY <1>1, Zenon DEF CallCollector
  <2> DEFINE asks == [collect |-> TRUE, pinned |-> pinned, dry |-> dry, report |-> reported,
                      sourced |-> TRUE]
             first == IF ~pinned THEN "inputs" ELSE IF head = Gone THEN "clone" ELSE "clean"
  <2>2. asks \in Options /\ asks.collect
    BY DEF Options
  <2>3. first \in {"inputs", "clone", "clean", "digests"} /\ first # "digests"
          /\ (asks.pinned => first # "inputs")
    OBVIOUS
  <2> HIDE DEF asks, first
  <2>4. Call(asks, first)
    BY <2>1, Zenon DEF asks, first
  <2> QED BY <2>2, <2>3, <2>4
<1>2. CASE CallBenchmark
  <2>1. PICK sourced \in BOOLEAN :
            Call([collect |-> FALSE, pinned |-> FALSE, dry |-> FALSE, report |-> TRUE,
                  sourced |-> sourced], "digests")
    BY <1>2, Zenon DEF CallBenchmark
  <2> DEFINE asks == [collect |-> FALSE, pinned |-> FALSE, dry |-> FALSE, report |-> TRUE,
                      sourced |-> sourced]
  <2>2. asks \in Options /\ ~asks.pinned /\ ~asks.collect
    BY DEF Options
  <2> HIDE DEF asks
  <2>3. Call(asks, "digests")
    BY <2>1, Zenon DEF asks
  <2> QED BY <2>2, <2>3
<1> QED BY <1>1, <1>2

LEMMA Values ==
    /\ NoTree \in [Pages -> PageVersions]
    /\ (0..MaxSource) \subseteq PageVersions /\ 0 \in PageVersions
    /\ 1 \in DOMAIN Plan /\ Pin # Unborn
BY VerifiedAssumption, UnbornIsNoTree DEF NoTree, PageVersions, Pin

\* What users change
LEMMA UserTypes ==
    ASSUME VerifiedTypes, UserEdits \/ UserCommits \/ UserRewrites \/ UserRemoves
    PROVE  VerifiedTypes'
<1>1. /\ out' = out /\ torn' = torn /\ doing' = doing /\ option' = option /\ todo' = todo
      /\ digest' = digest /\ again' = again /\ moved' = moved /\ copy' = copy
      /\ seen' = seen /\ nth' = nth /\ asked' = asked
  BY DEF UserEdits, UserCommits, UserRewrites, UserRemoves, Change, evaluation, collection
<1>2. recased' \in BOOLEAN
  BY DEF VerifiedTypes, UserEdits, UserCommits, UserRewrites, UserRemoves
<1>3. wiki' \in [Pages -> PageVersions]
  <2>1. CASE UserEdits
    <3>1. PICK page \in Pages, version \in 0..MaxSource : wiki' = [wiki EXCEPT ![page] = version]
      BY <2>1, Zenon DEF UserEdits
    <3> QED BY <3>1, Values DEF VerifiedTypes
  <2>2. CASE UserRemoves
    BY <2>2, Values DEF UserRemoves
  <2>3. CASE UserCommits \/ UserRewrites
    BY <2>3 DEF UserCommits, UserRewrites, VerifiedTypes, source
  <2> QED BY <2>1, <2>2, <2>3
<1>4. touched' \in [Pages -> Nat]
  <2>1. CASE UserEdits
    <3>1. PICK page \in Pages : touched' = [touched EXCEPT ![page] = @ + 1]
      BY <2>1, Zenon DEF UserEdits
    <3>2. touched[page] + 1 \in Nat
      BY DEF VerifiedTypes
    <3> QED BY <3>1, <3>2 DEF VerifiedTypes
  <2>2. CASE UserRemoves \/ UserCommits \/ UserRewrites
    BY <2>2 DEF UserRemoves, UserCommits, UserRewrites, VerifiedTypes
  <2> QED BY <2>1, <2>2
<1> QED BY <1>1, <1>2, <1>3, <1>4, Zenon DEF VerifiedTypes

\* Every command keeps the types
LEMMA VerifiedTypesStep ==
    ASSUME VerifiedTypes, VerifiedNext
    PROVE  VerifiedTypes'
<1> USE Values DEF VerifiedTypes, Options, Stages, CollectorOnly, Early, Rereading, ReadStages,
        Finishing, Writing, Over, OutputFiles, Evaluated
<1>1. ASSUME CallCollector PROVE VerifiedTypes'
  <2>1. PICK asks \in Options, first \in {"inputs", "clone", "clean", "digests"} :
              Call(asks, first) /\ (asks.collect <=> first # "digests")
                /\ (asks.pinned => asks.collect /\ first # "inputs")
    BY <1>1, Calls
  <2> QED BY <2>1 DEF Call, ForgetReads, source
<1>2. ASSUME Clone PROVE VerifiedTypes'
  <2>1. wiki' \in [Pages -> PageVersions]
    <3>1. CASE UNCHANGED wiki
      BY <3>1
    <3>2. CASE ~UNCHANGED wiki
      <4>1. PICK page \in Pages : wiki' = [wiki EXCEPT ![page] = 0]
        BY <1>2, <3>2 DEF Clone
      <4> QED BY <4>1
    <3> QED BY <3>1, <3>2
  <2>2. /\ doing = "clone" /\ doing' \in {"clone", "clean"}
        /\ UNCHANGED <<out, torn, option, todo, digest, again, copy, seen>>
        /\ UNCHANGED <<moved, recased, touched, nth, asked>>
    BY <1>2 DEF Clone, evaluation, collection, users
  <2> QED BY <2>1, <2>2
<1>3. ASSUME RequireClean PROVE VerifiedTypes'
  BY <1>3 DEF RequireClean, Goes, Fails, source, evaluation, collection, users
<1>4. ASSUME ValidateCommit PROVE VerifiedTypes'
  BY <1>4 DEF ValidateCommit, Goes, Fails, source, evaluation, collection, users
<1>5. ASSUME LoadInputs PROVE VerifiedTypes'
  BY <1>5 DEF LoadInputs, Goes, Fails, source, evaluation, collection, users
<1>6. ASSUME ValidateHashes PROVE VerifiedTypes'
  BY <1>6 DEF ValidateHashes, Reads, Fails, source, evaluation, collection, users
<1>7. ASSUME DryRun PROVE VerifiedTypes'
  BY <1>7 DEF DryRun, source, evaluation, collection, users
<1>8. ASSUME DigestBefore PROVE VerifiedTypes'
  BY <1>8 DEF DigestBefore, Reads, Fails, source, evaluation, collection, users
<1>9. ASSUME Shadow PROVE VerifiedTypes'
  BY <1>9 DEF Shadow, Reads, Fails, source, evaluation, users
<1>10. ASSUME Ask PROVE VerifiedTypes'
  BY <1>10 DEF Ask, source, evaluation, users
<1>11. ASSUME DigestAfter PROVE VerifiedTypes'
  BY <1>11 DEF DigestAfter, Reads, Fails, source, evaluation, collection, users
<1>12. ASSUME ValidateRows PROVE VerifiedTypes'
  BY <1>12 DEF ValidateRows, Goes, Fails, source, evaluation, collection, users
<1>13. ASSUME CopyCorpus PROVE VerifiedTypes'
  BY <1>13 DEF CopyCorpus, Write, source, evaluation, collection, users
<1>14. ASSUME CopyLabels PROVE VerifiedTypes'
  BY <1>14 DEF CopyLabels, Write, source, evaluation, collection, users
<1>15. ASSUME WriteRuns PROVE VerifiedTypes'
  BY <1>15 DEF WriteRuns, Write, source, evaluation, collection, users
<1>16. ASSUME WriteCollection PROVE VerifiedTypes'
  BY <1>16 DEF WriteCollection, Write, source, evaluation, collection, users
<1>17. ASSUME CallBenchmark PROVE VerifiedTypes'
  <2>1. PICK asks \in Options, first \in {"inputs", "clone", "clean", "digests"} :
              Call(asks, first) /\ (asks.collect <=> first # "digests")
                /\ (asks.pinned => asks.collect /\ first # "inputs")
    BY <1>17, Calls
  <2> QED BY <2>1 DEF Call, ForgetReads, source
<1>18. ASSUME DigestFiles PROVE VerifiedTypes'
  BY <1>18 DEF DigestFiles, source, evaluation, collection, users
<1>19. ASSUME DigestAgain PROVE VerifiedTypes'
  BY <1>19 DEF DigestAgain, Reads, Fails, source, collection, users
<1>20. ASSUME ValidateAgain PROVE VerifiedTypes'
  BY <1>20 DEF ValidateAgain, Reads, Fails, source, evaluation, collection, users
<1>21. ASSUME CompareAgain PROVE VerifiedTypes'
  BY <1>21 DEF CompareAgain, Reads, Fails, source, collection, users
<1>22. ASSUME WriteReport PROVE VerifiedTypes'
  BY <1>22 DEF WriteReport, Write, source, evaluation, collection, users
<1>23. ASSUME Stop PROVE VerifiedTypes'
  BY <1>23 DEF Stop, Fails, source, evaluation, collection, users
<1>24. ASSUME UserEdits PROVE VerifiedTypes'
  BY <1>24, UserTypes DEF UserEdits
<1>25. ASSUME UserCommits PROVE VerifiedTypes'
  BY <1>25, UserTypes DEF UserCommits
<1>26. ASSUME UserRewrites PROVE VerifiedTypes'
  BY <1>26, UserTypes DEF UserRewrites
<1>27. ASSUME UserRemoves PROVE VerifiedTypes'
  BY <1>27, UserTypes DEF UserRemoves
<1> QED BY <1>1, <1>2, <1>3, <1>4, <1>5, <1>6, <1>7, <1>8, <1>9, <1>10, <1>11, <1>12, <1>13,
     <1>14, <1>15, <1>16, <1>17, <1>18, <1>19, <1>20, <1>21, <1>22, <1>23, <1>24, <1>25, <1>26,
     <1>27 DEF VerifiedNext

\* Where a command is, given what it was called for
LEMMA CourseStep ==
    ASSUME VerifiedTypes, InCourse, VerifiedNext
    PROVE  InCourse'
<1> USE Values DEF VerifiedTypes, InCourse, Options, Stages, CollectorOnly, Early, Rereading,
        ReadStages, Finishing, Writing, Over
<1>1. ASSUME CallCollector PROVE InCourse'
  <2>1. PICK asks \in Options, first \in {"inputs", "clone", "clean", "digests"} :
              Call(asks, first) /\ (asks.collect <=> first # "digests")
                /\ (asks.pinned => asks.collect /\ first # "inputs")
    BY <1>1, Calls
  <2> QED BY <2>1 DEF Call, ForgetReads, source
<1>2. ASSUME Clone PROVE InCourse'
  BY <1>2 DEF Clone, evaluation, collection, users
<1>3. ASSUME RequireClean PROVE InCourse'
  BY <1>3 DEF RequireClean, Goes, Fails, source, evaluation, collection, users
<1>4. ASSUME ValidateCommit PROVE InCourse'
  BY <1>4 DEF ValidateCommit, Goes, Fails, source, evaluation, collection, users
<1>5. ASSUME LoadInputs PROVE InCourse'
  BY <1>5 DEF LoadInputs, Goes, Fails, source, evaluation, collection, users
<1>6. ASSUME ValidateHashes PROVE InCourse'
  BY <1>6 DEF ValidateHashes, Reads, Fails, source, evaluation, collection, users
<1>7. ASSUME DryRun PROVE InCourse'
  BY <1>7 DEF DryRun, source, evaluation, collection, users
<1>8. ASSUME DigestBefore PROVE InCourse'
  BY <1>8 DEF DigestBefore, Reads, Fails, source, evaluation, collection, users
<1>9. ASSUME Shadow PROVE InCourse'
  BY <1>9 DEF Shadow, Reads, Fails, source, evaluation, users
<1>10. ASSUME Ask PROVE InCourse'
  BY <1>10 DEF Ask, source, evaluation, users
<1>11. ASSUME DigestAfter PROVE InCourse'
  BY <1>11 DEF DigestAfter, Reads, Fails, source, evaluation, collection, users
<1>12. ASSUME ValidateRows PROVE InCourse'
  BY <1>12 DEF ValidateRows, Goes, Fails, source, evaluation, collection, users
<1>13. ASSUME CopyCorpus PROVE InCourse'
  BY <1>13 DEF CopyCorpus, Write, source, evaluation, collection, users
<1>14. ASSUME CopyLabels PROVE InCourse'
  BY <1>14 DEF CopyLabels, Write, source, evaluation, collection, users
<1>15. ASSUME WriteRuns PROVE InCourse'
  BY <1>15 DEF WriteRuns, Write, source, evaluation, collection, users
<1>16. ASSUME WriteCollection PROVE InCourse'
  BY <1>16 DEF WriteCollection, Write, source, evaluation, collection, users
<1>17. ASSUME CallBenchmark PROVE InCourse'
  <2>1. PICK asks \in Options, first \in {"inputs", "clone", "clean", "digests"} :
              Call(asks, first) /\ (asks.collect <=> first # "digests")
                /\ (asks.pinned => asks.collect /\ first # "inputs")
    BY <1>17, Calls
  <2> QED BY <2>1 DEF Call, ForgetReads, source
<1>18. ASSUME DigestFiles PROVE InCourse'
  BY <1>18 DEF DigestFiles, source, evaluation, collection, users
<1>19. ASSUME DigestAgain PROVE InCourse'
  BY <1>19 DEF DigestAgain, Reads, Fails, source, collection, users
<1>20. ASSUME ValidateAgain PROVE InCourse'
  BY <1>20 DEF ValidateAgain, Reads, Fails, source, evaluation, collection, users
<1>21. ASSUME CompareAgain PROVE InCourse'
  BY <1>21 DEF CompareAgain, Reads, Fails, source, collection, users
<1>22. ASSUME WriteReport PROVE InCourse'
  BY <1>22 DEF WriteReport, Write, source, evaluation, collection, users
<1>23. ASSUME Stop PROVE InCourse'
  BY <1>23 DEF Stop, Fails, source, evaluation, collection, users
<1>24. ASSUME UserEdits PROVE InCourse'
  BY <1>24 DEF UserEdits, Change, evaluation, collection
<1>25. ASSUME UserCommits PROVE InCourse'
  BY <1>25 DEF UserCommits, Change, evaluation, collection
<1>26. ASSUME UserRewrites PROVE InCourse'
  BY <1>26 DEF UserRewrites, Change, source, evaluation, collection
<1>27. ASSUME UserRemoves PROVE InCourse'
  BY <1>27 DEF UserRemoves, Change, evaluation, collection
<1> QED BY <1>1, <1>2, <1>3, <1>4, <1>5, <1>6, <1>7, <1>8, <1>9, <1>10, <1>11, <1>12, <1>13,
     <1>14, <1>15, <1>16, <1>17, <1>18, <1>19, <1>20, <1>21, <1>22, <1>23, <1>24, <1>25, <1>26,
     <1>27 DEF VerifiedNext

LEMMA CallGives ==
    ASSUME CallCollector \/ CallBenchmark
    PROVE  /\ doing' \in {"inputs", "clone", "clean", "digests"} /\ option' \in Options
           /\ option'.collect <=> doing' # "digests"
           /\ option'.pinned => option'.collect /\ doing' # "inputs"
           /\ seen' = {} /\ todo' = Pages /\ doing \in Over
           /\ UNCHANGED <<wiki, head, inputs, out, torn>>
<1>1. PICK asks \in Options, first \in {"inputs", "clone", "clean", "digests"} :
            Call(asks, first) /\ (asks.collect <=> first # "digests")
              /\ (asks.pinned => asks.collect /\ first # "inputs")
  BY Calls
<1>2. /\ option' = asks /\ doing' = first
  BY <1>1, Zenon DEF Call
<1>3. /\ seen' = {} /\ todo' = Pages /\ UNCHANGED <<wiki, head, inputs, out, torn>>
      /\ doing \in Over
  BY <1>1 DEF Call, ForgetReads, source
<1> QED BY <1>1, <1>2, <1>3

LEMMA EditGives ==
    ASSUME UserEdits, wiki \in [Pages -> PageVersions], touched \in [Pages -> Nat]
    PROVE  /\ \A p \in Pages : touched[p] \in Nat /\ touched'[p] \in Nat
           /\ \A p \in Pages : touched'[p] >= touched[p]
           /\ \A p \in Pages : wiki'[p] = wiki[p] \/ touched'[p] > touched[p]
           /\ UNCHANGED <<head, inputs, out, torn, doing, option, todo, cased, digest, again, moved,
                          copy, nth, asked, seen, held, met, recased, calls>>
<1>1. PICK page \in Pages, version \in 0..MaxSource :
            wiki' = [wiki EXCEPT ![page] = version] /\ touched' = [touched EXCEPT ![page] = @ + 1]
  BY Zenon DEF UserEdits
<1>2. \A p \in Pages : touched'[p] = IF p = page THEN touched[p] + 1 ELSE touched[p]
  BY <1>1
<1>5. \A p \in Pages : touched[p] \in Nat
  OBVIOUS
<1>3. \A p \in Pages : wiki'[p] # wiki[p] => p = page
  BY <1>1
<1>4. UNCHANGED <<head, inputs, out, torn, doing, option, todo, cased, digest, again, moved,
                  copy, nth, asked, seen, held, met, recased, calls>>
  BY DEF UserEdits, Change, evaluation, collection
<1> QED BY <1>2, <1>3, <1>4, <1>5

LEMMA WriteGives ==
    ASSUME VerifiedTypes, NEW file \in OutputFiles, NEW text, NEW next, Write(file, text, next)
    PROVE  /\ doing = file /\ doing' = next
           /\ out'[file].by = calls /\ out'[file].of = text
           /\ \A f \in OutputFiles \ {file} : out'[f] = out[f]
           /\ UNCHANGED <<wiki, head, option, todo, cased, digest, again, moved, inputs, seen,
                          touched, recased, calls>>
BY DEF VerifiedTypes, Write, source, evaluation, collection, users

LEMMA PinEdits ==
    ASSUME UserEdits, PinKept, wiki \in [Pages -> PageVersions], touched \in [Pages -> Nat]
    PROVE  PinKept'
BY EditGives DEF PinKept, ReadIn

\* A pinned source is at its pin unless users edited it
LEMMA PinStep ==
    ASSUME VerifiedTypes, InCourse, PinKept, VerifiedNext
    PROVE  PinKept'
<1>0. /\ todo \subseteq Pages /\ digest \in [Pages -> PageVersions]
      /\ again \in [Pages -> PageVersions] /\ copy \in [Pages -> PageVersions]
      /\ wiki \in [Pages -> PageVersions] /\ touched \in [Pages -> Nat] /\ moved \in BOOLEAN
  BY DEF VerifiedTypes
<1> USE Values, <1>0 DEF InCourse, PinKept, ReadIn, Finishing, Writing, Early, CollectorOnly,
        Pin
<1>1. ASSUME CallCollector PROVE PinKept'
  BY <1>1, CallGives
<1>2. ASSUME Clone PROVE PinKept'
  BY <1>2 DEF Clone, evaluation, collection, users
<1>3. ASSUME RequireClean PROVE PinKept'
  BY <1>3 DEF RequireClean, Goes, Fails, source, evaluation, collection, users
<1>4. ASSUME ValidateCommit PROVE PinKept'
  BY <1>4 DEF ValidateCommit, Goes, Fails, source, evaluation, collection, users
<1>5. ASSUME LoadInputs PROVE PinKept'
  BY <1>5 DEF LoadInputs, Goes, Fails, source, evaluation, collection, users
<1>6. ASSUME ValidateHashes PROVE PinKept'
  BY <1>6 DEF ValidateHashes, Reads, Fails, source, evaluation, collection, users
<1>7. ASSUME DryRun PROVE PinKept'
  BY <1>7 DEF DryRun, source, evaluation, collection, users
<1>8. ASSUME DigestBefore PROVE PinKept'
  BY <1>8 DEF DigestBefore, Reads, Fails, source, evaluation, collection, users
<1>9. ASSUME Shadow PROVE PinKept'
  BY <1>9 DEF Shadow, Reads, Fails, source, evaluation, users
<1>10. ASSUME Ask PROVE PinKept'
  BY <1>10 DEF Ask, source, evaluation, users
<1>11. ASSUME DigestAfter PROVE PinKept'
  BY <1>11 DEF DigestAfter, Reads, Fails, source, evaluation, collection, users
<1>12. ASSUME ValidateRows PROVE PinKept'
  BY <1>12 DEF ValidateRows, Goes, Fails, source, evaluation, collection, users
<1>13. ASSUME CopyCorpus PROVE PinKept'
  BY <1>13 DEF CopyCorpus, Write, source, evaluation, collection, users
<1>14. ASSUME CopyLabels PROVE PinKept'
  BY <1>14 DEF CopyLabels, Write, source, evaluation, collection, users
<1>15. ASSUME WriteRuns PROVE PinKept'
  BY <1>15 DEF WriteRuns, Write, source, evaluation, collection, users
<1>16. ASSUME WriteCollection PROVE PinKept'
  BY <1>16 DEF WriteCollection, Write, source, evaluation, collection, users
<1>17. ASSUME CallBenchmark PROVE PinKept'
  BY <1>17, CallGives
<1>18. ASSUME DigestFiles PROVE PinKept'
  BY <1>18 DEF DigestFiles, source, evaluation, collection, users
<1>19. ASSUME DigestAgain PROVE PinKept'
  BY <1>19 DEF DigestAgain, Reads, Fails, source, collection, users
<1>20. ASSUME ValidateAgain PROVE PinKept'
  BY <1>20 DEF ValidateAgain, Reads, Fails, source, evaluation, collection, users
<1>21. ASSUME CompareAgain PROVE PinKept'
  BY <1>21 DEF CompareAgain, Reads, Fails, source, collection, users
<1>22. ASSUME WriteReport PROVE PinKept'
  BY <1>22 DEF WriteReport, Write, source, evaluation, collection, users
<1>23. ASSUME Stop PROVE PinKept'
  BY <1>23 DEF Stop, Fails, source, evaluation, collection, users
<1>24. ASSUME UserEdits PROVE PinKept'
  BY <1>24, PinEdits
<1>25. ASSUME UserCommits PROVE PinKept'
  BY <1>25 DEF UserCommits, Change, evaluation, collection
<1>26. ASSUME UserRewrites PROVE PinKept'
  BY <1>26 DEF UserRewrites, Change, source, evaluation, collection
<1>27. ASSUME UserRemoves PROVE PinKept'
  BY <1>27 DEF UserRemoves, Change, evaluation, collection, Over
<1> QED BY <1>1, <1>2, <1>3, <1>4, <1>5, <1>6, <1>7, <1>8, <1>9, <1>10, <1>11, <1>12, <1>13,
     <1>14, <1>15, <1>16, <1>17, <1>18, <1>19, <1>20, <1>21, <1>22, <1>23, <1>24, <1>25, <1>26,
     <1>27 DEF VerifiedNext

LEMMA SourceEdits ==
    ASSUME UserEdits, SourceKept, wiki \in [Pages -> PageVersions], touched \in [Pages -> Nat]
    PROVE  SourceKept'
BY EditGives DEF SourceKept, ReadIn, Agrees, PutBack

\* The source and its copy are what was digested unless users edited them
LEMMA SourceStep ==
    ASSUME VerifiedTypes, InCourse, SourceKept, VerifiedNext
    PROVE  SourceKept'
<1>0. /\ todo \subseteq Pages /\ digest \in [Pages -> PageVersions]
      /\ again \in [Pages -> PageVersions] /\ copy \in [Pages -> PageVersions]
      /\ wiki \in [Pages -> PageVersions] /\ touched \in [Pages -> Nat] /\ moved \in BOOLEAN
  BY DEF VerifiedTypes
<1> USE Values, <1>0 DEF InCourse, SourceKept, ReadIn, Agrees, Finishing, Writing, Early,
        CollectorOnly, PutBack
<1>1. ASSUME CallCollector PROVE SourceKept'
  BY <1>1, CallGives
<1>2. ASSUME Clone PROVE SourceKept'
  BY <1>2 DEF Clone, evaluation, collection, users
<1>3. ASSUME RequireClean PROVE SourceKept'
  BY <1>3 DEF RequireClean, Goes, Fails, source, evaluation, collection, users
<1>4. ASSUME ValidateCommit PROVE SourceKept'
  BY <1>4 DEF ValidateCommit, Goes, Fails, source, evaluation, collection, users
<1>5. ASSUME LoadInputs PROVE SourceKept'
  BY <1>5 DEF LoadInputs, Goes, Fails, source, evaluation, collection, users
<1>6. ASSUME ValidateHashes PROVE SourceKept'
  BY <1>6 DEF ValidateHashes, Reads, Fails, source, evaluation, collection, users
<1>7. ASSUME DryRun PROVE SourceKept'
  BY <1>7 DEF DryRun, source, evaluation, collection, users
<1>8. ASSUME DigestBefore PROVE SourceKept'
  BY <1>8 DEF DigestBefore, Reads, Fails, source, evaluation, collection, users
<1>9. ASSUME Shadow PROVE SourceKept'
  BY <1>9 DEF Shadow, Reads, Fails, source, evaluation, users
<1>10. ASSUME Ask PROVE SourceKept'
  <2>1. /\ doing = "collect" /\ doing' \in {"collect", "after"}
        /\ UNCHANGED <<wiki, option, todo, digest, copy, touched>>
    BY <1>10, Zenon DEF Ask, source, users
  <2>2. ASSUME NEW pair \in seen', pair \notin seen
        PROVE  \/ \E page \in Pages : pair = <<page, wiki[page]>>
               \/ Shadowed /\ \E page \in Pages : pair = <<page, copy[page]>>
    <3>1. nth \in DOMAIN Plan
      BY DEF VerifiedTypes
    <3> QED BY <1>10, <2>2, <3>1 DEF Ask, Shadowed
  <2>3. ASSUME NEW page \in Pages, NEW pair \in seen', pair[1] = page
        PROVE  Agrees(pair[2], digest[page], page)
    BY <2>1, <2>2, <2>3
  <2>4. todo = Pages
    BY <2>1 DEF ReadStages, Rereading
  <2> QED BY <2>1, <2>3, <2>4
<1>11. ASSUME DigestAfter PROVE SourceKept'
  BY <1>11 DEF DigestAfter, Reads, Fails, source, evaluation, collection, users
<1>12. ASSUME ValidateRows PROVE SourceKept'
  BY <1>12 DEF ValidateRows, Goes, Fails, source, evaluation, collection, users
<1>13. ASSUME CopyCorpus PROVE SourceKept'
  BY <1>13 DEF CopyCorpus, Write, source, evaluation, collection, users
<1>14. ASSUME CopyLabels PROVE SourceKept'
  BY <1>14 DEF CopyLabels, Write, source, evaluation, collection, users
<1>15. ASSUME WriteRuns PROVE SourceKept'
  BY <1>15 DEF WriteRuns, Write, source, evaluation, collection, users
<1>16. ASSUME WriteCollection PROVE SourceKept'
  BY <1>16 DEF WriteCollection, Write, source, evaluation, collection, users
<1>17. ASSUME CallBenchmark PROVE SourceKept'
  BY <1>17, CallGives
<1>18. ASSUME DigestFiles PROVE SourceKept'
  BY <1>18 DEF DigestFiles, source, evaluation, collection, users
<1>19. ASSUME DigestAgain PROVE SourceKept'
  BY <1>19 DEF DigestAgain, Reads, Fails, source, collection, users
<1>20. ASSUME ValidateAgain PROVE SourceKept'
  BY <1>20 DEF ValidateAgain, Reads, Fails, source, evaluation, collection, users
<1>21. ASSUME CompareAgain PROVE SourceKept'
  BY <1>21 DEF CompareAgain, Reads, Fails, source, collection, users
<1>22. ASSUME WriteReport PROVE SourceKept'
  BY <1>22 DEF WriteReport, Write, source, evaluation, collection, users
<1>23. ASSUME Stop PROVE SourceKept'
  BY <1>23 DEF Stop, Fails, source, evaluation, collection, users
<1>24. ASSUME UserEdits PROVE SourceKept'
  BY <1>24, SourceEdits
<1>25. ASSUME UserCommits PROVE SourceKept'
  BY <1>25 DEF UserCommits, Change, evaluation, collection
<1>26. ASSUME UserRewrites PROVE SourceKept'
  BY <1>26 DEF UserRewrites, Change, source, evaluation, collection
<1>27. ASSUME UserRemoves PROVE SourceKept'
  BY <1>27 DEF UserRemoves, Change, evaluation, collection, Over
<1> QED BY <1>1, <1>2, <1>3, <1>4, <1>5, <1>6, <1>7, <1>8, <1>9, <1>10, <1>11, <1>12, <1>13,
     <1>14, <1>15, <1>16, <1>17, <1>18, <1>19, <1>20, <1>21, <1>22, <1>23, <1>24, <1>25, <1>26,
     <1>27 DEF VerifiedNext

LEMMA InputsEdits ==
    ASSUME UserEdits, InputsKept, VerifiedTypes
    PROVE  InputsKept'
BY EditGives, Zenon DEF InputsKept, Collects, VerifiedTypes

\* The inputs are those that were read, and the files of this command
LEMMA InputsStep ==
    ASSUME VerifiedTypes, InCourse, InputsKept, VerifiedNext
    PROVE  InputsKept'
<1> USE Values DEF InCourse, InputsKept, Collects, Finishing, Writing, Early, CollectorOnly
<1>1. ASSUME CallCollector PROVE InputsKept'
  BY <1>1, CallGives
<1>2. ASSUME Clone PROVE InputsKept'
  BY <1>2 DEF Clone, evaluation, collection, users
<1>3. ASSUME RequireClean PROVE InputsKept'
  BY <1>3 DEF RequireClean, Goes, Fails, source, evaluation, collection, users
<1>4. ASSUME ValidateCommit PROVE InputsKept'
  BY <1>4 DEF ValidateCommit, Goes, Fails, source, evaluation, collection, users
<1>5. ASSUME LoadInputs PROVE InputsKept'
  BY <1>5 DEF LoadInputs, Goes, Fails, source, evaluation, collection, users
<1>6. ASSUME ValidateHashes PROVE InputsKept'
  <2>1. /\ doing = "hashes" /\ doing' \in {"hashes", "failed", "dry run", "before"}
        /\ UNCHANGED <<inputs, out, option, cased, recased, calls>>
    BY <1>6 DEF ValidateHashes, Reads, Fails, users
  <2> QED BY <2>1
<1>7. ASSUME DryRun PROVE InputsKept'
  BY <1>7 DEF DryRun, source, evaluation, collection, users
<1>8. ASSUME DigestBefore PROVE InputsKept'
  BY <1>8 DEF DigestBefore, Reads, Fails, source, evaluation, collection, users
<1>9. ASSUME Shadow PROVE InputsKept'
  BY <1>9 DEF Shadow, Reads, Fails, source, evaluation, users
<1>10. ASSUME Ask PROVE InputsKept'
  BY <1>10 DEF Ask, source, evaluation, users
<1>11. ASSUME DigestAfter PROVE InputsKept'
  BY <1>11 DEF DigestAfter, Reads, Fails, source, evaluation, collection, users
<1>12. ASSUME ValidateRows PROVE InputsKept'
  BY <1>12 DEF ValidateRows, Goes, Fails, source, evaluation, collection, users
<1>13. ASSUME CopyCorpus PROVE InputsKept'
  <2>1. Write("corpus", inputs.corpus, "labels") /\ "corpus" \in OutputFiles
    BY <1>13 DEF CopyCorpus, OutputFiles, Evaluated
  <2>2. /\ doing = "corpus" /\ doing' = "labels"
        /\ out'["corpus"].by = calls /\ out'["corpus"].of = inputs.corpus
        /\ \A f \in OutputFiles \ {"corpus"} : out'[f] = out[f]
        /\ UNCHANGED <<option, cased, inputs, recased, calls>>
    BY <2>1, WriteGives
  <2> QED BY <2>2 DEF OutputFiles, Evaluated
<1>14. ASSUME CopyLabels PROVE InputsKept'
  <2>1. Write("labels", inputs.labels, "runs") /\ "labels" \in OutputFiles
    BY <1>14 DEF CopyLabels, OutputFiles, Evaluated
  <2>2. /\ doing = "labels" /\ doing' = "runs"
        /\ out'["labels"].by = calls /\ out'["labels"].of = inputs.labels
        /\ \A f \in OutputFiles \ {"labels"} : out'[f] = out[f]
        /\ UNCHANGED <<option, cased, inputs, recased, calls>>
    BY <2>1, WriteGives
  <2> QED BY <2>2 DEF OutputFiles, Evaluated
<1>15. ASSUME WriteRuns PROVE InputsKept'
  <2>1. PICK next \in {"digests", "collection"} : Write("runs", seen, next)
    BY <1>15 DEF WriteRuns
  <2>2. "runs" \in OutputFiles
    BY DEF OutputFiles, Evaluated
  <2>3. /\ doing = "runs" /\ doing' = next
        /\ out'["runs"].by = calls /\ out'["runs"].of = seen
        /\ \A f \in OutputFiles \ {"runs"} : out'[f] = out[f]
        /\ UNCHANGED <<option, cased, inputs, recased, calls>>
    BY <2>1, <2>2, WriteGives
  <2> QED BY <2>3 DEF OutputFiles, Evaluated
<1>16. ASSUME WriteCollection PROVE InputsKept'
  BY <1>16 DEF WriteCollection, Write, source, evaluation, collection, users
<1>17. ASSUME CallBenchmark PROVE InputsKept'
  BY <1>17, CallGives
<1>18. ASSUME DigestFiles PROVE InputsKept'
  BY <1>18 DEF DigestFiles, source, evaluation, collection, users
<1>19. ASSUME DigestAgain PROVE InputsKept'
  BY <1>19 DEF DigestAgain, Reads, Fails, source, collection, users
<1>20. ASSUME ValidateAgain PROVE InputsKept'
  BY <1>20 DEF ValidateAgain, Reads, Fails, source, evaluation, collection, users
<1>21. ASSUME CompareAgain PROVE InputsKept'
  BY <1>21 DEF CompareAgain, Reads, Fails, source, collection, users
<1>22. ASSUME WriteReport PROVE InputsKept'
  BY <1>22 DEF WriteReport, Write, source, evaluation, collection, users
<1>23. ASSUME Stop PROVE InputsKept'
  BY <1>23 DEF Stop, Fails, source, evaluation, collection, users
<1>24. ASSUME UserEdits PROVE InputsKept'
  BY <1>24, InputsEdits
<1>25. ASSUME UserCommits PROVE InputsKept'
  BY <1>25 DEF UserCommits, Change, evaluation, collection
<1>26. ASSUME UserRewrites PROVE InputsKept'
  BY <1>26 DEF UserRewrites, Change, source, evaluation, collection
<1>27. ASSUME UserRemoves PROVE InputsKept'
  BY <1>27 DEF UserRemoves, Change, evaluation, collection, Over
<1> QED BY <1>1, <1>2, <1>3, <1>4, <1>5, <1>6, <1>7, <1>8, <1>9, <1>10, <1>11, <1>12, <1>13,
     <1>14, <1>15, <1>16, <1>17, <1>18, <1>19, <1>20, <1>21, <1>22, <1>23, <1>24, <1>25, <1>26,
     <1>27 DEF VerifiedNext

LEMMA ListEdits ==
    ASSUME UserEdits, ListKept, VerifiedTypes
    PROVE  ListKept'
BY EditGives, Zenon DEF ListKept, Listed, Collects, VerifiedTypes

\* The list of a collection is of its own files
LEMMA ListStep ==
    ASSUME VerifiedTypes, InCourse, InputsKept, ListKept, VerifiedNext
    PROVE  ListKept'
<1> USE Values DEF InCourse, ListKept, Collects, Listed, Finishing, Writing, Early,
        CollectorOnly, Evaluated, Over
<1>1. ASSUME CallCollector PROVE ListKept'
  BY <1>1, CallGives
<1>2. ASSUME Clone PROVE ListKept'
  BY <1>2 DEF Clone, evaluation, collection, users
<1>3. ASSUME RequireClean PROVE ListKept'
  BY <1>3 DEF RequireClean, Goes, Fails, source, evaluation, collection, users
<1>4. ASSUME ValidateCommit PROVE ListKept'
  BY <1>4 DEF ValidateCommit, Goes, Fails, source, evaluation, collection, users
<1>5. ASSUME LoadInputs PROVE ListKept'
  BY <1>5 DEF LoadInputs, Goes, Fails, source, evaluation, collection, users
<1>6. ASSUME ValidateHashes PROVE ListKept'
  BY <1>6 DEF ValidateHashes, Reads, Fails, source, evaluation, collection, users
<1>7. ASSUME DryRun PROVE ListKept'
  <2>1. out'["collection"].of = {} /\ doing' = "dry"
    BY <1>7 DEF DryRun, VerifiedTypes, OutputFiles
  <2> QED BY <2>1
<1>8. ASSUME DigestBefore PROVE ListKept'
  BY <1>8 DEF DigestBefore, Reads, Fails, source, evaluation, collection, users
<1>9. ASSUME Shadow PROVE ListKept'
  BY <1>9 DEF Shadow, Reads, Fails, source, evaluation, users
<1>10. ASSUME Ask PROVE ListKept'
  BY <1>10 DEF Ask, source, evaluation, users
<1>11. ASSUME DigestAfter PROVE ListKept'
  BY <1>11 DEF DigestAfter, Reads, Fails, source, evaluation, collection, users
<1>12. ASSUME ValidateRows PROVE ListKept'
  BY <1>12 DEF ValidateRows, Goes, Fails, source, evaluation, collection, users
<1>13. ASSUME CopyCorpus PROVE ListKept'
  BY <1>13 DEF CopyCorpus, Write, source, evaluation, collection, users
<1>14. ASSUME CopyLabels PROVE ListKept'
  BY <1>14 DEF CopyLabels, Write, source, evaluation, collection, users
<1>15. ASSUME WriteRuns PROVE ListKept'
  BY <1>15 DEF WriteRuns, Write, source, evaluation, collection, users
<1>16. ASSUME WriteCollection PROVE ListKept'
  <2>1. /\ doing = "collection" /\ doing' = "collected"
        /\ out'["collection"].by = calls
        /\ out'["collection"].of = Evaluated \cup (IF option.report THEN {"report"} ELSE {})
        /\ \A f \in OutputFiles \ {"collection"} : out'[f] = out[f]
        /\ UNCHANGED <<option, calls>>
    BY <1>16, WriteGives DEF WriteCollection, OutputFiles
  <2>2. /\ out["corpus"].by = calls /\ out["labels"].by = calls /\ out["runs"].by = calls
        /\ option.collect
    BY <2>1 DEF InputsKept
  <2>3. [read \in Evaluated |-> out'[read]] = [read \in Evaluated |-> out[read]]
    BY <2>1 DEF OutputFiles
  <2> QED BY <2>1, <2>2, <2>3 DEF OutputFiles
<1>17. ASSUME CallBenchmark PROVE ListKept'
  BY <1>17, CallGives
<1>18. ASSUME DigestFiles PROVE ListKept'
  BY <1>18 DEF DigestFiles, source, evaluation, collection, users
<1>19. ASSUME DigestAgain PROVE ListKept'
  BY <1>19 DEF DigestAgain, Reads, Fails, source, collection, users
<1>20. ASSUME ValidateAgain PROVE ListKept'
  BY <1>20 DEF ValidateAgain, Reads, Fails, source, evaluation, collection, users
<1>21. ASSUME CompareAgain PROVE ListKept'
  BY <1>21 DEF CompareAgain, Reads, Fails, source, collection, users
<1>22. ASSUME WriteReport PROVE ListKept'
  <2>1. /\ doing = "report" /\ doing' \in {"collection", "evaluated"}
        /\ doing' = "collection" <=> option.collect
        /\ out'["report"].of = [read \in Evaluated |-> out[read]]
        /\ \A f \in OutputFiles \ {"report"} : out'[f] = out[f]
        /\ UNCHANGED <<option, torn>>
    <3>1. Write("report", [file \in Evaluated |-> out[file]],
                IF option.collect THEN "collection" ELSE "evaluated")
      BY <1>22, Zenon DEF WriteReport
    <3>2. "report" \in OutputFiles
      BY DEF OutputFiles
    <3>3. UNCHANGED torn
      BY <1>22 DEF WriteReport
    <3>4. /\ doing = "report" /\ doing' = (IF option.collect THEN "collection" ELSE "evaluated")
          /\ out'["report"].of = [file \in Evaluated |-> out[file]]
          /\ \A f \in OutputFiles \ {"report"} : out'[f] = out[f]
          /\ option' = option
      BY <3>1, <3>2, WriteGives, Zenon
    <3> QED BY <3>3, <3>4
  <2>2. [read \in Evaluated |-> out'[read]] = [read \in Evaluated |-> out[read]]
    BY <2>1 DEF OutputFiles
  <2> QED BY <2>1, <2>2 DEF OutputFiles
<1>23. ASSUME Stop PROVE ListKept'
  <2>1. /\ doing' = "failed" /\ UNCHANGED option
        /\ torn' = (torn \/ (option.collect /\ doing \in Writing))
    BY <1>23 DEF Stop, Fails
  <2>2. CASE out' = out
    BY <2>1, <2>2
  <2>3. CASE out' # out
    <3>1. PICK f \in OutputFiles :
              /\ out' = [out EXCEPT ![f] = Part]
              /\ f = (IF doing = "dry run" THEN "collection" ELSE doing)
      BY <1>23, <2>3 DEF Stop
    <3>2. CASE f = "collection"
      BY <3>1, <3>2, <2>1 DEF VerifiedTypes, OutputFiles
    <3>3. CASE f \in Evaluated
      BY <3>1, <3>3, <2>1
    <3>4. CASE f = "report"
      <4>1. /\ doing = "report" /\ out'["report"] = Part
            /\ \A g \in OutputFiles \ {"report"} : out'[g] = out[g]
        BY <3>1, <3>4 DEF VerifiedTypes, OutputFiles
      <4> QED BY <4>1, <2>1 DEF OutputFiles
    <3> QED BY <3>1, <3>2, <3>3, <3>4 DEF OutputFiles
  <2> QED BY <2>2, <2>3
<1>24. ASSUME UserEdits PROVE ListKept'
  BY <1>24, ListEdits
<1>25. ASSUME UserCommits PROVE ListKept'
  BY <1>25 DEF UserCommits, Change, evaluation, collection
<1>26. ASSUME UserRewrites PROVE ListKept'
  BY <1>26 DEF UserRewrites, Change, source, evaluation, collection
<1>27. ASSUME UserRemoves PROVE ListKept'
  BY <1>27 DEF UserRemoves, Change, evaluation, collection, Over
<1> QED BY <1>1, <1>2, <1>3, <1>4, <1>5, <1>6, <1>7, <1>8, <1>9, <1>10, <1>11, <1>12, <1>13,
     <1>14, <1>15, <1>16, <1>17, <1>18, <1>19, <1>20, <1>21, <1>22, <1>23, <1>24, <1>25, <1>26,
     <1>27 DEF VerifiedNext

LEMMA AgainEdits ==
    ASSUME UserEdits, AgainKept, wiki \in [Pages -> PageVersions], touched \in [Pages -> Nat]
    PROVE  AgainKept'
BY EditGives DEF AgainKept, ReadIn, Agrees, PutBack, Judged

\* The evaluated source is what its report says
LEMMA AgainStep ==
    ASSUME VerifiedTypes, InCourse, AgainKept, VerifiedNext
    PROVE  AgainKept'
<1>0. /\ todo \subseteq Pages /\ digest \in [Pages -> PageVersions]
      /\ again \in [Pages -> PageVersions] /\ copy \in [Pages -> PageVersions]
      /\ wiki \in [Pages -> PageVersions] /\ touched \in [Pages -> Nat] /\ moved \in BOOLEAN
  BY DEF VerifiedTypes
<1> USE Values, <1>0 DEF InCourse, AgainKept, ReadIn, Agrees, Finishing, Writing, Early,
        CollectorOnly, PutBack, Judged
<1>1. ASSUME CallCollector PROVE AgainKept'
  BY <1>1, CallGives
<1>2. ASSUME Clone PROVE AgainKept'
  BY <1>2 DEF Clone, evaluation, collection, users
<1>3. ASSUME RequireClean PROVE AgainKept'
  BY <1>3 DEF RequireClean, Goes, Fails, source, evaluation, collection, users
<1>4. ASSUME ValidateCommit PROVE AgainKept'
  BY <1>4 DEF ValidateCommit, Goes, Fails, source, evaluation, collection, users
<1>5. ASSUME LoadInputs PROVE AgainKept'
  BY <1>5 DEF LoadInputs, Goes, Fails, source, evaluation, collection, users
<1>6. ASSUME ValidateHashes PROVE AgainKept'
  BY <1>6 DEF ValidateHashes, Reads, Fails, source, evaluation, collection, users
<1>7. ASSUME DryRun PROVE AgainKept'
  BY <1>7 DEF DryRun, source, evaluation, collection, users
<1>8. ASSUME DigestBefore PROVE AgainKept'
  BY <1>8 DEF DigestBefore, Reads, Fails, source, evaluation, collection, users
<1>9. ASSUME Shadow PROVE AgainKept'
  BY <1>9 DEF Shadow, Reads, Fails, source, evaluation, users
<1>10. ASSUME Ask PROVE AgainKept'
  BY <1>10 DEF Ask, source, evaluation, users
<1>11. ASSUME DigestAfter PROVE AgainKept'
  BY <1>11 DEF DigestAfter, Reads, Fails, source, evaluation, collection, users
<1>12. ASSUME ValidateRows PROVE AgainKept'
  BY <1>12 DEF ValidateRows, Goes, Fails, source, evaluation, collection, users
<1>13. ASSUME CopyCorpus PROVE AgainKept'
  BY <1>13 DEF CopyCorpus, Write, source, evaluation, collection, users
<1>14. ASSUME CopyLabels PROVE AgainKept'
  BY <1>14 DEF CopyLabels, Write, source, evaluation, collection, users
<1>15. ASSUME WriteRuns PROVE AgainKept'
  <2>1. /\ doing = "runs" /\ doing' = (IF option.report THEN "digests" ELSE "collection")
        /\ out'["corpus"] = out["corpus"] /\ todo' = Pages
        /\ UNCHANGED <<wiki, option, again, touched, moved>>
    <3>1. Write("runs", seen, IF option.report THEN "digests" ELSE "collection")
      BY <1>15, Zenon DEF WriteRuns
    <3>2. "runs" \in OutputFiles /\ "corpus" \in OutputFiles
      BY DEF OutputFiles, Evaluated
    <3>3. todo = Pages
      BY <3>1 DEF Write, ReadStages, Rereading
    <3>4. todo' = todo
      BY <3>1, Zenon DEF Write
    <3> QED BY <3>1, <3>2, <3>3, <3>4, WriteGives
  <2> QED BY <2>1
<1>16. ASSUME WriteCollection PROVE AgainKept'
  BY <1>16 DEF WriteCollection, Write, source, evaluation, collection, users
<1>17. ASSUME CallBenchmark PROVE AgainKept'
  BY <1>17, CallGives
<1>18. ASSUME DigestFiles PROVE AgainKept'
  BY <1>18 DEF DigestFiles, source, evaluation, collection, users
<1>19. ASSUME DigestAgain PROVE AgainKept'
  BY <1>19 DEF DigestAgain, Reads, Fails, source, collection, users
<1>20. ASSUME ValidateAgain PROVE AgainKept'
  BY <1>20 DEF ValidateAgain, Reads, Fails, source, evaluation, collection, users
<1>21. ASSUME CompareAgain PROVE AgainKept'
  <2>1. PICK page \in Pages :
            /\ Reads("compare", page, TRUE, "report")
            /\ moved' = (moved \/ wiki[page] # again[page])
            /\ UNCHANGED <<digest, again, collection>>
    BY <1>21 DEF CompareAgain
  <2>2. /\ doing = "compare" /\ page \in todo
        /\ \/ doing' = "report" /\ todo = {page}
           \/ doing' = "compare" /\ todo' = todo \ {page}
        /\ UNCHANGED <<wiki, out, option, again, touched>>
    BY <2>1 DEF Reads, source, users
  <2>3. ~moved' => ~moved /\ wiki[page] = again[page]
    BY <2>1
  <2>4. ASSUME NEW p \in Pages, Judged(p)', ~moved', out["corpus"] # Part
        PROVE  again[p] = out["corpus"].of[p] \/ PutBack(p)
    <3>1. p = page \/ (p \notin todo /\ ~moved)
      BY <2>2, <2>3, <2>4
    <3> QED BY <3>1, <2>2, <2>3, <2>4
  <2> QED BY <2>2, <2>4
<1>22. ASSUME WriteReport PROVE AgainKept'
  BY <1>22 DEF WriteReport, Write, source, evaluation, collection, users
<1>23. ASSUME Stop PROVE AgainKept'
  BY <1>23 DEF Stop, Fails, source, evaluation, collection, users
<1>24. ASSUME UserEdits PROVE AgainKept'
  BY <1>24, AgainEdits
<1>25. ASSUME UserCommits PROVE AgainKept'
  BY <1>25 DEF UserCommits, Change, evaluation, collection
<1>26. ASSUME UserRewrites PROVE AgainKept'
  BY <1>26 DEF UserRewrites, Change, source, evaluation, collection
<1>27. ASSUME UserRemoves PROVE AgainKept'
  BY <1>27 DEF UserRemoves, Change, evaluation, collection, Over
<1> QED BY <1>1, <1>2, <1>3, <1>4, <1>5, <1>6, <1>7, <1>8, <1>9, <1>10, <1>11, <1>12, <1>13,
     <1>14, <1>15, <1>16, <1>17, <1>18, <1>19, <1>20, <1>21, <1>22, <1>23, <1>24, <1>25, <1>26,
     <1>27 DEF VerifiedNext

\* The invariant holds at first and is kept by every step
LEMMA VerifiedStart == VerifiedInit => VerifiedInv
<1> SUFFICES ASSUME VerifiedInit PROVE VerifiedInv
  OBVIOUS
<1> USE Values DEF VerifiedInit
<1>1. VerifiedTypes
  BY DEF VerifiedTypes, Stages
<1>2. InCourse
  BY DEF InCourse, CollectorOnly, Early
<1>3. PinKept /\ SourceKept
  BY DEF PinKept, SourceKept, ReadIn, Finishing, Writing
<1>4. InputsKept
  BY DEF InputsKept, Collects, Finishing, Writing
<1>5. ListKept
  BY DEF ListKept, Collects, OutputFiles
<1>6. AgainKept
  BY DEF AgainKept, ReadIn, Judged
<1> QED BY <1>1, <1>2, <1>3, <1>4, <1>5, <1>6 DEF VerifiedInv

LEMMA VerifiedStep ==
    ASSUME VerifiedInv, [VerifiedNext]_verifiedVars
    PROVE  VerifiedInv'
<1>1. CASE VerifiedNext
  BY <1>1, VerifiedTypesStep, CourseStep, PinStep, SourceStep, InputsStep, ListStep, AgainStep
     DEF VerifiedInv
<1>2. CASE UNCHANGED verifiedVars
  BY <1>2, VerifiedStutter
<1> QED BY <1>1, <1>2

\* What the invariant says of a command that is over
LEMMA CollectionFollows ==
    ASSUME VerifiedInv
    PROVE  CollectionOfOneSource
<1> USE DEF VerifiedInv
<1>1. ASSUME doing = "collected", NEW pair \in seen
      PROVE  digest[pair[1]] = pair[2] \/ PutBack(pair[1])
  <2>1. pair[1] \in Pages
    BY DEF VerifiedTypes
  <2>2. option.collect
    BY <1>1 DEF InCourse, CollectorOnly
  <2> QED BY <1>1, <2>1, <2>2 DEF SourceKept, ReadIn, Finishing
<1>2. ASSUME doing = "collected", option.pinned, NEW page \in Pages
      PROVE  digest[page] = 0 \/ touched[page] > 0
  BY <1>2 DEF PinKept, ReadIn, Finishing
<1>3. ASSUME doing = "collected", ~recased
      PROVE  out["corpus"].of = cased.corpus /\ out["labels"].of = cased.labels
  <2>1. option.collect
    BY <1>3 DEF InCourse, CollectorOnly
  <2> QED BY <1>3, <2>1 DEF InputsKept, Collects, Finishing
<1>4. doing \in Over /\ ~torn /\ out["collection"] \notin {Gone, Part} => Listed
  BY DEF ListKept, Collects, Over, Writing
<1>5. ASSUME doing \in {"collected", "evaluated"}, option.report, option.sourced, ~moved,
             out["corpus"] # Part, NEW page \in Pages
      PROVE  again[page] = out["corpus"].of[page] \/ PutBack(page)
  BY <1>5 DEF AgainKept, Judged
<1> QED BY <1>1, <1>2, <1>3, <1>4, <1>5, Zenon DEF CollectionOfOneSource, Listed

(***************************************************************************)
(* The queries of a run.  The state directory of the run, or of the slug   *)
(* of a cold query, holds hits of the queries it has begun and no others,  *)
(* and those of later runs hold none.                                      *)
(***************************************************************************)
\* The run has asked it
Begun(q) == \E i \in DOMAIN Asked : i <= asked /\ Asked[i] = q

QueriesKept ==
    /\ doing \in Early => held = {} /\ nth = 1 /\ asked = 0
    /\ doing = "collect" =>
        /\ asked < IF Plan[nth].phase = "primed" THEN 2 * Len(Asked) ELSE Len(Asked)
        /\ \A n \in DOMAIN Plan, q \in DOMAIN Slug : n >= nth =>
            /\ <<<<n>>, q>> \in held <=>
                n = nth /\ Plan[n].managed /\ Plan[n].phase # "cold" /\ Begun(q)
            /\ \A x \in DOMAIN Slug : <<<<n, Slug[x]>>, q>> \in held <=>
                /\ n = nth /\ Plan[n].managed /\ Plan[n].phase = "cold"
                /\ Slug[q] = Slug[x] /\ Begun(q)

LEMMA QueriesFrame ==
    ASSUME QueriesKept, ColdIsCold, UNCHANGED <<nth, asked, held, met>>,
           doing' \in Early => doing \in Early,
           doing' = "collect" => doing \in Early \cup {"collect"}
    PROVE  QueriesKept' /\ ColdIsCold'
<1>1. ColdIsCold'
  BY Zenon DEF ColdIsCold
<1>2. CASE doing' = "collect" /\ doing \in Early
  <2>1. held' = {} /\ nth' = 1 /\ asked' = 0
    BY <1>2 DEF QueriesKept
  <2>2. \A q \in DOMAIN Slug : ~Begun(q)'
    BY <2>1, VerifiedAssumption DEF Begun
  <2>3. Len(Asked) \in Nat /\ Len(Asked) > 0
    BY VerifiedAssumption
  <2>4. "collect" \notin Early
    BY DEF Early
  <2> QED BY <1>1, <1>2, <2>1, <2>2, <2>3, <2>4 DEF QueriesKept
<1>3. CASE ~(doing' = "collect" /\ doing \in Early)
  <2>1. nth' = nth /\ asked' = asked /\ held' = held
    OBVIOUS
  <2>2. doing' \in Early => doing \in Early
    OBVIOUS
  <2>3. doing' = "collect" => doing = "collect"
    BY <1>3
  <2>4. \A q : Begun(q)' <=> Begun(q)
    BY <2>1 DEF Begun
  <2> QED BY <1>1, <2>1, <2>2, <2>3, <2>4 DEF QueriesKept
<1> QED BY <1>2, <1>3

\* Tuples of one and of two
LEMMA DirectoriesDiffer ==
    /\ \A a, b, c, q, r : <<<<a>>, q>> # <<<<b, c>>, r>>
    /\ \A a, b, q, r : <<<<a>>, q>> = <<<<b>>, r>> <=> a = b /\ q = r
    /\ \A a, b, c, d, q, r : <<<<a, c>>, q>> = <<<<b, d>>, r>> <=> a = b /\ c = d /\ q = r
OBVIOUS

\* The query that is asked
LEMMA AskedNow ==
    ASSUME VerifiedTypes, QueriesKept, doing = "collect"
    PROVE  LET k == (asked % Len(Asked)) + 1 IN
           /\ k \in DOMAIN Asked /\ Asked[k] \in DOMAIN Slug
           /\ asked < Len(Asked) => k = asked + 1
           /\ asked >= Len(Asked) => \A q \in DOMAIN Slug :
                Begun(q) <=> \E i \in DOMAIN Asked : Asked[i] = q
<1>1. /\ Len(Asked) \in Nat /\ Len(Asked) > 0 /\ DOMAIN Asked = 1..Len(Asked)
      /\ \A i \in 1..Len(Asked) : Asked[i] \in DOMAIN Slug
  BY VerifiedAssumption
<1>2. asked \in Nat
  BY DEF VerifiedTypes
<1>3. asked % Len(Asked) \in 0..(Len(Asked) - 1)
  BY <1>1, <1>2
<1>4. asked < Len(Asked) => asked % Len(Asked) = asked
  BY <1>1, <1>2
<1>5. ASSUME asked >= Len(Asked), NEW i \in DOMAIN Asked
      PROVE  i <= asked
  BY <1>1, <1>2, <1>5
<1> QED BY <1>1, <1>2, <1>3, <1>4, <1>5 DEF Begun

LEMMA AskKeeps ==
    ASSUME VerifiedTypes, QueriesKept, ColdIsCold, Ask
    PROVE  QueriesKept' /\ ColdIsCold'
<1> DEFINE k == (asked % Len(Asked)) + 1
           query == Asked[k]
           dir == StateDir(query)
           hits == {q \in DOMAIN Slug : <<dir, q>> \in held}
<1>1. /\ doing = "collect" /\ nth \in DOMAIN Plan /\ asked \in Nat /\ DOMAIN Plan \subseteq Nat
      /\ Plan[nth].phase \in Phases
  <2>1. doing = "collect" /\ nth \in DOMAIN Plan /\ asked \in Nat
    BY DEF Ask, VerifiedTypes
  <2> DEFINE Runs == [shadow : BOOLEAN, managed : BOOLEAN, phase : Phases]
  <2>2. Plan \in Seq(Runs)
    BY VerifiedAssumption
  <2>3. ASSUME NEW run \in Runs PROVE run.phase \in Phases
    OBVIOUS
  <2> HIDE DEF Runs
  <2>4. Plan[nth] \in Runs /\ DOMAIN Plan \subseteq Nat
    BY <2>1, <2>2
  <2> QED BY <2>1, <2>3, <2>4
<1>2. /\ Len(Asked) \in Nat /\ Len(Asked) > 0 /\ DOMAIN Asked = 1..Len(Asked)
  BY VerifiedAssumption
<1>3. /\ k \in DOMAIN Asked /\ query \in DOMAIN Slug
      /\ asked < Len(Asked) => k = asked + 1
      /\ asked >= Len(Asked) => \A q \in DOMAIN Slug :
           Begun(q) <=> \E i \in DOMAIN Asked : Asked[i] = q
  BY <1>1, AskedNow
<1>4. /\ held' = IF Plan[nth].managed THEN held \cup {<<dir, query>>} ELSE held
      /\ met' = IF Priming \/ ~Plan[nth].managed THEN met
                ELSE met \cup {[phase |-> Plan[nth].phase, query |-> query, hits |-> hits]}
      /\ asked' = IF LastAsked THEN 0 ELSE asked + 1
      /\ nth' = IF LastAsked /\ nth < Len(Plan) THEN nth + 1 ELSE nth
      /\ doing' = IF LastAsked /\ nth = Len(Plan) THEN "after" ELSE "collect"
  BY Zenon DEF Ask
<1>5. asked < IF Plan[nth].phase = "primed" THEN 2 * Len(Asked) ELSE Len(Asked)
  BY <1>1 DEF QueriesKept
<1>6. dir = IF Plan[nth].phase = "cold" THEN <<nth, Slug[query]>> ELSE <<nth>>
  BY DEF StateDir
<1>7. \A n \in DOMAIN Plan, q \in DOMAIN Slug : n >= nth =>
        /\ <<<<n>>, q>> \in held <=>
            n = nth /\ Plan[n].managed /\ Plan[n].phase # "cold" /\ Begun(q)
        /\ \A x \in DOMAIN Slug : <<<<n, Slug[x]>>, q>> \in held <=>
            /\ n = nth /\ Plan[n].managed /\ Plan[n].phase = "cold"
            /\ Slug[q] = Slug[x] /\ Begun(q)
  BY <1>1, Zenon DEF QueriesKept
<1> HIDE DEF k, query, dir, hits
<1>8. ColdIsCold'
  <2>1. CASE Priming \/ ~Plan[nth].managed
    BY <1>4, <2>1, Zenon DEF ColdIsCold
  <2>2. CASE ~Priming /\ Plan[nth].managed
    <3> DEFINE m == [phase |-> Plan[nth].phase, query |-> query, hits |-> hits]
    <3>0. /\ m.phase = Plan[nth].phase /\ m.query = query /\ m.hits = hits
          /\ met' = met \cup {m}
      BY <1>4, <2>2, Zenon
    <3> HIDE DEF m
    <3>1. Place(query) = k
      BY <1>3, QueryIdsAreUnique DEF Place, query
    <3> DEFINE earlier == {Asked[i] : i \in 1..(k - 1)}
    <3>2. ASSUME Plan[nth].phase = "cold" PROVE AsLabeled(m)
      <4>1. k = asked + 1
        BY <1>3, <1>5, <3>2
      <4>2. \A q \in DOMAIN Slug : q \in hits <=> Slug[q] = Slug[query] /\ Begun(q)
        <5>1. \A q \in DOMAIN Slug : <<<<nth, Slug[query]>>, q>> \in held <=>
                Plan[nth].managed /\ Plan[nth].phase = "cold" /\ Slug[q] = Slug[query] /\ Begun(q)
          <6>1. nth >= nth
            BY <1>1
          <6> QED BY <1>1, <1>3, <1>7, <6>1, Zenon
        <5>2. dir = <<nth, Slug[query]>>
          BY <1>6, <3>2
        <5> QED BY <5>1, <5>2, <2>2, <3>2 DEF hits
      <4>3. \A q : q \in earlier <=> q \in DOMAIN Slug /\ Begun(q)
        BY <1>1, <1>2, <1>3, <4>1, VerifiedAssumption, SMTT(30) DEF Begun
      <4>4. hits = {q \in earlier : Slug[q] = Slug[query]}
        <5> HIDE DEF earlier
        <5> QED BY <4>2, <4>3 DEF hits
      <4> QED BY <3>0, <3>1, <3>2, <4>4 DEF AsLabeled
    <3>3. ASSUME Plan[nth].phase = "warm" PROVE AsLabeled(m)
      <4>1. k = asked + 1
        BY <1>3, <1>5, <3>3
      <4>2. \A q \in DOMAIN Slug : q \in hits <=> Begun(q)
        BY <1>1, <1>3, <1>6, <1>7, <2>2, <3>3 DEF hits
      <4>3. \A q : q \in earlier <=> q \in DOMAIN Slug /\ Begun(q)
        BY <1>1, <1>2, <1>3, <4>1, VerifiedAssumption, SMTT(30) DEF Begun
      <4>4. hits = earlier
        <5> HIDE DEF earlier
        <5> QED BY <4>2, <4>3 DEF hits
      <4> QED BY <3>0, <3>1, <3>3, <4>4 DEF AsLabeled
    <3>4. ASSUME Plan[nth].phase = "primed" PROVE AsLabeled(m)
      <4>1. asked >= Len(Asked)
        BY <1>1, <1>2, <2>2, <3>4 DEF Priming
      <4>2. \A q \in DOMAIN Slug : q \in hits <=> Begun(q)
        BY <1>1, <1>3, <1>6, <1>7, <2>2, <3>4 DEF hits
      <4>3. \A i \in DOMAIN Asked : Asked[i] \in DOMAIN Slug
        BY VerifiedAssumption
      <4>4. hits = {Asked[i] : i \in DOMAIN Asked}
        BY <1>3, <4>1, <4>2, <4>3 DEF hits
      <4> QED BY <3>0, <3>4, <4>4 DEF AsLabeled
    <3>5. AsLabeled(m)
      BY <1>1, <3>2, <3>3, <3>4 DEF Phases
    <3> QED BY <3>0, <3>5 DEF ColdIsCold
  <2> QED BY <2>1, <2>2
<1>9. QueriesKept'
  <2>1. doing' \notin Early
    BY <1>4 DEF Early
  <2>2. CASE ~LastAsked
    <3>1. asked' = asked + 1 /\ nth' = nth /\ doing' = "collect"
      BY <1>4, <2>2
    <3>2. asked' < IF Plan[nth].phase = "primed" THEN 2 * Len(Asked) ELSE Len(Asked)
      BY <1>1, <1>2, <1>5, <2>2, <3>1 DEF LastAsked
    <3>3. \A q \in DOMAIN Slug : Begun(q)' <=> Begun(q) \/ q = query
      <4>1. CASE asked < Len(Asked)
        BY <1>1, <1>2, <1>3, <3>1, <4>1 DEF Begun, query
      <4>2. CASE ~(asked < Len(Asked))
        BY <1>1, <1>2, <1>3, <3>1, <4>2 DEF Begun, query
      <4> QED BY <4>1, <4>2
    <3>4. ASSUME NEW n \in DOMAIN Plan, NEW q \in DOMAIN Slug, n >= nth
          PROVE  <<<<n>>, q>> \in held' <=>
                   n = nth /\ Plan[n].managed /\ Plan[n].phase # "cold" /\ Begun(q)'
      <4>1. <<<<n>>, q>> = <<dir, query>> <=> n = nth /\ Plan[nth].phase # "cold" /\ q = query
        BY <1>6, DirectoriesDiffer
      <4> QED BY <1>4, <1>7, <3>3, <3>4, <4>1
    <3>5. ASSUME NEW n \in DOMAIN Plan, NEW q \in DOMAIN Slug, n >= nth, NEW x \in DOMAIN Slug
          PROVE  <<<<n, Slug[x]>>, q>> \in held' <=>
                   /\ n = nth /\ Plan[n].managed /\ Plan[n].phase = "cold"
                   /\ Slug[q] = Slug[x] /\ Begun(q)'
      <4>1. <<<<n, Slug[x]>>, q>> = <<dir, query>> <=>
              n = nth /\ Plan[nth].phase = "cold" /\ Slug[x] = Slug[query] /\ q = query
        BY <1>6, DirectoriesDiffer
      <4> QED BY <1>4, <1>7, <3>3, <3>5, <4>1
    <3> QED BY <2>1, <3>1, <3>2, <3>4, <3>5, ZenonT(30) DEF QueriesKept
  <2>3. CASE LastAsked /\ nth < Len(Plan)
    <3>1. asked' = 0 /\ nth' = nth + 1 /\ doing' = "collect"
      BY <1>1, <1>4, <2>3
    <3>2. \A q \in DOMAIN Slug : ~Begun(q)'
      BY <1>2, <3>1 DEF Begun
    <3>3. ASSUME NEW n \in DOMAIN Plan, NEW q \in DOMAIN Slug, n >= nth + 1, NEW x \in DOMAIN Slug
          PROVE  <<<<n>>, q>> \notin held' /\ <<<<n, Slug[x]>>, q>> \notin held'
      <4>1. n # nth /\ n >= nth
        BY <1>1, <3>3
      <4>2. <<<<n>>, q>> # <<dir, query>> /\ <<<<n, Slug[x]>>, q>> # <<dir, query>>
        BY <1>6, <4>1, DirectoriesDiffer
      <4> QED BY <1>4, <1>7, <4>1, <4>2
    <3>4. asked' < IF Plan[nth'].phase = "primed" THEN 2 * Len(Asked) ELSE Len(Asked)
      BY <1>2, <3>1
    <3>5. \A n \in DOMAIN Plan, q \in DOMAIN Slug : n >= nth' => <<<<n>>, q>> \notin held'
      BY <3>1, <3>3
    <3>6. \A n \in DOMAIN Plan, q \in DOMAIN Slug : n >= nth' =>
            \A x \in DOMAIN Slug : <<<<n, Slug[x]>>, q>> \notin held'
      BY <3>1, <3>3
    <3> QED BY <2>1, <3>2, <3>4, <3>5, <3>6, Zenon DEF QueriesKept
  <2>4. CASE LastAsked /\ ~(nth < Len(Plan))
    <3>1. doing' = "after"
      BY <1>1, <1>4, <2>4, VerifiedAssumption
    <3> QED BY <2>1, <3>1 DEF QueriesKept
  <2> QED BY <2>2, <2>3, <2>4
<1> QED BY <1>8, <1>9


\* Every step keeps the hits where they belong
LEMMA QueriesStep ==
    ASSUME VerifiedInv, QueriesKept, ColdIsCold, [VerifiedNext]_verifiedVars
    PROVE  QueriesKept' /\ ColdIsCold'
<1> DEFINE Frame == /\ UNCHANGED <<nth, asked, held, met>>
                    /\ doing' \in Early => doing \in Early
                    /\ doing' = "collect" => doing \in Early \cup {"collect"}
<1>1. CASE CallCollector \/ CallBenchmark
  <2>1. PICK asks \in Options, first \in {"inputs", "clone", "clean", "digests"} :
            Call(asks, first)
    BY <1>1, Calls
  <2>2. /\ doing' # "collect" /\ nth' = 1 /\ asked' = 0 /\ held' = {} /\ met' = {}
    BY <2>1 DEF Call, ForgetReads
  <2> QED BY <2>2 DEF QueriesKept, ColdIsCold
<1>2. CASE Ask
  BY <1>2, AskKeeps DEF VerifiedInv
<1>3. ASSUME Clone PROVE Frame
  BY <1>3 DEF Clone, evaluation, collection, users, Early
<1>4. ASSUME RequireClean PROVE Frame
  BY <1>4 DEF RequireClean, Goes, Fails, source, evaluation, collection, users, Early
<1>5. ASSUME ValidateCommit PROVE Frame
  BY <1>5 DEF ValidateCommit, Goes, Fails, source, evaluation, collection, users, Early
<1>6. ASSUME LoadInputs PROVE Frame
  BY <1>6 DEF LoadInputs, Goes, Fails, source, evaluation, collection, users, Early
<1>7. ASSUME ValidateHashes PROVE Frame
  BY <1>7 DEF ValidateHashes, Reads, Fails, source, evaluation, collection, users, Early
<1>8. ASSUME DryRun PROVE Frame
  BY <1>8 DEF DryRun, source, evaluation, collection, users, Early
<1>9. ASSUME DigestBefore PROVE Frame
  BY <1>9 DEF DigestBefore, Reads, Fails, source, evaluation, collection, users, Early
<1>10. ASSUME Shadow PROVE Frame
  BY <1>10 DEF Shadow, Reads, Fails, source, evaluation, users, Early
<1>11. ASSUME DigestAfter PROVE Frame
  BY <1>11 DEF DigestAfter, Reads, Fails, source, evaluation, collection, users, Early
<1>12. ASSUME ValidateRows PROVE Frame
  BY <1>12 DEF ValidateRows, Goes, Fails, source, evaluation, collection, users, Early
<1>13. ASSUME CopyCorpus PROVE Frame
  BY <1>13 DEF CopyCorpus, Write, source, evaluation, collection, users, Early
<1>14. ASSUME CopyLabels PROVE Frame
  BY <1>14 DEF CopyLabels, Write, source, evaluation, collection, users, Early
<1>15. ASSUME WriteRuns PROVE Frame
  BY <1>15 DEF WriteRuns, Write, source, evaluation, collection, users, Early
<1>16. ASSUME WriteCollection PROVE Frame
  BY <1>16 DEF WriteCollection, Write, source, evaluation, collection, users, Early
<1>17. ASSUME DigestFiles PROVE Frame
  BY <1>17 DEF DigestFiles, source, evaluation, collection, users, Early
<1>18. ASSUME DigestAgain PROVE Frame
  BY <1>18 DEF DigestAgain, Reads, Fails, source, collection, users, Early
<1>19. ASSUME ValidateAgain PROVE Frame
  BY <1>19 DEF ValidateAgain, Reads, Fails, source, evaluation, collection, users, Early
<1>20. ASSUME CompareAgain PROVE Frame
  BY <1>20 DEF CompareAgain, Reads, Fails, source, collection, users, Early
<1>21. ASSUME WriteReport PROVE Frame
  BY <1>21 DEF WriteReport, Write, source, evaluation, collection, users, Early
<1>22. ASSUME Stop PROVE Frame
  BY <1>22 DEF Stop, Fails, source, evaluation, collection, users, Early
<1>23. ASSUME UserEdits PROVE Frame
  BY <1>23 DEF UserEdits, Change, evaluation, collection, Early
<1>24. ASSUME UserCommits PROVE Frame
  BY <1>24 DEF UserCommits, Change, evaluation, collection, Early
<1>25. ASSUME UserRewrites PROVE Frame
  BY <1>25 DEF UserRewrites, Change, source, evaluation, collection, Early
<1>26. ASSUME UserRemoves PROVE Frame
  BY <1>26 DEF UserRemoves, Change, evaluation, collection, Early
<1>27. ASSUME UNCHANGED verifiedVars PROVE Frame
  BY <1>27 DEF verifiedVars, collection
<1>28. ASSUME Frame PROVE QueriesKept' /\ ColdIsCold'
  BY <1>28, QueriesFrame
<1> HIDE DEF Frame
<1> QED BY <1>1, <1>2, <1>3, <1>4, <1>5, <1>6, <1>7, <1>8, <1>9, <1>10, <1>11, <1>12, <1>13,
     <1>14, <1>15, <1>16, <1>17, <1>18, <1>19, <1>20, <1>21, <1>22, <1>23, <1>24, <1>25, <1>26,
     <1>27, <1>28 DEF VerifiedNext


\* A collection is of the one source it digested, and lists files of its own; a report beside it
\* is of these files and shows when the source moved (CollectionOfOneSource).
THEOREM CollectionsAreOfOneSource == VerifiedSpec => []CollectionOfOneSource
<1>1. VerifiedInit => VerifiedInv
  BY VerifiedStart
<1>2. VerifiedInv /\ [VerifiedNext]_verifiedVars => VerifiedInv'
  BY VerifiedStep
<1>3. VerifiedInv => CollectionOfOneSource
  BY CollectionFollows
<1> QED BY <1>1, <1>2, <1>3, PTL DEF VerifiedSpec

\* Every query meets in its state directory what its label says (ColdIsCold).
THEOREM ColdRunsAreCold == VerifiedSpec => []ColdIsCold
<1>1. VerifiedInit => VerifiedInv /\ QueriesKept /\ ColdIsCold
  BY VerifiedStart DEF VerifiedInit, QueriesKept, ColdIsCold, Early
<1>2. VerifiedInv /\ QueriesKept /\ ColdIsCold /\ [VerifiedNext]_verifiedVars
        => (VerifiedInv /\ QueriesKept /\ ColdIsCold)'
  BY VerifiedStep, QueriesStep
<1> QED BY <1>1, <1>2, PTL DEF VerifiedSpec

-----------------------------------------------------------------------------
(***************************************************************************)
(* The judged pool.  The invariant follows what is there of the pinned     *)
(* files: what a step has read or written goes back to version 0, or to a  *)
(* file that changed where nothing was there to tell.  And during a run it *)
(* compares what was read with the digest of the beginning: it is the      *)
(* same, or the file has changed and does not have that digest now, or it  *)
(* has changed twice; so that the digests at the end leave only the last.  *)
(***************************************************************************)
\* The stages of a materialization, and of a run after one another
Making == {"pages", "bundle", "provenance", "validate", "digest again"}
Preparing == {"digest", "source", "rows", "count"}
Mapped == {"search", "trees again", "report", "publish"}
Scoped == {"gate", "limit", "index", "map"} \cup Mapped
Labelled == {"scope"} \cup Scoped
SumsRead == {"labels"} \cup Labelled
Digested == {"ids", "load"} \cup SumsRead

PoolTypeOK ==
    /\ stored = [x \in PoolObjects |-> stored[x]]
    /\ \A f \in SourceFiles : stored[f] \in Texts \cup {Nowhere}
    /\ \A x \in PoolOutputs : stored[x] \in Writings \cup {Nowhere}
    /\ output \in BOOLEAN
    /\ provenance \in Provenances \cup {Nowhere}
    /\ fetching \in SourceFiles \cup {Nowhere}
    /\ digested = [x \in PoolObjects |-> digested[x]]
    /\ rows \in SourceVersions
    /\ loaded \in [BundleFiles -> Writings \cup {Nowhere}]
    /\ indexed \in [PoolPages -> Writings \cup {Nowhere}]
    /\ poolReport \in SourceVersions
    /\ poolCalls \in Nat
    /\ twice \subseteq meddled

\* Of the pinned file, as it was written, as it was digested; or there was nothing to tell
Pinned(file, version) == version = 0 \/ file \in unseen
Sourced(text) == \A file \in SourceFiles : Pinned(file, text.of[file])
Kept(x, text) == text.edit = "none" \/ x \in unseen
AsDigested(x, text) ==
    \/ text = digested[x]
    \/ x \in twice
    \/ x \in meddled /\ stored[x] # digested[x]

LeftInv == left \subseteq Share(poolAt)

\* A materialization begins without an output and has no provenance before it has all the rest
DirectoryInv ==
    /\ ~output => provenance = Nowhere /\ \A x \in PoolOutputs : stored[x] = Nowhere
    /\ poolAt \in Making => output /\ task = "make"
    /\ task = "make" /\ poolAt \in Preparing => ~output
    /\ poolAt \in {"pages", "bundle", "provenance"} => provenance = Nowhere
    /\ poolAt \in {"metadata", "files"} => task = "acquire"
\* The rows are of files that were verified
RowsInv ==
    task = "make" =>
    /\ poolAt = "source" => \A file \in SourceFiles \ left : Pinned(file, stored[file])
    /\ poolAt = "rows" =>
        \A file \in SourceFiles :
            IF file \in left THEN Pinned(file, stored[file]) ELSE Pinned(file, rows[file])
    /\ poolAt \in {"count"} \cup Making => \A file \in SourceFiles : Pinned(file, rows[file])
\* What is there was made of such rows, and with a provenance it is as it was written
WrittenInv ==
    \A x \in PoolOutputs :
        stored[x] # Nowhere =>
        /\ Sourced(stored[x])
        /\ (poolAt = "provenance" \/ (poolAt = "bundle" /\ x \notin left)) => Kept(x, stored[x])
        /\ x \in PoolPages /\ (provenance # Nowhere \/ (poolAt = "pages" /\ x \notin left))
                => Kept(x, stored[x])
\* So are the checksums
SummedInv ==
    provenance # Nowhere =>
        \A x \in BundleFiles : Sourced(provenance.sums[x]) /\ Kept(x, provenance.sums[x])
\* What a run reads is what it digested, unless it changed; and its last digests show that
TreesInv ==
    \A x \in PoolOutputs :
        poolAt \in Digested \/ (poolAt = "trees" /\ x \notin left) =>
            stored[x] = digested[x] \/ x \in meddled
LoadedInv ==
    /\ poolAt \in SumsRead => provenance # Nowhere
    /\ \A x \in BundleFiles :
        /\ poolAt \in SumsRead \/ (poolAt = "load" /\ x \notin left) =>
            AsDigested(x, provenance.sums[x]) /\ provenance # Nowhere
        /\ \/ poolAt \in Labelled
           \/ x = "corpus.jsonl" /\ poolAt \in {"load", "labels"}
           \/ x # "corpus.jsonl" /\ poolAt = "labels" /\ x \notin left
           => AsDigested(x, loaded[x]) /\ loaded[x] # Nowhere
    /\ poolAt \in Scoped => AsDigested("qrels.jsonl", Made(provenance.pool))
IndexedInv ==
    \A page \in PoolPages :
        /\ poolAt \in {"map"} \cup Mapped \/ (poolAt = "index" /\ page \notin left) =>
            /\ AsDigested(page, indexed[page])
            /\ indexed[page] # Nowhere => Sourced(indexed[page]) /\ Kept(page, indexed[page])
        /\ poolAt \in Mapped => indexed[page] # Nowhere
UnchangedInv ==
    \A x \in PoolOutputs \ twice :
        poolAt \in {"report", "publish"} \/ (poolAt = "trees again" /\ x \notin left) =>
            /\ x \in BundleFiles => digested[x] = provenance.sums[x] /\ digested[x] = loaded[x]
            /\ x \in PoolPages => digested[x] = indexed[x]
            /\ x = "qrels.jsonl" => digested[x] = Made(provenance.pool)

PoolInv ==
    /\ PoolTypeOK /\ LeftInv /\ DirectoryInv /\ RowsInv /\ WrittenInv /\ SummedInv /\ TreesInv
    /\ LoadedInv /\ IndexedInv /\ UnchangedInv /\ OfficialPool

\* The files of each step
LEMMA SharesAre ==
    /\ Share("files") = SourceFiles /\ Share("source") = SourceFiles /\ Share("rows") = SourceFiles
    /\ Share("pages") = PoolPages /\ Share("index") = PoolPages
    /\ Share("bundle") = BundleFiles /\ Share("load") = BundleFiles
    /\ Share("labels") = {"queries.jsonl", "qrels.jsonl"}
    /\ Share("trees") = PoolOutputs /\ Share("trees again") = PoolOutputs
BY DEF Share

\* The sorts of files, and what their contents are
LEMMA ObjectsAre ==
    /\ \A x \in PoolOutputs : x \in PoolObjects /\ x \notin SourceFiles
    /\ \A file \in SourceFiles : file \in PoolObjects /\ file \notin PoolOutputs
    /\ \A page \in PoolPages : page \in PoolOutputs /\ page \notin BundleFiles
    /\ \A x \in BundleFiles : x \in PoolOutputs /\ x \notin PoolPages
    /\ \A x \in PoolOutputs : x \in PoolPages \/ x \in BundleFiles
    /\ Unread \in SourceVersions
    /\ \A versions \in SourceVersions : Made(versions) \in Writings
    /\ Nowhere \notin Writings /\ Nowhere \notin Provenances
BY PoolAssumption, NowhereIsNoFile
   DEF PoolOutputs, PoolObjects, Unread, SourceVersions, Made, Writings, Edits

\* Nothing is there at first
LEMMA PoolStart == PoolInit => PoolInv
<1> SUFFICES ASSUME PoolInit PROVE PoolInv
  OBVIOUS
<1>1. PoolTypeOK
  BY ObjectsAre DEF PoolInit, PoolTypeOK
<1>2. DirectoryInv /\ RowsInv /\ WrittenInv /\ SummedInv /\ TreesInv
  BY ObjectsAre DEF PoolInit, DirectoryInv, RowsInv, WrittenInv, SummedInv, TreesInv, Making,
     Preparing, Digested, SumsRead, Labelled, Scoped, Mapped
<1>3. LoadedInv /\ IndexedInv /\ UnchangedInv /\ OfficialPool
  BY DEF PoolInit, LoadedInv, IndexedInv, UnchangedInv, OfficialPool, SumsRead, Labelled, Scoped,
     Mapped
<1>4. LeftInv
  BY DEF PoolInit, LeftInv
<1> QED BY <1>1, <1>2, <1>3, <1>4 DEF PoolInv

\* Every step works through the files of its stage (To, Takes)
LEMMA LeftStep ==
    ASSUME LeftInv, [PoolNext]_poolVars
    PROVE  LeftInv'
<1> USE DEF LeftInv
<1>1. ASSUME NEW stage, To(stage) PROVE LeftInv'
  BY <1>1 DEF To
<1>2. ASSUME NEW stage, NEW x, NEW holds, NEW next, Takes(stage, x, holds, next) PROVE LeftInv'
  BY <1>2 DEF Takes, To, FailsPool
<1>3. ASSUME NEW what, NEW first, BeginTask(what, first) PROVE LeftInv'
  BY <1>1, <1>3 DEF BeginTask
<1>4. ASSUME UNCHANGED <<poolAt, left>> PROVE LeftInv'
  BY <1>4
<1> HIDE DEF LeftInv
<1>5. CASE CallAcquire \/ CallMake \/ CallRun
  BY <1>3, <1>5 DEF CallAcquire, CallMake, CallRun
<1>6. CASE VerifyMetadata \/ CountRows \/ Scope \/ MapPages \/ CheckReport \/ ReportPool
            \/ LimitQueries
  BY <1>1, <1>6 DEF VerifyMetadata, CountRows, Scope, MapPages, CheckReport, ReportPool,
     LimitQueries
<1>7. CASE ListAcquired \/ ListReport
  BY <1>1, <1>7 DEF ListAcquired, ListReport, Lists
<1>8. CASE WriteProvenance \/ BreakOff
  BY <1>1, <1>8 DEF WriteProvenance, BreakOff, FailsPool
<1>9. CASE ReuseFile \/ EndDownload \/ VerifySource \/ ReadRows \/ DigestSource
  BY <1>2, <1>9 DEF ReuseFile, EndDownload, VerifySource, ReadRows, DigestSource
<1>10. CASE DigestSourceAgain \/ DigestTrees \/ DigestTreesAgain \/ IndexPage \/ SearchMode
  BY <1>2, <1>10 DEF DigestSourceAgain, DigestTrees, DigestTreesAgain, IndexPage, SearchMode
<1>11. CASE WritePage \/ WriteBundleFile
  BY <1>2, <1>11 DEF WritePage, WriteBundleFile, Writes
<1>12. CASE ValidateMade \/ LoadBundle \/ GatePool
  BY <1>2, <1>12 DEF ValidateMade, LoadBundle, GatePool, Validates
<1>13. CASE ReadCorpusIds \/ ReadLabels
  BY <1>2, <1>13 DEF ReadCorpusIds, ReadLabels, ReadsBundle
<1>14. CASE BeginDownload \/ Meddle \/ ClearOutput \/ UNCHANGED poolVars
  BY <1>4, <1>14 DEF BeginDownload, Meddle, ClearOutput, poolVars
<1> QED BY <1>5, <1>6, <1>7, <1>8, <1>9, <1>10, <1>11, <1>12, <1>13, <1>14 DEF PoolNext

\* What a user's change does to one file
LEMMA MeddlingGives ==
    ASSUME PoolTypeOK, Meddle
    PROVE  /\ stored' = [x \in PoolObjects |-> stored'[x]]
           /\ \E x \in PoolObjects :
                /\ \A y \in PoolObjects : y # x => stored'[y] = stored[y]
                /\ x \in SourceFiles => stored'[x] \in Texts \cup {Nowhere}
                /\ x \in PoolOutputs =>
                    /\ stored[x] # Nowhere
                    /\ stored'[x] \in Writings \cup {Nowhere}
                    /\ stored'[x] # Nowhere => stored'[x].of = stored[x].of
                /\ meddled' = meddled \cup {x}
                /\ twice' = IF x \in meddled THEN twice \cup {x} ELSE twice
                /\ unseen' = IF x \in PoolPages \/ (task = "make" /\ poolAt \notin PoolOver)
                             THEN unseen \cup {x} ELSE unseen
<1> DEFINE Goal ==
           /\ stored' = [x \in PoolObjects |-> stored'[x]]
           /\ \E x \in PoolObjects :
                /\ \A y \in PoolObjects : y # x => stored'[y] = stored[y]
                /\ x \in SourceFiles => stored'[x] \in Texts \cup {Nowhere}
                /\ x \in PoolOutputs =>
                    /\ stored[x] # Nowhere
                    /\ stored'[x] \in Writings \cup {Nowhere}
                    /\ stored'[x] # Nowhere => stored'[x].of = stored[x].of
                /\ meddled' = meddled \cup {x}
                /\ twice' = IF x \in meddled THEN twice \cup {x} ELSE twice
                /\ unseen' = IF x \in PoolPages \/ (task = "make" /\ poolAt \notin PoolOver)
                             THEN unseen \cup {x} ELSE unseen
<1>1. PICK x \in PoolObjects :
        /\ IF x \in SourceFiles
           THEN \E text \in (Texts \cup {Nowhere}) \ {stored[x]} :
                    stored' = [stored EXCEPT ![x] = text]
           ELSE /\ stored[x] # Nowhere
                /\ stored' \in {[stored EXCEPT ![x] = Nowhere]}
                       \cup {[stored EXCEPT ![x].edit = edit] : edit \in Edits \ {stored[x].edit}}
        /\ twice' = IF x \in meddled THEN twice \cup {x} ELSE twice
        /\ meddled' = meddled \cup {x}
        /\ unseen' = IF x \in PoolPages \/ (task = "make" /\ poolAt \notin PoolOver)
                     THEN unseen \cup {x} ELSE unseen
  BY DEF Meddle
<1>2. stored = [y \in PoolObjects |-> stored[y]]
  BY DEF PoolTypeOK
<1>3. CASE x \in SourceFiles
  <2>1. PICK text \in Texts \cup {Nowhere} : stored' = [stored EXCEPT ![x] = text]
    BY <1>1, <1>3
  <2>2. stored' = [y \in PoolObjects |-> IF y = x THEN text ELSE stored[y]]
    BY <1>2, <2>1
  <2>3. x \notin PoolOutputs
    BY <1>3, ObjectsAre
  <2> QED BY <1>1, <2>1, <2>2, <2>3
<1>4. CASE x \notin SourceFiles
  <2>1. x \in PoolOutputs /\ stored[x] \in Writings
    BY <1>1, <1>4 DEF PoolObjects, PoolTypeOK
  <2>2. CASE stored' = [stored EXCEPT ![x] = Nowhere]
    <3>1. stored' = [y \in PoolObjects |-> IF y = x THEN Nowhere ELSE stored[y]]
      BY <1>2, <2>2
    <3> QED BY <1>1, <1>4, <2>1, <3>1, ObjectsAre
  <2>3. ASSUME NEW edit \in Edits, stored' = [stored EXCEPT ![x].edit = edit]
        PROVE  Goal
    <3>1. stored' = [stored EXCEPT ![x] = [stored[x] EXCEPT !.edit = edit]]
      BY <2>3
    <3>2. stored' = [y \in PoolObjects |->
                        IF y = x THEN [stored[x] EXCEPT !.edit = edit] ELSE stored[y]]
      BY <1>2, <3>1
    <3>3. [stored[x] EXCEPT !.edit = edit] \in Writings
            /\ [stored[x] EXCEPT !.edit = edit].of = stored[x].of
      BY <2>1 DEF Writings
    <3> QED BY <1>1, <1>4, <2>1, <3>2, <3>3, ObjectsAre
  <2> QED BY <1>1, <1>4, <2>2, <2>3
<1> QED BY <1>3, <1>4

\* Every step keeps the types
LEMMA TypeStep ==
    ASSUME PoolTypeOK, LeftInv, LoadedInv, [PoolNext]_poolVars
    PROVE  PoolTypeOK'
<1> USE ObjectsAre DEF PoolTypeOK
<1>1. CASE CallAcquire \/ CallMake \/ CallRun
  <2>1. /\ UNCHANGED <<files, fetching, poolReport>> /\ NoMemory
        /\ poolCalls' = poolCalls + 1 /\ twice' = {}
    BY <1>1 DEF CallAcquire, CallMake, CallRun, BeginTask
  <2>2. digested' = [x \in PoolObjects |-> digested'[x]] /\ rows' \in SourceVersions
    BY <2>1 DEF NoMemory
  <2>3. loaded' \in [BundleFiles -> Writings \cup {Nowhere}]
    BY <2>1 DEF NoMemory
  <2>4. indexed' \in [PoolPages -> Writings \cup {Nowhere}]
    BY <2>1 DEF NoMemory
  <2>5. poolCalls' \in Nat
    BY <2>1
  <2> QED BY <2>1, <2>2, <2>3, <2>4, <2>5 DEF files
<1>2. CASE VerifyMetadata \/ ReuseFile \/ VerifySource
  BY <1>2 DEF VerifyMetadata, ReuseFile, VerifySource, Takes, files, memory, poolGhosts
<1>16. CASE CountRows
  <2>1. output' \in BOOLEAN
    BY <1>16, Zenon DEF CountRows
  <2>2. UNCHANGED <<stored, provenance, fetching, memory, poolReport, poolGhosts, poolCalls>>
    BY <1>16 DEF CountRows
  <2> QED BY <2>1, <2>2 DEF memory, poolGhosts
<1>17. CASE BeginDownload
  <2>1. PICK file \in left : stored[file] = Nowhere /\ fetching' = file
    BY <1>17 DEF BeginDownload
  <2>2. poolAt = "files" /\ UNCHANGED <<files, memory, poolReport, poolGhosts, poolCalls>>
    BY <1>17 DEF BeginDownload
  <2>3. file \in SourceFiles
    <3>1. left \subseteq SourceFiles
      BY <2>2, SharesAre DEF LeftInv
    <3> QED BY <2>1, <3>1
  <2> QED BY <2>1, <2>2, <2>3 DEF files, memory, poolGhosts
<1>3. CASE EndDownload
  <2>1. fetching # Nowhere /\ fetching' = Nowhere /\ UNCHANGED poolGhosts
        /\ UNCHANGED <<output, provenance, memory, poolReport, poolCalls>>
        /\ stored' \in {stored, [stored EXCEPT ![fetching] = 0]}
    BY <1>3, SharesAre DEF EndDownload, Takes
  <2>2. 0 \in Texts
    BY PoolAssumption DEF Texts
  <2>3. /\ stored' = [x \in PoolObjects |-> stored'[x]]
        /\ \A x \in PoolObjects : stored'[x] = stored[x] \/ (x = fetching /\ stored'[x] = 0)
    BY <2>1
  <2> QED BY <2>1, <2>2, <2>3 DEF memory, poolGhosts
<1>18. CASE ReadRows
  <2>1. PICK file \in SourceFiles :
            rows' = [rows EXCEPT ![file] = stored[file]]
            /\ UNCHANGED <<files, fetching, digested, loaded, indexed, poolReport, poolGhosts,
                            poolCalls>>
    BY <1>18 DEF ReadRows, Takes
  <2>2. rows' \in SourceVersions
    BY <2>1 DEF SourceVersions
  <2> QED BY <2>1, <2>2 DEF files, poolGhosts
<1>4. CASE ListAcquired \/ ListReport
  BY <1>4 DEF ListAcquired, ListReport, Lists, files, memory, poolGhosts
<1>5. CASE DigestSource \/ DigestSourceAgain \/ DigestTrees \/ DigestTreesAgain
  BY <1>5 DEF DigestSource, DigestSourceAgain, DigestTrees, DigestTreesAgain, Takes, files, memory,
     poolGhosts
<1>6. CASE WritePage \/ WriteBundleFile
  BY <1>6 DEF WritePage, WriteBundleFile, Writes, Takes, memory, poolGhosts
<1>7. CASE WriteProvenance
  <2>1. UNCHANGED <<stored, output, fetching, memory, poolReport, poolGhosts, poolCalls>>
    BY <1>7 DEF WriteProvenance
  <2>2. provenance' \in Provenances \cup {Nowhere}
    <3>1. CASE \A file \in BundleFiles : stored[file] # Nowhere
      <4>1. [file \in BundleFiles |-> stored[file]] \in [BundleFiles -> Writings]
        BY <3>1
      <4> QED BY <1>7, <3>1, <4>1 DEF WriteProvenance, Provenances
    <3>2. CASE ~\A file \in BundleFiles : stored[file] # Nowhere
      BY <1>7, <3>2 DEF WriteProvenance
    <3> QED BY <3>1, <3>2
  <2> QED BY <2>1, <2>2 DEF memory, poolGhosts
<1>8. CASE \/ ValidateMade \/ LoadBundle \/ GatePool \/ Scope \/ LimitQueries \/ MapPages
           \/ SearchMode \/ CheckReport
  BY <1>8 DEF ValidateMade, LoadBundle, GatePool, Validates, Scope, LimitQueries, MapPages,
     SearchMode, CheckReport, Takes, files, memory, poolGhosts
<1>9. CASE ReadCorpusIds \/ ReadLabels
  BY <1>9 DEF ReadCorpusIds, ReadLabels, ReadsBundle, Takes, files, poolGhosts
<1>10. CASE IndexPage
  BY <1>10 DEF IndexPage, Takes, files, poolGhosts
<1>11. CASE ReportPool
  BY <1>11 DEF ReportPool, files, memory, poolGhosts, Provenances, LoadedInv, SumsRead, Labelled,
     Scoped, Mapped
<1>12. CASE BreakOff
  <2>1. /\ fetching' = Nowhere
        /\ UNCHANGED <<output, provenance, memory, poolReport, poolGhosts, poolCalls>>
    BY <1>12 DEF BreakOff
  <2>2. stored' = stored
        \/ \E x \in PoolOutputs : stored' = [stored EXCEPT ![x] = [of |-> rows, edit |-> "ids"]]
    <3>1. left \subseteq PoolOutputs \/ poolAt \notin {"pages", "bundle"}
      BY SharesAre DEF LeftInv
    <3> QED BY <1>12, <3>1 DEF BreakOff
  <2>3. [of |-> rows, edit |-> "ids"] \in Writings
    BY DEF Writings, Edits
  <2>4. /\ stored' = [x \in PoolObjects |-> stored'[x]]
        /\ \A x \in PoolObjects : stored'[x] = stored[x]
                \/ (x \in PoolOutputs /\ stored'[x] = [of |-> rows, edit |-> "ids"])
    BY <2>2
  <2> QED BY <2>1, <2>3, <2>4 DEF memory, poolGhosts
<1>13. CASE Meddle
  <2>1. UNCHANGED <<output, provenance, fetching, memory, poolReport, poolCalls>>
    BY <1>13 DEF Meddle
  <2>2. twice' \subseteq meddled'
    BY <1>13 DEF Meddle
  <2>3. /\ stored' = [x \in PoolObjects |-> stored'[x]]
        /\ \A x \in PoolObjects : stored'[x] = stored[x]
                \/ (x \in SourceFiles /\ stored'[x] \in Texts \cup {Nowhere})
                \/ (x \in PoolOutputs /\ stored'[x] \in Writings \cup {Nowhere})
    <3>1. stored' = [x \in PoolObjects |-> stored'[x]]
      BY <1>13, MeddlingGives
    <3>2. PICK y \in PoolObjects :
            /\ \A z \in PoolObjects : z # y => stored'[z] = stored[z]
            /\ y \in SourceFiles => stored'[y] \in Texts \cup {Nowhere}
            /\ y \in PoolOutputs => stored'[y] \in Writings \cup {Nowhere}
      BY <1>13, MeddlingGives
    <3>3. ASSUME NEW x \in PoolObjects
          PROVE  stored'[x] = stored[x]
                \/ (x \in SourceFiles /\ stored'[x] \in Texts \cup {Nowhere})
                \/ (x \in PoolOutputs /\ stored'[x] \in Writings \cup {Nowhere})
      BY <3>2 DEF PoolObjects
    <3> QED BY <3>1, <3>3
  <2> QED BY <2>1, <2>2, <2>3 DEF memory
<1>14. CASE ClearOutput
  BY <1>14 DEF ClearOutput, memory, poolGhosts
<1>15. CASE UNCHANGED poolVars
  BY <1>15 DEF poolVars, files, memory, poolGhosts
<1> QED BY <1>1, <1>2, <1>3, <1>4, <1>5, <1>6, <1>7, <1>8, <1>9, <1>10, <1>11, <1>12, <1>13,
     <1>14, <1>15, <1>16, <1>17, <1>18 DEF PoolNext

\* Every step keeps the order in which an output comes to be (materialize_nomiracl_ko)
LEMMA DirectoryStep ==
    ASSUME PoolTypeOK, DirectoryInv, [PoolNext]_poolVars
    PROVE  DirectoryInv'
<1> USE  DEF DirectoryInv, Making, Preparing, PoolOver
<1>1. CASE CallAcquire \/ CallRun
  BY <1>1 DEF CallAcquire, CallRun, BeginTask, To, NoMemory, files
<1>2. CASE CallMake
  BY <1>2 DEF CallMake, BeginTask, To, NoMemory, files
<1>3. CASE VerifyMetadata \/ CountRows
  BY <1>3 DEF VerifyMetadata, CountRows, To, files, memory, poolGhosts
<1>4. CASE ReuseFile \/ BeginDownload
  <2>1. /\ UNCHANGED <<output, provenance, task>>
        /\ \A x \in PoolOutputs : stored'[x] = stored[x]
    BY <1>4, ObjectsAre DEF PoolTypeOK, ReuseFile, BeginDownload, Takes, To, FailsPool, files,
       memory, poolGhosts
  <2>2. /\ poolAt' \in Making => poolAt \in Making
        /\ poolAt' \in Preparing => poolAt \in Preparing \cup {"files"}
        /\ poolAt' \in {"pages", "bundle", "provenance"}
                => poolAt \in {"pages", "bundle", "provenance"}
        /\ poolAt' \in {"metadata", "files"} => poolAt \in {"metadata", "files"}
    BY <1>4 DEF ReuseFile, BeginDownload, Takes, To, FailsPool, files, memory, poolGhosts
  <2>3. task = "make" => poolAt # "files"
    BY DEF DirectoryInv
  <2> QED BY <2>1, <2>2, <2>3, Zenon DEF DirectoryInv
<1>5. CASE EndDownload
  <2>1. /\ UNCHANGED <<output, provenance, task>>
        /\ \A x \in PoolOutputs : stored'[x] = stored[x]
    BY <1>5, ObjectsAre DEF PoolTypeOK, EndDownload, Takes, To, FailsPool, memory, poolGhosts
  <2>2. /\ poolAt' \in Making => poolAt \in Making
        /\ poolAt' \in Preparing => poolAt \in Preparing \cup {"files"}
        /\ poolAt' \in {"pages", "bundle", "provenance"}
                => poolAt \in {"pages", "bundle", "provenance"}
        /\ poolAt' \in {"metadata", "files"} => poolAt \in {"metadata", "files"}
    BY <1>5 DEF EndDownload, Takes, To, FailsPool, memory, poolGhosts
  <2>3. task = "make" => poolAt # "files"
    BY DEF DirectoryInv
  <2> QED BY <2>1, <2>2, <2>3, Zenon DEF DirectoryInv
<1>6. CASE VerifySource \/ DigestSourceAgain
  <2>1. /\ UNCHANGED <<output, provenance, task>>
        /\ \A x \in PoolOutputs : stored'[x] = stored[x]
    BY <1>6, ObjectsAre DEF PoolTypeOK, VerifySource, DigestSourceAgain, Takes, To, FailsPool,
       files, memory, poolGhosts
  <2>2. /\ poolAt' \in Making => poolAt \in Making
        /\ poolAt' \in Preparing => poolAt \in Preparing \cup {"files"}
        /\ poolAt' \in {"pages", "bundle", "provenance"}
                => poolAt \in {"pages", "bundle", "provenance"}
        /\ poolAt' \in {"metadata", "files"} => poolAt \in {"metadata", "files"}
    BY <1>6 DEF VerifySource, DigestSourceAgain, Takes, To, FailsPool, files, memory, poolGhosts
  <2>3. task = "make" => poolAt # "files"
    BY DEF DirectoryInv
  <2> QED BY <2>1, <2>2, <2>3, Zenon DEF DirectoryInv
<1>7. CASE ReadRows
  <2>1. /\ UNCHANGED <<output, provenance, task>>
        /\ \A x \in PoolOutputs : stored'[x] = stored[x]
    BY <1>7, ObjectsAre DEF PoolTypeOK, ReadRows, Takes, To, FailsPool, files, poolGhosts
  <2>2. /\ poolAt' \in Making => poolAt \in Making
        /\ poolAt' \in Preparing => poolAt \in Preparing \cup {"files"}
        /\ poolAt' \in {"pages", "bundle", "provenance"}
                => poolAt \in {"pages", "bundle", "provenance"}
        /\ poolAt' \in {"metadata", "files"} => poolAt \in {"metadata", "files"}
    BY <1>7 DEF ReadRows, Takes, To, FailsPool, files, poolGhosts
  <2>3. task = "make" => poolAt # "files"
    BY DEF DirectoryInv
  <2> QED BY <2>1, <2>2, <2>3, Zenon DEF DirectoryInv
<1>8. CASE DigestSource \/ DigestTrees
  <2>1. /\ UNCHANGED <<output, provenance, task>>
        /\ \A x \in PoolOutputs : stored'[x] = stored[x]
    BY <1>8, ObjectsAre DEF PoolTypeOK, DigestSource, DigestTrees, Takes, To, FailsPool, files,
       poolGhosts
  <2>2. /\ poolAt' \in Making => poolAt \in Making
        /\ poolAt' \in Preparing => poolAt \in Preparing \cup {"files"}
        /\ poolAt' \in {"pages", "bundle", "provenance"}
                => poolAt \in {"pages", "bundle", "provenance"}
        /\ poolAt' \in {"metadata", "files"} => poolAt \in {"metadata", "files"}
    BY <1>8 DEF DigestSource, DigestTrees, Takes, To, FailsPool, files, poolGhosts
  <2>3. task = "make" => poolAt # "files"
    BY DEF DirectoryInv
  <2> QED BY <2>1, <2>2, <2>3, Zenon DEF DirectoryInv
<1>9. CASE ListAcquired \/ ListReport
  BY <1>9 DEF ListAcquired, ListReport, Lists, To, files, memory, poolGhosts
<1>10. CASE WritePage \/ WriteBundleFile
  BY <1>10, ObjectsAre DEF WritePage, WriteBundleFile, Writes, Takes, To, FailsPool, memory,
     poolGhosts
<1>11. CASE WriteProvenance
  BY <1>11 DEF WriteProvenance, FailsPool, To, memory, poolGhosts
<1>12. CASE ValidateMade \/ LoadBundle \/ GatePool
  BY <1>12 DEF ValidateMade, LoadBundle, GatePool, Validates, Takes, To, FailsPool, files, memory,
     poolGhosts
<1>13. CASE ReadCorpusIds \/ ReadLabels
  BY <1>13 DEF ReadCorpusIds, ReadLabels, ReadsBundle, Takes, To, FailsPool, files, poolGhosts
<1>14. CASE Scope \/ LimitQueries \/ MapPages \/ SearchMode \/ CheckReport
  BY <1>14 DEF Scope, LimitQueries, MapPages, SearchMode, CheckReport, Takes, To,
     FailsPool, files, memory, poolGhosts
<1>15. CASE IndexPage
  <2>1. /\ UNCHANGED <<output, provenance, task>>
        /\ \A x \in PoolOutputs : stored'[x] = stored[x]
    BY <1>15, ObjectsAre DEF PoolTypeOK, IndexPage, Takes, To, FailsPool, files, poolGhosts
  <2>2. /\ poolAt' \in Making => poolAt \in Making
        /\ poolAt' \in Preparing => poolAt \in Preparing \cup {"files"}
        /\ poolAt' \in {"pages", "bundle", "provenance"}
                => poolAt \in {"pages", "bundle", "provenance"}
        /\ poolAt' \in {"metadata", "files"} => poolAt \in {"metadata", "files"}
    BY <1>15 DEF IndexPage, Takes, To, FailsPool, files, poolGhosts
  <2>3. task = "make" => poolAt # "files"
    BY DEF DirectoryInv
  <2> QED BY <2>1, <2>2, <2>3, Zenon DEF DirectoryInv
<1>16. CASE DigestTreesAgain
  <2>1. /\ UNCHANGED <<output, provenance, task>>
        /\ \A x \in PoolOutputs : stored'[x] = stored[x]
    BY <1>16, ObjectsAre DEF PoolTypeOK, DigestTreesAgain, Takes, To, FailsPool, files, memory,
       poolGhosts
  <2>2. /\ poolAt' \in Making => poolAt \in Making
        /\ poolAt' \in Preparing => poolAt \in Preparing \cup {"files"}
        /\ poolAt' \in {"pages", "bundle", "provenance"}
                => poolAt \in {"pages", "bundle", "provenance"}
        /\ poolAt' \in {"metadata", "files"} => poolAt \in {"metadata", "files"}
    BY <1>16 DEF DigestTreesAgain, Takes, To, FailsPool, files, memory, poolGhosts
  <2>3. task = "make" => poolAt # "files"
    BY DEF DirectoryInv
  <2> QED BY <2>1, <2>2, <2>3, Zenon DEF DirectoryInv
<1>17. CASE ReportPool
  BY <1>17 DEF ReportPool, To, files, memory, poolGhosts
<1>18. CASE BreakOff
  BY <1>18, SharesAre DEF BreakOff, FailsPool, To, memory, poolGhosts
<1>19. CASE Meddle
  <2>1. UNCHANGED <<output, provenance, task, poolAt, left, digested, rows, loaded, indexed,
                   poolReport>>
    BY <1>19 DEF Meddle, memory
  <2>2. PICK z \in PoolObjects :
            /\ \A y \in PoolObjects : y # z => stored'[y] = stored[y]
            /\ z \in PoolOutputs =>
                /\ stored[z] # Nowhere
                /\ stored'[z] # Nowhere => stored'[z].of = stored[z].of
            /\ meddled' = meddled \cup {z}
            /\ twice' = IF z \in meddled THEN twice \cup {z} ELSE twice
            /\ unseen' = IF z \in PoolPages \/ (task = "make" /\ poolAt \notin PoolOver)
                         THEN unseen \cup {z} ELSE unseen
    BY <1>19, MeddlingGives
  <2> QED BY <2>1, <2>2, ObjectsAre
<1>20. CASE ClearOutput
  BY <1>20, ObjectsAre DEF ClearOutput, memory, poolGhosts, PoolOver
<1>21. CASE UNCHANGED poolVars
  BY <1>21 DEF poolVars, files, memory, poolGhosts
<1> QED BY <1>1, <1>2, <1>3, <1>4, <1>5, <1>6, <1>7, <1>8, <1>9, <1>10, <1>11, <1>12, <1>13,
     <1>14, <1>15, <1>16, <1>17, <1>18, <1>19, <1>20, <1>21 DEF PoolNext

\* Every step keeps the rows those of verified files (validate_nomiracl_ko_source)
LEMMA RowsStep ==
    ASSUME PoolTypeOK, LeftInv, DirectoryInv, RowsInv, [PoolNext]_poolVars
    PROVE  RowsInv'
<1> USE ObjectsAre, SharesAre DEF PoolTypeOK, RowsInv, Making, Pinned, PoolOver, SourceVersions
<1>1. CASE CallAcquire \/ CallRun
  BY <1>1 DEF CallAcquire, CallRun, BeginTask, To, NoMemory, files
<1>2. CASE CallMake
  BY <1>2 DEF CallMake, BeginTask, To, NoMemory, files
<1>3. CASE VerifyMetadata \/ CountRows
  BY <1>3 DEF VerifyMetadata, CountRows, To, files, memory, poolGhosts
<1>4. CASE ReuseFile \/ BeginDownload
  BY <1>4 DEF ReuseFile, BeginDownload, Takes, To, FailsPool, files, memory, poolGhosts
<1>5. CASE EndDownload
  BY <1>5 DEF EndDownload, Takes, To, FailsPool, memory, poolGhosts
<1>6. CASE VerifySource \/ DigestSourceAgain
  BY <1>6 DEF VerifySource, DigestSourceAgain, Takes, To, FailsPool, files, memory, poolGhosts
<1>7. CASE ReadRows
  <2>1. PICK file \in SourceFiles :
            /\ Takes("rows", file, stored[file] # Nowhere, "count")
            /\ rows' = [rows EXCEPT ![file] = stored[file]]
            /\ UNCHANGED files
    BY <1>7 DEF ReadRows
  <2>2. \A f \in SourceFiles : rows'[f] = IF f = file THEN stored[file] ELSE rows[f]
    BY <2>1
  <2>3. /\ poolAt = "rows" /\ file \in left
        /\ \/ poolAt' = "failed"
           \/ poolAt' = "rows" /\ left' = left \ {file}
           \/ poolAt' = "count" /\ left = {file}
        /\ UNCHANGED <<task, unseen>>
    BY <2>1 DEF Takes, To, FailsPool, poolGhosts
  <2>4. UNCHANGED stored
    BY <2>1 DEF files
  <2> QED BY <2>2, <2>3, <2>4
<1>8. CASE DigestSource \/ DigestTrees
  BY <1>8 DEF DigestSource, DigestTrees, Takes, To, FailsPool, files, poolGhosts
<1>9. CASE ListAcquired \/ ListReport
  BY <1>9 DEF ListAcquired, ListReport, Lists, To, files, memory, poolGhosts
<1>10. CASE WritePage \/ WriteBundleFile
  BY <1>10 DEF WritePage, WriteBundleFile, Writes, Takes, To, FailsPool, memory, poolGhosts
<1>11. CASE WriteProvenance
  BY <1>11 DEF WriteProvenance, FailsPool, To, memory, poolGhosts
<1>12. CASE ValidateMade \/ LoadBundle \/ GatePool
  BY <1>12 DEF ValidateMade, LoadBundle, GatePool, Validates, Takes, To, FailsPool, files, memory,
     poolGhosts
<1>13. CASE ReadCorpusIds \/ ReadLabels
  BY <1>13 DEF ReadCorpusIds, ReadLabels, ReadsBundle, Takes, To, FailsPool, files, poolGhosts
<1>14. CASE Scope \/ LimitQueries \/ MapPages \/ SearchMode \/ CheckReport
  BY <1>14 DEF Scope, LimitQueries, MapPages, SearchMode, CheckReport, Takes, To,
     FailsPool, files, memory, poolGhosts
<1>15. CASE IndexPage
  BY <1>15 DEF IndexPage, Takes, To, FailsPool, files, poolGhosts
<1>16. CASE DigestTreesAgain
  BY <1>16 DEF DigestTreesAgain, Takes, To, FailsPool, files, memory, poolGhosts
<1>17. CASE ReportPool
  BY <1>17 DEF ReportPool, To, files, memory, poolGhosts
<1>18. CASE BreakOff
  BY <1>18 DEF BreakOff, FailsPool, To, memory, poolGhosts
<1>19. CASE Meddle
  <2>1. UNCHANGED <<output, provenance, task, poolAt, left, digested, rows, loaded, indexed,
                   poolReport>>
    BY <1>19 DEF Meddle, memory
  <2>2. PICK z \in PoolObjects :
            /\ \A y \in PoolObjects : y # z => stored'[y] = stored[y]
            /\ z \in PoolOutputs =>
                /\ stored[z] # Nowhere
                /\ stored'[z] # Nowhere => stored'[z].of = stored[z].of
            /\ meddled' = meddled \cup {z}
            /\ twice' = IF z \in meddled THEN twice \cup {z} ELSE twice
            /\ unseen' = IF z \in PoolPages \/ (task = "make" /\ poolAt \notin PoolOver)
                         THEN unseen \cup {z} ELSE unseen
    BY <1>19, MeddlingGives
  <2> QED BY <2>1, <2>2
<1>20. CASE ClearOutput
  BY <1>20 DEF ClearOutput, memory, poolGhosts, PoolOver
<1>21. CASE UNCHANGED poolVars
  BY <1>21 DEF poolVars, files, memory, poolGhosts
<1> QED BY <1>1, <1>2, <1>3, <1>4, <1>5, <1>6, <1>7, <1>8, <1>9, <1>10, <1>11, <1>12, <1>13,
     <1>14, <1>15, <1>16, <1>17, <1>18, <1>19, <1>20, <1>21 DEF PoolNext

\* Every step keeps the checksums those of what was written (_provenance_record)
LEMMA SummedStep ==
    ASSUME PoolTypeOK, DirectoryInv, RowsInv, WrittenInv, SummedInv, [PoolNext]_poolVars
    PROVE  SummedInv'
<1> USE ObjectsAre DEF PoolTypeOK, DirectoryInv, Preparing, SummedInv, Sourced, Kept, Pinned,
        PoolOver
<1>1. CASE CallAcquire \/ CallRun
  BY <1>1 DEF CallAcquire, CallRun, BeginTask, To, NoMemory, files
<1>2. CASE CallMake
  BY <1>2 DEF CallMake, BeginTask, To, NoMemory, files
<1>3. CASE VerifyMetadata \/ CountRows
  BY <1>3 DEF VerifyMetadata, CountRows, To, files, memory, poolGhosts
<1>4. CASE ReuseFile \/ BeginDownload
  BY <1>4 DEF ReuseFile, BeginDownload, Takes, To, FailsPool, files, memory, poolGhosts
<1>5. CASE EndDownload
  BY <1>5 DEF EndDownload, Takes, To, FailsPool, memory, poolGhosts
<1>6. CASE VerifySource \/ DigestSourceAgain
  BY <1>6 DEF VerifySource, DigestSourceAgain, Takes, To, FailsPool, files, memory, poolGhosts
<1>7. CASE ReadRows
  BY <1>7 DEF ReadRows, Takes, To, FailsPool, files, poolGhosts
<1>8. CASE DigestSource \/ DigestTrees
  BY <1>8 DEF DigestSource, DigestTrees, Takes, To, FailsPool, files, poolGhosts
<1>9. CASE ListAcquired \/ ListReport
  BY <1>9 DEF ListAcquired, ListReport, Lists, To, files, memory, poolGhosts
<1>10. CASE WritePage \/ WriteBundleFile
  BY <1>10 DEF WritePage, WriteBundleFile, Writes, Takes, To, FailsPool, memory, poolGhosts
<1>11. CASE WriteProvenance
  <2>1. /\ poolAt = "provenance" /\ UNCHANGED unseen
        /\ \/ UNCHANGED provenance
           \/ /\ \A file \in BundleFiles : stored[file] # Nowhere
              /\ provenance' = [sums |-> [file \in BundleFiles |-> stored[file]], pool |-> rows]
    BY <1>11 DEF WriteProvenance, poolGhosts
  <2>2. ASSUME \A file \in BundleFiles : stored[file] # Nowhere,
               provenance' = [sums |-> [file \in BundleFiles |-> stored[file]], pool |-> rows],
               NEW x \in BundleFiles
        PROVE  Sourced(provenance.sums[x])' /\ Kept(x, provenance.sums[x])'
    <3>1. provenance'.sums[x] = stored[x] /\ stored[x] # Nowhere
      BY <2>2
    <3>2. Sourced(stored[x]) /\ Kept(x, stored[x])
      BY <2>1, <3>1 DEF WrittenInv
    <3> QED BY <2>1, <3>1, <3>2
  <2> QED BY <2>1, <2>2
<1>12. CASE ValidateMade \/ LoadBundle \/ GatePool
  BY <1>12 DEF ValidateMade, LoadBundle, GatePool, Validates, Takes, To, FailsPool, files, memory,
     poolGhosts
<1>13. CASE ReadCorpusIds \/ ReadLabels
  BY <1>13 DEF ReadCorpusIds, ReadLabels, ReadsBundle, Takes, To, FailsPool, files, poolGhosts
<1>14. CASE Scope \/ LimitQueries \/ MapPages \/ SearchMode \/ CheckReport
  BY <1>14 DEF Scope, LimitQueries, MapPages, SearchMode, CheckReport, Takes, To,
     FailsPool, files, memory, poolGhosts
<1>15. CASE IndexPage
  BY <1>15 DEF IndexPage, Takes, To, FailsPool, files, poolGhosts
<1>16. CASE DigestTreesAgain
  BY <1>16 DEF DigestTreesAgain, Takes, To, FailsPool, files, memory, poolGhosts
<1>17. CASE ReportPool
  BY <1>17 DEF ReportPool, To, files, memory, poolGhosts
<1>18. CASE BreakOff
  BY <1>18 DEF BreakOff, FailsPool, To, memory, poolGhosts
<1>19. CASE Meddle
  BY <1>19 DEF Meddle, memory
<1>20. CASE ClearOutput
  BY <1>20 DEF ClearOutput, memory, poolGhosts, PoolOver
<1>21. CASE UNCHANGED poolVars
  BY <1>21 DEF poolVars, files, memory, poolGhosts
<1> QED BY <1>1, <1>2, <1>3, <1>4, <1>5, <1>6, <1>7, <1>8, <1>9, <1>10, <1>11, <1>12, <1>13,
     <1>14, <1>15, <1>16, <1>17, <1>18, <1>19, <1>20, <1>21 DEF PoolNext

\* Every step keeps the wiki and the bundle made of verified files
LEMMA WrittenStep ==
    ASSUME PoolTypeOK, LeftInv, DirectoryInv, RowsInv, WrittenInv, [PoolNext]_poolVars
    PROVE  WrittenInv'
<1> USE ObjectsAre, SharesAre DEF PoolTypeOK, DirectoryInv, WrittenInv, Preparing, Making,
        Sourced, Kept, Pinned, PoolOver
<1>1. CASE CallAcquire \/ CallRun
  BY <1>1 DEF CallAcquire, CallRun, BeginTask, To, NoMemory, files
<1>2. CASE CallMake
  BY <1>2 DEF CallMake, BeginTask, To, NoMemory, files
<1>3. CASE VerifyMetadata \/ CountRows
  BY <1>3 DEF VerifyMetadata, CountRows, To, files, memory, poolGhosts
<1>4. CASE ReuseFile \/ BeginDownload
  BY <1>4 DEF ReuseFile, BeginDownload, Takes, To, FailsPool, files, memory, poolGhosts
<1>5. CASE EndDownload
  <2>1. poolAt' \in {"files", "source", "failed"} /\ UNCHANGED <<provenance, unseen>>
    BY <1>5 DEF EndDownload, Takes, To, FailsPool, poolGhosts
  <2>2. \A x \in PoolOutputs : stored'[x] = stored[x]
    BY <1>5 DEF EndDownload
  <2> QED BY <2>1, <2>2
<1>6. CASE VerifySource \/ DigestSourceAgain
  BY <1>6 DEF VerifySource, DigestSourceAgain, Takes, To, FailsPool, files, memory, poolGhosts
<1>7. CASE ReadRows
  BY <1>7 DEF ReadRows, Takes, To, FailsPool, files, poolGhosts
<1>8. CASE DigestSource \/ DigestTrees
  BY <1>8 DEF DigestSource, DigestTrees, Takes, To, FailsPool, files, poolGhosts
<1>9. CASE ListAcquired \/ ListReport
  BY <1>9 DEF ListAcquired, ListReport, Lists, To, files, memory, poolGhosts
<1>10. CASE WritePage \/ WriteBundleFile
  <2>1. PICK x \in PoolOutputs, next \in {"bundle", "provenance"} :
            /\ Takes(poolAt, x, TRUE, next) /\ stored' = [stored EXCEPT ![x] = Made(rows)]
            /\ \/ poolAt = "pages" /\ x \in PoolPages /\ next = "bundle"
               \/ poolAt = "bundle" /\ x \in BundleFiles /\ next = "provenance"
            /\ UNCHANGED <<output, provenance, rows>>
    BY <1>10, ObjectsAre DEF WritePage, WriteBundleFile, Writes, Takes, memory
  <2>2. /\ x \in left /\ UNCHANGED unseen
        /\ \/ poolAt' = poolAt /\ left' = left \ {x}
           \/ poolAt' = next /\ left' = Share(next) /\ left = {x}
    BY <2>1 DEF Takes, To, poolGhosts
  <2>3. \A y \in PoolOutputs : stored'[y] = IF y = x THEN Made(rows) ELSE stored[y]
    BY <2>1
  <2>4. Made(rows).of = rows /\ Made(rows).edit = "none" /\ \A f \in SourceFiles : Pinned(f, rows[f])
    BY <2>1, DirectoryInv, RowsInv DEF Made, RowsInv
  <2>5. provenance = Nowhere
    BY <2>1
  <2> HIDE DEF Making, Preparing, PoolTypeOK, DirectoryInv
  <2>6. ASSUME NEW y \in PoolOutputs, stored'[y] # Nowhere
        PROVE  /\ Sourced(stored[y])'
               /\ (poolAt' = "provenance" \/ (poolAt' = "bundle" /\ y \notin left'))
                    => Kept(y, stored[y])'
               /\ y \in PoolPages /\ (provenance' # Nowhere \/ (poolAt' = "pages" /\ y \notin left'))
                    => Kept(y, stored[y])'
    <3>1. CASE y = x
      BY <2>1, <2>2, <2>3, <2>4, <2>5, <3>1
    <3>2. CASE y # x
      <4>1. stored'[y] = stored[y] /\ Sourced(stored[y])'
        BY <2>2, <2>3, <2>6, <3>2
      <4>2. CASE poolAt = "pages"
        BY <2>1, <2>2, <2>5, <2>6, <3>2, <4>1, <4>2
      <4>3. CASE poolAt = "bundle"
        BY <2>1, <2>2, <2>5, <2>6, <3>2, <4>1, <4>3
      <4> QED BY <2>1, <4>2, <4>3
    <3> QED BY <3>1, <3>2
  <2> QED BY <2>6
<1>11. CASE WriteProvenance
  BY <1>11 DEF WriteProvenance, FailsPool, To, memory, poolGhosts
<1>12. CASE ValidateMade \/ LoadBundle \/ GatePool
  BY <1>12 DEF ValidateMade, LoadBundle, GatePool, Validates, Takes, To, FailsPool, files, memory,
     poolGhosts
<1>13. CASE ReadCorpusIds \/ ReadLabels
  BY <1>13 DEF ReadCorpusIds, ReadLabels, ReadsBundle, Takes, To, FailsPool, files, poolGhosts
<1>14. CASE Scope \/ LimitQueries \/ MapPages \/ SearchMode \/ CheckReport
  BY <1>14 DEF Scope, LimitQueries, MapPages, SearchMode, CheckReport, Takes, To,
     FailsPool, files, memory, poolGhosts
<1>15. CASE IndexPage
  BY <1>15 DEF IndexPage, Takes, To, FailsPool, files, poolGhosts
<1>16. CASE DigestTreesAgain
  BY <1>16 DEF DigestTreesAgain, Takes, To, FailsPool, files, memory, poolGhosts
<1>17. CASE ReportPool
  BY <1>17 DEF ReportPool, To, files, memory, poolGhosts
<1>18. CASE BreakOff
  <2>1. poolAt' = "failed" /\ UNCHANGED <<provenance, unseen>>
    BY <1>18 DEF BreakOff, FailsPool, To, poolGhosts
  <2>2. CASE stored' = stored
    BY <2>1, <2>2
  <2>3. CASE stored' # stored
    <3>1. PICK x \in left : stored' = [stored EXCEPT ![x] = [of |-> rows, edit |-> "ids"]]
      BY <1>18, <2>3 DEF BreakOff
    <3>2. poolAt \in {"pages", "bundle"}
      BY <1>18, <2>3 DEF BreakOff
    <3>3. provenance = Nowhere /\ \A f \in SourceFiles : Pinned(f, rows[f])
      BY <3>2, DirectoryInv, RowsInv DEF RowsInv
    <3>4. \A y \in PoolOutputs : stored'[y] = stored[y] \/ stored'[y] = [of |-> rows, edit |-> "ids"]
      BY <3>1
    <3>5. [of |-> rows, edit |-> "ids"].of = rows
      OBVIOUS
    <3> QED BY <2>1, <3>3, <3>4, <3>5
  <2> QED BY <2>2, <2>3
<1>19. CASE Meddle
  <2>1. UNCHANGED <<output, provenance, task, poolAt, left, digested, rows, loaded, indexed,
                   poolReport>>
    BY <1>19 DEF Meddle, memory
  <2>2. PICK z \in PoolObjects :
            /\ \A y \in PoolObjects : y # z => stored'[y] = stored[y]
            /\ z \in PoolOutputs =>
                /\ stored[z] # Nowhere
                /\ stored'[z] # Nowhere => stored'[z].of = stored[z].of
            /\ meddled' = meddled \cup {z}
            /\ twice' = IF z \in meddled THEN twice \cup {z} ELSE twice
            /\ unseen' = IF z \in PoolPages \/ (task = "make" /\ poolAt \notin PoolOver)
                         THEN unseen \cup {z} ELSE unseen
    BY <1>19, MeddlingGives
  <2> HIDE DEF PoolTypeOK
  <2>3. unseen \subseteq unseen'
    BY <2>2
  <2>4. ASSUME NEW y \in PoolOutputs, stored'[y] # Nowhere
        PROVE  /\ Sourced(stored[y])'
               /\ (poolAt' = "provenance" \/ (poolAt' = "bundle" /\ y \notin left'))
                    => Kept(y, stored[y])'
               /\ y \in PoolPages /\ (provenance' # Nowhere \/ (poolAt' = "pages" /\ y \notin left'))
                    => Kept(y, stored[y])'
    <3>1. CASE y = z
      <4>1. Sourced(stored[y])'
        BY <2>2, <2>3, <2>4, <3>1
      <4>2. y \in PoolPages \/ poolAt \in {"provenance", "bundle"} => y \in unseen'
        BY <2>2, <3>1
      <4> QED BY <2>1, <4>1, <4>2
    <3>2. CASE y # z
      <4>1. stored'[y] = stored[y]
        BY <2>2, <3>2
      <4> QED BY <2>1, <2>3, <2>4, <4>1
    <3> QED BY <3>1, <3>2
  <2> QED BY <2>4
<1>20. CASE ClearOutput
  BY <1>20 DEF ClearOutput, memory, poolGhosts, PoolOver
<1>21. CASE UNCHANGED poolVars
  BY <1>21 DEF poolVars, files, memory, poolGhosts
<1> QED BY <1>1, <1>2, <1>3, <1>4, <1>5, <1>6, <1>7, <1>8, <1>9, <1>10, <1>11, <1>12, <1>13,
     <1>14, <1>15, <1>16, <1>17, <1>18, <1>19, <1>20, <1>21 DEF PoolNext

\* Every step keeps a tree as it was digested, or marks the change (compute_tree_digest)
LEMMA TreesStep ==
    ASSUME PoolTypeOK, TreesInv, [PoolNext]_poolVars
    PROVE  TreesInv'
<1> USE ObjectsAre, SharesAre DEF PoolTypeOK, TreesInv, Digested, SumsRead, Labelled, Scoped,
        Mapped, PoolOver
<1>1. CASE CallAcquire \/ CallRun
  BY <1>1 DEF CallAcquire, CallRun, BeginTask, To, NoMemory, files
<1>2. CASE CallMake
  BY <1>2 DEF CallMake, BeginTask, To, NoMemory, files
<1>3. CASE VerifyMetadata \/ CountRows
  BY <1>3 DEF VerifyMetadata, CountRows, To, files, memory, poolGhosts
<1>4. CASE ReuseFile \/ BeginDownload
  BY <1>4 DEF ReuseFile, BeginDownload, Takes, To, FailsPool, files, memory, poolGhosts
<1>5. CASE EndDownload
  BY <1>5 DEF EndDownload, Takes, To, FailsPool, memory, poolGhosts
<1>6. CASE VerifySource \/ DigestSourceAgain
  BY <1>6 DEF VerifySource, DigestSourceAgain, Takes, To, FailsPool, files, memory, poolGhosts
<1>7. CASE ReadRows
  BY <1>7 DEF ReadRows, Takes, To, FailsPool, files, poolGhosts
<1>8. CASE DigestSource \/ DigestTrees
  <2>1. CASE DigestSource
    <3>1. poolAt' \in {"digest", "source"}
      BY <2>1 DEF DigestSource, Takes, To
    <3> QED BY <3>1
  <2>2. CASE DigestTrees
    <3>1. PICK x \in PoolOutputs :
              /\ Takes("trees", x, TRUE, "ids")
              /\ digested' = [digested EXCEPT ![x] = stored[x]]
              /\ stored' = stored
      BY <2>2 DEF DigestTrees, files
    <3>2. poolAt = "trees" /\ (left = {x} \/ left' = left \ {x}) /\ meddled' = meddled
      BY <3>1 DEF Takes, To, poolGhosts
    <3>3. poolAt' \in Digested => left = {x}
      BY <3>1 DEF Takes, To
    <3>4. /\ digested'[x] = stored[x]
          /\ \A y \in PoolOutputs : y # x => digested'[y] = digested[y]
      BY <3>1
    <3>5. ASSUME NEW y \in PoolOutputs, poolAt' \in Digested \/ (poolAt' = "trees" /\ y \notin left')
          PROVE  stored'[y] = digested'[y] \/ y \in meddled'
      <4>1. y = x \/ y \notin left
        BY <3>2, <3>3, <3>5
      <4> QED BY <3>1, <3>2, <3>4, <4>1
    <3> QED BY <3>5
  <2> QED BY <1>8, <2>1, <2>2
<1>9. CASE ListAcquired \/ ListReport
  BY <1>9 DEF ListAcquired, ListReport, Lists, To, files, memory, poolGhosts
<1>10. CASE WritePage \/ WriteBundleFile
  BY <1>10 DEF WritePage, WriteBundleFile, Writes, Takes, To, FailsPool, memory, poolGhosts
<1>11. CASE WriteProvenance
  BY <1>11 DEF WriteProvenance, FailsPool, To, memory, poolGhosts
<1>12. CASE ValidateMade \/ LoadBundle \/ GatePool
  BY <1>12 DEF ValidateMade, LoadBundle, GatePool, Validates, Takes, To, FailsPool, files, memory,
     poolGhosts
<1>13. CASE ReadCorpusIds \/ ReadLabels
  BY <1>13 DEF ReadCorpusIds, ReadLabels, ReadsBundle, Takes, To, FailsPool, files, poolGhosts
<1>14. CASE Scope \/ LimitQueries \/ MapPages \/ SearchMode \/ CheckReport
  BY <1>14 DEF Scope, LimitQueries, MapPages, SearchMode, CheckReport, Takes, To,
     FailsPool, files, memory, poolGhosts
<1>15. CASE IndexPage
  BY <1>15 DEF IndexPage, Takes, To, FailsPool, files, poolGhosts
<1>16. CASE DigestTreesAgain
  BY <1>16 DEF DigestTreesAgain, Takes, To, FailsPool, files, memory, poolGhosts
<1>17. CASE ReportPool
  BY <1>17 DEF ReportPool, To, files, memory, poolGhosts
<1>18. CASE BreakOff
  BY <1>18 DEF BreakOff, FailsPool, To, memory, poolGhosts
<1>19. CASE Meddle
  <2>1. UNCHANGED <<output, provenance, task, poolAt, left, digested, rows, loaded, indexed,
                   poolReport>>
    BY <1>19 DEF Meddle, memory
  <2>2. PICK z \in PoolObjects :
            /\ \A y \in PoolObjects : y # z => stored'[y] = stored[y]
            /\ z \in PoolOutputs =>
                /\ stored[z] # Nowhere
                /\ stored'[z] # Nowhere => stored'[z].of = stored[z].of
            /\ meddled' = meddled \cup {z}
            /\ twice' = IF z \in meddled THEN twice \cup {z} ELSE twice
            /\ unseen' = IF z \in PoolPages \/ (task = "make" /\ poolAt \notin PoolOver)
                         THEN unseen \cup {z} ELSE unseen
    BY <1>19, MeddlingGives
  <2> QED BY <2>1, <2>2
<1>20. CASE ClearOutput
  BY <1>20 DEF ClearOutput, memory, poolGhosts, PoolOver
<1>21. CASE UNCHANGED poolVars
  BY <1>21 DEF poolVars, files, memory, poolGhosts
<1> QED BY <1>1, <1>2, <1>3, <1>4, <1>5, <1>6, <1>7, <1>8, <1>9, <1>10, <1>11, <1>12, <1>13,
     <1>14, <1>15, <1>16, <1>17, <1>18, <1>19, <1>20, <1>21 DEF PoolNext

\* Every step keeps the bundle's rows and checksums those of the digested tree
\* (load_nomiracl_ko_bundle)
LEMMA LoadedStep ==
    ASSUME PoolTypeOK, LeftInv, TreesInv, LoadedInv, [PoolNext]_poolVars
    PROVE  LoadedInv'
<1> USE ObjectsAre, SharesAre DEF PoolTypeOK, TreesInv, LoadedInv, AsDigested, Digested, SumsRead,
        Labelled, Scoped, Mapped, PoolOver
<1>1. CASE CallAcquire \/ CallRun
  BY <1>1 DEF CallAcquire, CallRun, BeginTask, To, NoMemory, files
<1>2. CASE CallMake
  BY <1>2 DEF CallMake, BeginTask, To, NoMemory, files
<1>3. CASE VerifyMetadata \/ CountRows
  BY <1>3 DEF VerifyMetadata, CountRows, To, files, memory, poolGhosts
<1>4. CASE ReuseFile \/ BeginDownload
  BY <1>4 DEF ReuseFile, BeginDownload, Takes, To, FailsPool, files, memory, poolGhosts
<1>5. CASE EndDownload
  BY <1>5 DEF EndDownload, Takes, To, FailsPool, memory, poolGhosts
<1>6. CASE VerifySource \/ DigestSourceAgain
  BY <1>6 DEF VerifySource, DigestSourceAgain, Takes, To, FailsPool, files, memory, poolGhosts
<1>7. CASE ReadRows
  BY <1>7 DEF ReadRows, Takes, To, FailsPool, files, poolGhosts
<1>8. CASE DigestSource \/ DigestTrees
  BY <1>8 DEF DigestSource, DigestTrees, Takes, To, FailsPool, files, poolGhosts
<1>9. CASE ListAcquired \/ ListReport
  BY <1>9 DEF ListAcquired, ListReport, Lists, To, files, memory, poolGhosts
<1>10. CASE WritePage \/ WriteBundleFile
  BY <1>10 DEF WritePage, WriteBundleFile, Writes, Takes, To, FailsPool, memory, poolGhosts
<1>11. CASE WriteProvenance
  BY <1>11 DEF WriteProvenance, FailsPool, To, memory, poolGhosts
<1>12. CASE ValidateMade \/ LoadBundle \/ GatePool
  <2>1. PICK stage \in {"validate", "load", "gate"}, next \in {"digest again", "labels", "limit"},
            file \in BundleFiles, joins \in BOOLEAN :
            /\ Takes(stage, file, joins /\ Summed(file), next)
            /\ <<stage, next>> \in {<<"validate", "digest again">>, <<"load", "labels">>,
                                   <<"gate", "limit">>}
            /\ UNCHANGED <<files, memory>>
    <3>1. CASE ValidateMade
      BY <3>1 DEF ValidateMade, Validates
    <3>2. CASE LoadBundle
      BY <3>2 DEF LoadBundle, Validates
    <3>3. CASE GatePool
      BY <3>3 DEF GatePool, Validates
    <3> QED BY <1>12, <3>1, <3>2, <3>3
  <2>2. /\ poolAt = stage /\ file \in left
        /\ \/ poolAt' = "failed"
           \/ Summed(file) /\ poolAt' = stage /\ left' = left \ {file}
           \/ Summed(file) /\ poolAt' = next /\ left' = Share(next) /\ left = {file}
        /\ UNCHANGED <<twice, meddled>>
    BY <2>1 DEF Takes, To, FailsPool, poolGhosts
  <2>3. UNCHANGED <<stored, digested, loaded, provenance>>
    BY <2>1 DEF files, memory
  <2>4. poolAt = "load" /\ Summed(file) => AsDigested(file, provenance.sums[file]) /\ provenance # Nowhere
    BY ObjectsAre DEF Summed
  <2> HIDE DEF PoolTypeOK, TreesInv
  <2>5. CASE stage = "validate"
    BY <2>1, <2>2, <2>5
  <2>6. CASE stage = "load" /\ Summed(file) /\ poolAt' # "failed"
    <3>1. /\ poolAt = "load" /\ provenance # Nowhere
          /\ \/ poolAt' = "load" /\ left' = left \ {file}
             \/ poolAt' = "labels" /\ left' = {"queries.jsonl", "qrels.jsonl"} /\ left = {file}
      BY <2>1, <2>2, <2>4, <2>6
    <3>2. \A x \in BundleFiles : x = file \/ x \notin left => AsDigested(x, provenance.sums[x])
      BY <2>4, <2>6, <3>1
    <3>3. AsDigested("corpus.jsonl", loaded["corpus.jsonl"]) /\ loaded["corpus.jsonl"] # Nowhere
      BY <3>1 DEF BundleFiles
    <3>4. \A x \in BundleFiles : x # "corpus.jsonl" => x \in {"queries.jsonl", "qrels.jsonl"}
      BY DEF BundleFiles
    <3> QED BY <2>2, <2>3, <3>1, <3>2, <3>3, <3>4
  <2>8. CASE poolAt' = "failed"
    BY <2>8
  <2>7. CASE stage = "gate"
    BY <2>1, <2>2, <2>3, <2>7
  <2> QED BY <2>1, <2>2, <2>5, <2>6, <2>7, <2>8
<1>13. CASE ReadCorpusIds \/ ReadLabels
  <2>1. PICK stage \in {"ids", "labels"}, next \in {"load", "scope"}, file \in BundleFiles :
            /\ Takes(stage, file, stored[file] # Nowhere, next)
            /\ <<stage, next>> \in {<<"ids", "load">>, <<"labels", "scope">>}
            /\ loaded' = [loaded EXCEPT ![file] = stored[file]]
            /\ UNCHANGED <<files, digested>>
    <3>1. CASE ReadCorpusIds
      BY <3>1 DEF ReadCorpusIds, ReadsBundle
    <3>2. CASE ReadLabels
      BY <3>2 DEF ReadLabels, ReadsBundle
    <3> QED BY <1>13, <3>1, <3>2
  <2>2. /\ poolAt = stage /\ file \in left
        /\ \/ poolAt' = "failed"
           \/ stored[file] # Nowhere /\ poolAt' = stage /\ left' = left \ {file}
           \/ stored[file] # Nowhere /\ poolAt' = next /\ left' = Share(next) /\ left = {file}
        /\ UNCHANGED <<twice, meddled>>
    BY <2>1 DEF Takes, To, FailsPool, poolGhosts
  <2>3. UNCHANGED <<stored, provenance>>
    BY <2>1 DEF files
  <2>4. \A x \in BundleFiles : loaded'[x] = IF x = file THEN stored[file] ELSE loaded[x]
    BY <2>1
  <2>5. AsDigested(file, stored[file])
    BY <2>1, <2>2, ObjectsAre
  <2>6. stage = "ids" => file = "corpus.jsonl"
    BY <2>2 DEF LeftInv, Share
  <2>7. stage = "labels" => file # "corpus.jsonl"
    BY <2>2 DEF LeftInv, Share
  <2> HIDE DEF PoolTypeOK, TreesInv
  <2>8. CASE stage = "ids"
    BY <2>1, <2>2, <2>3, <2>4, <2>5, <2>6, <2>8
  <2>9. CASE stage = "labels"
    BY <2>1, <2>2, <2>3, <2>4, <2>5, <2>7, <2>9
  <2> QED BY <2>1, <2>8, <2>9
<1>14. CASE Scope \/ LimitQueries \/ MapPages \/ SearchMode \/ CheckReport
  <2>1. UNCHANGED <<stored, digested, loaded, provenance, twice, meddled>>
    BY <1>14 DEF Scope, LimitQueries, MapPages, SearchMode, CheckReport, Takes, files, memory,
       poolGhosts
  <2>2. CASE Scope /\ poolAt' # "failed"
    <3>1. poolAt = "scope" /\ poolAt' = "gate" /\ InPool("qrels.jsonl", stored["qrels.jsonl"])
      BY <2>2 DEF Scope, To
    <3>2. "qrels.jsonl" \in PoolOutputs
      BY DEF PoolOutputs, BundleFiles
    <3>3. stored["qrels.jsonl"] = Made(provenance.pool)
      BY <3>1, <3>2 DEF InPool, Made, Writings
    <3>4. AsDigested("qrels.jsonl", Made(provenance.pool))
      BY <3>1, <3>2, <3>3
    <3> HIDE DEF PoolTypeOK, TreesInv
    <3> QED BY <2>1, <3>1, <3>4
  <2>3. CASE poolAt' = "failed"
    BY <2>3
  <2>4. CASE LimitQueries \/ MapPages \/ SearchMode \/ CheckReport
    <3>1. /\ poolAt \in {"limit", "map", "search", "report"}
          /\ poolAt' \in {"index", "search", "failed", "trees again", "publish"}
      BY <2>4 DEF LimitQueries, MapPages, SearchMode, CheckReport, Takes, To, FailsPool
    <3> HIDE DEF PoolTypeOK, TreesInv
    <3> QED BY <2>1, <3>1
  <2> QED BY <1>14, <2>2, <2>3, <2>4
<1>15. CASE IndexPage
  BY <1>15 DEF IndexPage, Takes, To, FailsPool, files, poolGhosts
<1>16. CASE DigestTreesAgain
  BY <1>16 DEF DigestTreesAgain, Takes, To, FailsPool, files, memory, poolGhosts
<1>17. CASE ReportPool
  BY <1>17 DEF ReportPool, To, files, memory, poolGhosts
<1>18. CASE BreakOff
  BY <1>18 DEF BreakOff, FailsPool, To, memory, poolGhosts
<1>19. CASE Meddle
  <2>1. UNCHANGED <<output, provenance, task, poolAt, left, digested, rows, loaded, indexed,
                   poolReport>>
    BY <1>19 DEF Meddle, memory
  <2>2. PICK z \in PoolObjects :
            /\ \A y \in PoolObjects : y # z => stored'[y] = stored[y]
            /\ z \in PoolOutputs =>
                /\ stored[z] # Nowhere
                /\ stored'[z] # Nowhere => stored'[z].of = stored[z].of
            /\ meddled' = meddled \cup {z}
            /\ twice' = IF z \in meddled THEN twice \cup {z} ELSE twice
            /\ unseen' = IF z \in PoolPages \/ (task = "make" /\ poolAt \notin PoolOver)
                         THEN unseen \cup {z} ELSE unseen
    BY <1>19, MeddlingGives
  <2>3. \A x \in PoolOutputs : \A v :
            (v = digested[x] \/ x \in twice \/ (x \in meddled /\ stored[x] # digested[x]))
            => (v = digested'[x] \/ x \in twice' \/ (x \in meddled' /\ stored'[x] # digested'[x]))
    BY <2>1, <2>2
  <2> HIDE DEF PoolTypeOK, TreesInv
  <2>4. \A x \in BundleFiles : x \in PoolOutputs
    BY ObjectsAre
  <2>5. "qrels.jsonl" \in BundleFiles
    BY DEF BundleFiles
  <2> QED BY <2>1, <2>3, <2>4, <2>5
<1>20. CASE ClearOutput
  BY <1>20 DEF ClearOutput, memory, poolGhosts, PoolOver
<1>21. CASE UNCHANGED poolVars
  BY <1>21 DEF poolVars, files, memory, poolGhosts
<1> QED BY <1>1, <1>2, <1>3, <1>4, <1>5, <1>6, <1>7, <1>8, <1>9, <1>10, <1>11, <1>12, <1>13,
     <1>14, <1>15, <1>16, <1>17, <1>18, <1>19, <1>20, <1>21 DEF PoolNext

\* Every step keeps the index that of the digested wiki (create_shared_service)
LEMMA IndexedStep ==
    ASSUME PoolTypeOK, TreesInv, WrittenInv, LoadedInv, IndexedInv, [PoolNext]_poolVars
    PROVE  IndexedInv'
<1> USE ObjectsAre, SharesAre DEF PoolTypeOK, IndexedInv, AsDigested, Digested, SumsRead,
        Labelled, Scoped, Mapped, PoolOver
<1>1. CASE CallAcquire \/ CallRun
  BY <1>1 DEF CallAcquire, CallRun, BeginTask, To, NoMemory, files
<1>2. CASE CallMake
  BY <1>2 DEF CallMake, BeginTask, To, NoMemory, files
<1>3. CASE VerifyMetadata \/ CountRows
  BY <1>3 DEF VerifyMetadata, CountRows, To, files, memory, poolGhosts
<1>4. CASE ReuseFile \/ BeginDownload
  BY <1>4 DEF ReuseFile, BeginDownload, Takes, To, FailsPool, files, memory, poolGhosts
<1>5. CASE EndDownload
  BY <1>5 DEF EndDownload, Takes, To, FailsPool, memory, poolGhosts
<1>6. CASE VerifySource \/ DigestSourceAgain
  BY <1>6 DEF VerifySource, DigestSourceAgain, Takes, To, FailsPool, files, memory, poolGhosts
<1>7. CASE ReadRows
  BY <1>7 DEF ReadRows, Takes, To, FailsPool, files, poolGhosts
<1>8. CASE DigestSource \/ DigestTrees
  BY <1>8 DEF DigestSource, DigestTrees, Takes, To, FailsPool, files, poolGhosts
<1>9. CASE ListAcquired \/ ListReport
  BY <1>9 DEF ListAcquired, ListReport, Lists, To, files, memory, poolGhosts
<1>10. CASE WritePage \/ WriteBundleFile
  BY <1>10 DEF WritePage, WriteBundleFile, Writes, Takes, To, FailsPool, memory, poolGhosts
<1>11. CASE WriteProvenance
  BY <1>11 DEF WriteProvenance, FailsPool, To, memory, poolGhosts
<1>12. CASE ValidateMade \/ LoadBundle \/ GatePool
  BY <1>12 DEF ValidateMade, LoadBundle, GatePool, Validates, Takes, To, FailsPool, files, memory,
     poolGhosts
<1>13. CASE ReadCorpusIds \/ ReadLabels
  BY <1>13 DEF ReadCorpusIds, ReadLabels, ReadsBundle, Takes, To, FailsPool, files, poolGhosts
<1>14. CASE Scope \/ LimitQueries \/ MapPages \/ SearchMode \/ CheckReport
  <2>1. UNCHANGED <<stored, digested, indexed, twice, meddled, unseen>>
    BY <1>14 DEF Scope, LimitQueries, MapPages, SearchMode, CheckReport, Takes, files, memory,
       poolGhosts
  <2> HIDE DEF PoolTypeOK
  <2>2. CASE Scope
    <3>1. poolAt' \in {"gate", "failed"}
      BY <2>2 DEF Scope, To
    <3> QED BY <3>1
  <2>3. CASE MapPages
    <3>1. /\ poolAt = "map"
          /\ \/ poolAt' = "failed"
             \/ poolAt' = "search" /\ \A page \in PoolPages : indexed[page] # Nowhere
      BY <2>3 DEF MapPages, To
    <3> QED BY <2>1, <3>1 DEF Sourced, Pinned, Kept
  <2>5. CASE LimitQueries
    <3>1. poolAt' \in {"index", "failed"} /\ (poolAt' = "index" => left' = PoolPages)
      BY <2>5, SharesAre DEF LimitQueries, To
    <3> QED BY <3>1
  <2>4. CASE SearchMode \/ CheckReport
    <3>1. /\ poolAt \in {"search", "report"}
          /\ poolAt' \in {"search", "failed", "trees again", "publish"}
      BY <2>4 DEF SearchMode, CheckReport, Takes, To, FailsPool
    <3> QED BY <2>1, <3>1 DEF Sourced, Pinned, Kept
  <2> QED BY <1>14, <2>2, <2>3, <2>4, <2>5
<1>15. CASE IndexPage
  <2>1. PICK page \in PoolPages :
            /\ Takes("index", page, TRUE, "map")
            /\ indexed' = [indexed EXCEPT ![page] = stored[page]]
            /\ UNCHANGED <<files, digested>>
    BY <1>15 DEF IndexPage
  <2>2. /\ poolAt = "index"
        /\ \/ poolAt' = "index" /\ left' = left \ {page}
           \/ poolAt' = "map" /\ left = {page}
        /\ UNCHANGED <<twice, meddled, unseen>>
    BY <2>1 DEF Takes, To, poolGhosts
  <2>3. UNCHANGED <<stored, digested>>
    BY <2>1 DEF files
  <2>4. \A p \in PoolPages : indexed'[p] = IF p = page THEN stored[page] ELSE indexed[p]
    BY <2>1
  <2>5. AsDigested(page, stored[page])
    BY <2>2, ObjectsAre DEF TreesInv
  <2>6. stored[page] # Nowhere => Sourced(stored[page]) /\ Kept(page, stored[page])
    BY <2>2, ObjectsAre DEF WrittenInv, LoadedInv
  <2> HIDE DEF PoolTypeOK
  <2> QED BY <2>2, <2>3, <2>4, <2>5, <2>6 DEF Sourced, Pinned, Kept
<1>16. CASE DigestTreesAgain
  <2>1. UNCHANGED <<stored, digested, indexed, twice, meddled, unseen>>
    BY <1>16 DEF DigestTreesAgain, Takes, files, memory, poolGhosts
  <2>2. poolAt = "trees again" /\ poolAt' \in {"trees again", "failed", "report"}
    BY <1>16 DEF DigestTreesAgain, Takes, To, FailsPool
  <2> HIDE DEF PoolTypeOK
  <2> QED BY <2>1, <2>2 DEF Sourced, Pinned, Kept
<1>17. CASE ReportPool
  BY <1>17 DEF ReportPool, To, files, memory, poolGhosts
<1>18. CASE BreakOff
  BY <1>18 DEF BreakOff, FailsPool, To, memory, poolGhosts
<1>19. CASE Meddle
  <2>1. UNCHANGED <<output, provenance, task, poolAt, left, digested, rows, loaded, indexed,
                   poolReport>>
    BY <1>19 DEF Meddle, memory
  <2>2. PICK z \in PoolObjects :
            /\ \A y \in PoolObjects : y # z => stored'[y] = stored[y]
            /\ z \in PoolOutputs =>
                /\ stored[z] # Nowhere
                /\ stored'[z] # Nowhere => stored'[z].of = stored[z].of
            /\ meddled' = meddled \cup {z}
            /\ twice' = IF z \in meddled THEN twice \cup {z} ELSE twice
            /\ unseen' = IF z \in PoolPages \/ (task = "make" /\ poolAt \notin PoolOver)
                         THEN unseen \cup {z} ELSE unseen
    BY <1>19, MeddlingGives
  <2>3. \A x \in PoolOutputs : \A v :
            (v = digested[x] \/ x \in twice \/ (x \in meddled /\ stored[x] # digested[x]))
            => (v = digested'[x] \/ x \in twice' \/ (x \in meddled' /\ stored'[x] # digested'[x]))
    BY <2>1, <2>2
  <2>4. \A page \in PoolPages : page \in PoolOutputs
    BY ObjectsAre
  <2> HIDE DEF PoolTypeOK
  <2> QED BY <2>1, <2>2, <2>3, <2>4 DEF Sourced, Pinned, Kept
<1>20. CASE ClearOutput
  BY <1>20 DEF ClearOutput, memory, poolGhosts, PoolOver
<1>21. CASE UNCHANGED poolVars
  <2>1. UNCHANGED <<stored, digested, indexed, twice, meddled, unseen, poolAt, left>>
    BY <1>21 DEF poolVars, files, memory, poolGhosts
  <2> HIDE DEF PoolTypeOK
  <2> QED BY <2>1 DEF Sourced, Pinned, Kept
<1> QED BY <1>1, <1>2, <1>3, <1>4, <1>5, <1>6, <1>7, <1>8, <1>9, <1>10, <1>11, <1>12, <1>13,
     <1>14, <1>15, <1>16, <1>17, <1>18, <1>19, <1>20, <1>21 DEF PoolNext

\* The second digests leave only what was put back (run_nomiracl_ko_benchmark)
LEMMA UnchangedStep ==
    ASSUME PoolTypeOK, LoadedInv, IndexedInv, UnchangedInv, [PoolNext]_poolVars
    PROVE  UnchangedInv'
<1> USE ObjectsAre, SharesAre DEF PoolTypeOK, UnchangedInv, AsDigested, Digested, SumsRead,
        Labelled, Scoped, Mapped, PoolOver
<1>1. CASE CallAcquire \/ CallRun
  BY <1>1 DEF CallAcquire, CallRun, BeginTask, To, NoMemory, files
<1>2. CASE CallMake
  BY <1>2 DEF CallMake, BeginTask, To, NoMemory, files
<1>3. CASE VerifyMetadata \/ CountRows
  BY <1>3 DEF VerifyMetadata, CountRows, To, files, memory, poolGhosts
<1>4. CASE ReuseFile \/ BeginDownload
  BY <1>4 DEF ReuseFile, BeginDownload, Takes, To, FailsPool, files, memory, poolGhosts
<1>5. CASE EndDownload
  BY <1>5 DEF EndDownload, Takes, To, FailsPool, memory, poolGhosts
<1>6. CASE VerifySource \/ DigestSourceAgain
  BY <1>6 DEF VerifySource, DigestSourceAgain, Takes, To, FailsPool, files, memory, poolGhosts
<1>7. CASE ReadRows
  BY <1>7 DEF ReadRows, Takes, To, FailsPool, files, poolGhosts
<1>8. CASE DigestSource \/ DigestTrees
  BY <1>8 DEF DigestSource, DigestTrees, Takes, To, FailsPool, files, poolGhosts
<1>9. CASE ListAcquired \/ ListReport
  BY <1>9 DEF ListAcquired, ListReport, Lists, To, files, memory, poolGhosts
<1>10. CASE WritePage \/ WriteBundleFile
  BY <1>10 DEF WritePage, WriteBundleFile, Writes, Takes, To, FailsPool, memory, poolGhosts
<1>11. CASE WriteProvenance
  BY <1>11 DEF WriteProvenance, FailsPool, To, memory, poolGhosts
<1>12. CASE ValidateMade \/ LoadBundle \/ GatePool
  BY <1>12 DEF ValidateMade, LoadBundle, GatePool, Validates, Takes, To, FailsPool, files, memory,
     poolGhosts
<1>13. CASE ReadCorpusIds \/ ReadLabels
  BY <1>13 DEF ReadCorpusIds, ReadLabels, ReadsBundle, Takes, To, FailsPool, files, poolGhosts
<1>14. CASE Scope \/ LimitQueries \/ MapPages \/ SearchMode \/ CheckReport
  BY <1>14 DEF Scope, LimitQueries, MapPages, SearchMode, CheckReport, Takes, To,
     FailsPool, files, memory, poolGhosts
<1>15. CASE IndexPage
  BY <1>15 DEF IndexPage, Takes, To, FailsPool, files, poolGhosts
<1>16. CASE DigestTreesAgain
  <2>1. PICK y \in PoolOutputs :
            /\ poolAt = "trees again"
            /\ \/ poolAt' = "failed"
               \/ stored[y] = digested[y] /\ poolAt' = "trees again" /\ left' = left \ {y}
               \/ stored[y] = digested[y] /\ poolAt' = "report" /\ left = {y}
    BY <1>16 DEF DigestTreesAgain, Takes, To, FailsPool
  <2>2. UNCHANGED <<stored, digested, loaded, indexed, provenance, twice>>
    BY <1>16 DEF DigestTreesAgain, Takes, files, memory, poolGhosts
  <2> HIDE DEF PoolTypeOK
  <2>3. ASSUME stored[y] = digested[y], y \notin twice
        PROVE  /\ y \in BundleFiles => digested[y] = provenance.sums[y] /\ digested[y] = loaded[y]
               /\ y \in PoolPages => digested[y] = indexed[y]
               /\ y = "qrels.jsonl" => digested[y] = Made(provenance.pool)
    BY <2>1, <2>3 DEF LoadedInv, IndexedInv
  <2> QED BY <2>1, <2>2, <2>3
<1>17. CASE ReportPool
  BY <1>17 DEF ReportPool, To, files, memory, poolGhosts
<1>18. CASE BreakOff
  BY <1>18 DEF BreakOff, FailsPool, To, memory, poolGhosts
<1>19. CASE Meddle
  BY <1>19 DEF Meddle, memory
<1>20. CASE ClearOutput
  BY <1>20 DEF ClearOutput, memory, poolGhosts, PoolOver
<1>21. CASE UNCHANGED poolVars
  BY <1>21 DEF poolVars, files, memory, poolGhosts
<1> QED BY <1>1, <1>2, <1>3, <1>4, <1>5, <1>6, <1>7, <1>8, <1>9, <1>10, <1>11, <1>12, <1>13,
     <1>14, <1>15, <1>16, <1>17, <1>18, <1>19, <1>20, <1>21 DEF PoolNext

\* A step that does not publish leaves the report true
LEMMA OfficialFrame ==
    ASSUME OfficialPool, UNCHANGED <<digested, loaded, indexed, poolReport>>,
           twice \subseteq twice', unseen \subseteq unseen',
           poolAt' \in {"list report", "reported"} => poolAt \in {"list report", "reported"}
    PROVE  OfficialPool'
BY DEF OfficialPool, Made

\* A report is of the official pool when it is published, and stays so
LEMMA OfficialStep ==
    ASSUME PoolInv, [PoolNext]_poolVars
    PROVE  OfficialPool'
<1>1. CASE CallAcquire \/ CallRun
  BY <1>1 DEF CallAcquire, CallRun, BeginTask, To, NoMemory, files, OfficialPool
<1>2. CASE CallMake
  BY <1>2 DEF CallMake, BeginTask, To, NoMemory, files, OfficialPool
<1>3. CASE VerifyMetadata \/ CountRows
  BY <1>3 DEF VerifyMetadata, CountRows, To, files, memory, poolGhosts, OfficialPool
<1>4. CASE ReuseFile \/ BeginDownload
  BY <1>4 DEF ReuseFile, BeginDownload, Takes, To, FailsPool, files, memory, poolGhosts,
     OfficialPool
<1>5. CASE EndDownload
  BY <1>5 DEF EndDownload, Takes, To, FailsPool, memory, poolGhosts, OfficialPool
<1>6. CASE VerifySource \/ DigestSourceAgain
  BY <1>6 DEF VerifySource, DigestSourceAgain, Takes, To, FailsPool, files, memory, poolGhosts,
     OfficialPool
<1>7. CASE ReadRows
  BY <1>7 DEF ReadRows, Takes, To, FailsPool, files, poolGhosts, OfficialPool
<1>8. CASE DigestSource \/ DigestTrees
  BY <1>8 DEF DigestSource, DigestTrees, Takes, To, FailsPool, files, poolGhosts, OfficialPool
<1>9. CASE ListAcquired \/ ListReport
  <2>1. poolAt' \in {"list report", "reported"} => poolAt \in {"list report", "reported"}
    BY <1>9 DEF ListAcquired, ListReport, Lists, To
  <2>2. UNCHANGED <<digested, loaded, indexed, poolReport, twice, unseen>>
    BY <1>9 DEF ListAcquired, ListReport, Lists, memory, poolGhosts
  <2> QED BY <2>1, <2>2, OfficialFrame DEF PoolInv
<1>10. CASE WritePage \/ WriteBundleFile
  BY <1>10 DEF WritePage, WriteBundleFile, Writes, Takes, To, FailsPool, memory, poolGhosts,
     OfficialPool
<1>11. CASE WriteProvenance
  BY <1>11 DEF WriteProvenance, FailsPool, To, memory, poolGhosts, OfficialPool
<1>12. CASE ValidateMade \/ LoadBundle \/ GatePool
  BY <1>12 DEF ValidateMade, LoadBundle, GatePool, Validates, Takes, To, FailsPool, files, memory,
     poolGhosts, OfficialPool
<1>13. CASE ReadCorpusIds \/ ReadLabels
  BY <1>13 DEF ReadCorpusIds, ReadLabels, ReadsBundle, Takes, To, FailsPool, files, poolGhosts,
     OfficialPool
<1>14. CASE Scope \/ LimitQueries \/ MapPages \/ SearchMode \/ CheckReport
  BY <1>14 DEF Scope, LimitQueries, MapPages, SearchMode, CheckReport, Takes, To,
     FailsPool, files, memory, poolGhosts, OfficialPool
<1>15. CASE IndexPage
  BY <1>15 DEF IndexPage, Takes, To, FailsPool, files, poolGhosts, OfficialPool
<1>16. CASE DigestTreesAgain
  BY <1>16 DEF DigestTreesAgain, Takes, To, FailsPool, files, memory, poolGhosts, OfficialPool
<1>17. CASE ReportPool
  <2>1. poolAt = "publish" /\ UNCHANGED <<digested, loaded, indexed, twice, unseen>>
        /\ poolReport' = provenance.pool
    BY <1>17 DEF ReportPool, memory, poolGhosts
  <2>2. ASSUME NEW page \in PoolPages \ twice
        PROVE  /\ indexed[page] # Nowhere /\ indexed[page] = digested[page]
               /\ Sourced(indexed[page]) /\ Kept(page, indexed[page])
    BY <2>1, ObjectsAre DEF PoolInv, IndexedInv, UnchangedInv, Mapped
  <2>3. ASSUME NEW file \in BundleFiles \ twice
        PROVE  /\ loaded[file] # Nowhere /\ loaded[file] = digested[file]
               /\ Sourced(loaded[file]) /\ Kept(file, loaded[file])
               /\ file = "qrels.jsonl" => loaded[file] = Made(provenance.pool)
    BY <2>1, ObjectsAre DEF PoolInv, LoadedInv, SummedInv, UnchangedInv, SumsRead, Labelled, Scoped,
       Mapped
  <2> SUFFICES ASSUME NEW x \in PoolOutputs \ twice'
      PROVE  LET read == IF x \in PoolPages THEN indexed[x] ELSE loaded[x]
             IN  /\ read # Nowhere /\ read = digested[x]
                 /\ Sourced(read) /\ Kept(x, read)
                 /\ x = "qrels.jsonl" => read = Made(poolReport')
    BY <2>1 DEF OfficialPool, Sourced, Pinned, Kept, Made
  <2>4. CASE x \in PoolPages
    BY <2>1, <2>2, <2>4, ObjectsAre DEF BundleFiles
  <2>5. CASE x \notin PoolPages
    <3>1. x \in BundleFiles \ twice
      BY <2>1, <2>5, ObjectsAre
    <3> QED BY <2>1, <2>3, <2>5, <3>1
  <2> QED BY <2>4, <2>5
<1>18. CASE BreakOff
  BY <1>18 DEF BreakOff, FailsPool, To, memory, poolGhosts, OfficialPool
<1>19. CASE Meddle
  <2>1. UNCHANGED <<output, provenance, task, poolAt, left, digested, rows, loaded, indexed,
                   poolReport>>
    BY <1>19 DEF Meddle, memory
  <2>2. PICK z \in PoolObjects :
            /\ \A y \in PoolObjects : y # z => stored'[y] = stored[y]
            /\ z \in PoolOutputs =>
                /\ stored[z] # Nowhere
                /\ stored'[z] # Nowhere => stored'[z].of = stored[z].of
            /\ meddled' = meddled \cup {z}
            /\ twice' = IF z \in meddled THEN twice \cup {z} ELSE twice
            /\ unseen' = IF z \in PoolPages \/ (task = "make" /\ poolAt \notin PoolOver)
                         THEN unseen \cup {z} ELSE unseen
    BY <1>19, MeddlingGives DEF PoolInv
  <2> QED BY <2>1, <2>2, OfficialFrame DEF PoolInv
<1>20. CASE ClearOutput
  <2>1. UNCHANGED <<digested, loaded, indexed, poolReport, twice, unseen, poolAt>>
    BY <1>20 DEF ClearOutput, memory, poolGhosts
  <2> QED BY <2>1, OfficialFrame DEF PoolInv
<1>21. CASE UNCHANGED poolVars
  <2>1. UNCHANGED <<digested, loaded, indexed, poolReport, twice, unseen, poolAt>>
    BY <1>21 DEF poolVars, memory, poolGhosts
  <2> QED BY <2>1, OfficialFrame DEF PoolInv
<1> QED BY <1>1, <1>2, <1>3, <1>4, <1>5, <1>6, <1>7, <1>8, <1>9, <1>10, <1>11, <1>12, <1>13,
     <1>14, <1>15, <1>16, <1>17, <1>18, <1>19, <1>20, <1>21 DEF PoolNext

\* Every step keeps the invariant
LEMMA PoolStep == PoolInv /\ [PoolNext]_poolVars => PoolInv'
BY TypeStep, LeftStep, DirectoryStep, RowsStep, SummedStep, WrittenStep, TreesStep, LoadedStep,
   IndexedStep, UnchangedStep, OfficialStep DEF PoolInv

\* A published report of the judged pool is of the pinned files, though the run has never seen
\* them, but for changes where nothing was there to tell (OfficialPool): acquisition,
\* materialization and run, for any number of files, pages, modes, edits and commands.
THEOREM ReportsAreOfOfficialPool == PoolSpec => []OfficialPool
<1>1. PoolInv => OfficialPool
  BY DEF PoolInv
<1> QED BY <1>1, PoolStart, PoolStep, PTL DEF PoolSpec
=============================================================================
