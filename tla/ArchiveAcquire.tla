---------------------------- MODULE ArchiveAcquire ----------------------------
(***************************************************************************)
(* The acquisition of a benchmark archive, of                              *)
(* scripts/benchmark_adapters/beir_scifact_acquire.py: commands that may   *)
(* run at the same time and end at every step download the archive into a  *)
(* shared cache, extract it beside the target directory and rename the     *)
(* whole onto it, while a user may write into that directory.              *)
(***************************************************************************)

CONSTANTS
    Acquirers,   \* commands
    Files,       \* of the archive, EXPECTED_LAYOUT among them
    Theirs,      \* a file of the user
    Missing      \* no such directory

ASSUME AcquireAssumption ==
    /\ Theirs \notin Files /\ Files # {}
    /\ \A S \in SUBSET (Files \cup {Theirs}) : Missing # S

VARIABLES
    cache,     \* the cached archive: "none", "official", or "other", of another digest
    target,    \* the files of extract_dir
    wrote,     \* whether the user has put Theirs into it
    temp,      \* what each command has beside them: a "download", a "manifest", or a
               \* "directory" and the files in it
    step,      \* of each command, or how it ended
    cut,       \* the commands that were killed, or interrupted after the download
    manifest   \* the commands whose run manifest is there, of which the last counts

acquireVars == <<cache, target, wrote, temp, step, cut, manifest>>

Ends == {"done", "failed"}
Directories == SUBSET (Files \cup {Theirs})

AcquireInit ==
    /\ cache \in {"none", "official", "other"}
    /\ target \in {Missing, {}, {Theirs}} /\ wrote = (target = {Theirs})
    /\ temp = [a \in Acquirers |-> {}]
    /\ step = [a \in Acquirers |-> "start"]
    /\ cut = {} /\ manifest = {}

\* The command goes on to a step with what it has beside the target, or gives up
Go(a, s, t) == step' = [step EXCEPT ![a] = s] /\ temp' = [temp EXCEPT ![a] = t]
Fail(a) == Go(a, "failed", {})

-----------------------------------------------------------------------------
(* The archive *)

\* _require_empty_or_missing_target
Empty == target \in {Missing, {}}

\* A cached archive is hashed, and only the official one is used; none is downloaded
Begin(a) ==
    /\ step[a] = "start"
    /\ IF ~Empty \/ cache = "other" THEN Fail(a)
       ELSE IF cache = "official" THEN Go(a, "extract", {})
       ELSE Go(a, "download", {"download"})
    /\ UNCHANGED <<cache, target, wrote, cut, manifest>>

\* The temporary file replaces the cached one when its digest is right; it is removed after
\* every exception, an interrupt too
Download(a) ==
    /\ step[a] = "download"
    /\ \/ cache' = "official" /\ Go(a, "extract", {})
       \/ UNCHANGED cache /\ Fail(a)
    /\ UNCHANGED <<target, wrote, cut, manifest>>

-----------------------------------------------------------------------------
(* The directory *)

MakeTemp(a) ==
    /\ step[a] = "extract"
    /\ IF Empty THEN Go(a, "members", {"directory"}) ELSE Fail(a)
    /\ UNCHANGED <<cache, target, wrote, cut, manifest>>

ExtractMember(a) ==
    /\ step[a] = "members"
    /\ \E f \in Files \ temp[a] : Go(a, "members", temp[a] \cup {f})
    /\ UNCHANGED <<cache, target, wrote, cut, manifest>>

\* A plan or a member that is refused, or fails
ExtractFails(a) ==
    /\ step[a] = "members"
    /\ Fail(a)
    /\ UNCHANGED <<cache, target, wrote, cut, manifest>>

\* Mutant: the target is removed with what is in it
RemoveTree(a) ==
    /\ step[a] = "members" /\ Files \subseteq temp[a]
    /\ target' = Missing /\ Go(a, "publish", temp[a])
    /\ UNCHANGED <<cache, wrote, cut, manifest>>

\* The whole layout is there; an empty target is removed, and one that is not empty any more
\* cannot be
RemoveEmpty(a) ==
    /\ step[a] = "members" /\ Files \subseteq temp[a]
    /\ IF Empty THEN target' = Missing /\ Go(a, "publish", temp[a])
                ELSE UNCHANGED target /\ Fail(a)
    /\ UNCHANGED <<cache, wrote, cut, manifest>>

\* The directory is renamed, onto nothing or an empty directory
Publish(a) ==
    /\ step[a] = "publish"
    /\ IF Empty THEN target' = temp[a] \cap Files /\ Go(a, "manifest", {})
                ELSE UNCHANGED target /\ Fail(a)
    /\ UNCHANGED <<cache, wrote, cut, manifest>>

-----------------------------------------------------------------------------
(* The run manifest *)

BeginManifest(a) ==
    /\ step[a] = "manifest"
    /\ Go(a, "writing", {"manifest"}) \/ Go(a, "done", {}) \/ Fail(a)
    /\ UNCHANGED <<cache, target, wrote, cut, manifest>>

WriteManifest(a) ==
    /\ step[a] = "writing"
    /\ \/ manifest' = manifest \cup {a} /\ Go(a, "done", {})
       \/ UNCHANGED manifest /\ Fail(a)
    /\ UNCHANGED <<cache, target, wrote, cut>>

-----------------------------------------------------------------------------
(* What comes in between *)

\* The command is killed anywhere, or interrupted where only an Exception is cleaned up after
Cut(a) ==
    /\ step[a] \notin Ends \cup {"start"}
    /\ Go(a, "failed", temp[a])
    /\ cut' = cut \cup {a}
    /\ UNCHANGED <<cache, target, wrote, manifest>>

UserWrites ==
    /\ ~wrote /\ wrote' = TRUE
    /\ target' = IF target = Missing THEN {Theirs} ELSE target \cup {Theirs}
    /\ UNCHANGED <<cache, temp, step, cut, manifest>>

Command(a) ==
    \/ Begin(a) \/ Download(a)
    \/ MakeTemp(a) \/ ExtractMember(a) \/ ExtractFails(a) \/ RemoveEmpty(a) \/ Publish(a)
    \/ BeginManifest(a) \/ WriteManifest(a)

AcquireNext == UserWrites \/ \E a \in Acquirers : Command(a) \/ Cut(a)

-----------------------------------------------------------------------------
(* Properties *)

Published(a) == step[a] \in {"manifest", "writing", "done"}

\* A directory is there whole or not at all, whoever was killed or came second, one command
\* at most has put it there, and what the user wrote stays.
TargetWhole ==
    /\ target # Missing => target \ {Theirs} \in {{}, Files}
    /\ wrote => target # Missing /\ Theirs \in target
    /\ \A a, b \in Acquirers : Published(a) /\ Published(b) => a = b
    /\ \A a \in Acquirers : step[a] = "done" => target # Missing /\ Files \subseteq target

\* "partial extract is removed" (tests/test_beir_scifact_acquire.py): a command that ends by
\* itself leaves nothing beside its target and its cache.
LeftByCut == \A a \in Acquirers : step[a] \in Ends /\ temp[a] # {} => a \in cut
=============================================================================
