------------------------- MODULE MCInstanceRegistry -------------------------
(* The registry with two pids, two endpoints and three processes, listed with --prune-stale.      *)
EXTENDS InstanceRegistry

CONSTANTS FirstPid, FirstEndpoint

\* Pids are alike, and so are endpoints: the first process to start takes the first of each, which
\* only leaves out what differs by their names.
FirstComesFirst ==
    starts = 0 /\ starts' = 1 =>
        /\ born'[FirstPid] # 0
        /\ at'[FirstPid] \in {FirstEndpoint, None}
        /\ \A e \in Endpoints \ {FirstEndpoint} : listener'[e] = None

\* Bounds: the third process does not start in the course of a listing, and nothing fails any more
\* once it has; and a listing prunes.
ThirdWaits == starts = 2 /\ starts' = 3 => stage = "idle"
FaultsBeforeThird == starts = 3 => faults' = faults
AlwaysPrunes == stage = "idle" /\ stage' # "idle" => prune'

MCNext == Next /\ FirstComesFirst /\ ThirdWaits /\ FaultsBeforeThird /\ AlwaysPrunes
MCSpec == Init /\ [][MCNext]_vars /\ WF_vars(Lister)
=============================================================================
