-------------------------- MODULE InstanceRegistry --------------------------
(* The registry of local instances (instances.py, and serve in cli.py). A server writes a record  *)
(* of itself before it binds its endpoint and removes it when it stops; `llmwiki-serve ls` reads  *)
(* the records, compares them with the processes that run, removes stale ones on request, and     *)
(* adds the servers that only the process table shows.                                            *)
(*                                                                                                *)
(* A record is a file named after its endpoint and pid, and holds the create time of its process. *)
(* A pid is reused once its process has ended. Processes come and go between any two steps of the *)
(* others.                                                                                        *)
EXTENDS Naturals, FiniteSets

CONSTANTS
    Pids,
    Endpoints,      \* host and port
    None,           \* no process, or no endpoint
    MaxStarts,      \* bound: processes started
    MaxFaults       \* bound: failures to change the registry or to read the process table

ASSUME RegistryAssumption ==
    /\ None \notin Pids \cup Endpoints
    /\ MaxStarts \in Nat
    /\ MaxFaults \in Nat

VARIABLES
    born,           \* pid -> create time of the process that runs, 0 when none does
    phase,          \* pid -> what the process is doing
    at,             \* pid -> the endpoint in its arguments
    replaced,       \* pid -> the records it still has to remove before it writes its own
    registered,     \* the processes that know the path of their record
    opaque,         \* the processes whose create time may not be read
    registry,       \* endpoint -> pid -> create time in the record, 0 when there is no record
    listener,       \* endpoint -> the process listening on it
    starts, faults,
    stage,          \* what the listing is doing
    prune,          \* --prune-stale
    stored,         \* the records the listing has still to judge
    seen,           \* the record whose pid it saw run
    doomed,         \* the records it is about to remove
    table,          \* endpoint -> the serve processes with it in their arguments
    sockets,        \* endpoint -> the listener the listing saw
    listed,         \* the instances to report
    degraded,       \* the process table or the sockets could not be read
    steady,         \* servers that have been listening since the listing began
    fresh           \* records written since the listing read the registry

processes == <<born, phase, at, replaced, registered, opaque, listener>>
listing == <<stage, prune, stored, seen, doomed, table, sockets, listed, degraded>>
vars == <<processes, registry, starts, faults, listing, steady, fresh>>

Files == Endpoints \X Pids
Serving == {"register", "replace", "bind", "serve", "stop"}
Phases == {"off", "other"} \cup Serving
Stages == {"idle", "processes", "sockets", "judge", "identify", "unlink", "failed", "report"}

NoRecords == [e \in Endpoints |-> [p \in Pids |-> 0]]
NoSockets == [e \in Endpoints |-> None]
Recorded(records) == {f \in Files : records[f[1]][f[2]] # 0}
Without(records, f) == [records EXCEPT ![f[1]][f[2]] = 0]

Init ==
    /\ born = [p \in Pids |-> 0]
    /\ phase = [p \in Pids |-> "off"]
    /\ at = [p \in Pids |-> None]
    /\ replaced = [p \in Pids |-> {}]
    /\ registered = {} /\ opaque = {}
    /\ registry = NoRecords
    /\ listener = NoSockets
    /\ starts = 0 /\ faults = 0
    /\ stage = "idle" /\ prune = FALSE
    /\ stored = NoRecords /\ seen = {} /\ doomed = {}
    /\ table = [e \in Endpoints |-> {}]
    /\ sockets = NoSockets
    /\ listed = {} /\ degraded = FALSE
    /\ steady = {} /\ fresh = {}

-----------------------------------------------------------------------------
(* A server *)

Begins(p, as) ==
    /\ born[p] = 0
    /\ starts < MaxStarts
    /\ starts' = starts + 1
    /\ born' = [born EXCEPT ![p] = starts + 1]
    /\ phase' = [phase EXCEPT ![p] = as]

StartServe(p, e) ==
    /\ Begins(p, "register")
    /\ at' = [at EXCEPT ![p] = e]
    /\ UNCHANGED <<replaced, registered, opaque, registry, listener, faults, listing, steady, fresh>>

\* cleanup_replaced_records looks for records of this pid or this endpoint
Replaces(p, f) == f[2] = p \/ f[1] = at[p]

FindReplaced(p) ==
    /\ phase[p] = "register"
    /\ replaced' = [replaced EXCEPT ![p] = {f \in Recorded(registry) : Replaces(p, f)}]
    /\ phase' = [phase EXCEPT ![p] = "replace"]
    /\ UNCHANGED <<born, at, registered, opaque, registry, listener, starts, faults, listing,
                   steady, fresh>>

RemoveReplaced(p, f) ==
    /\ phase[p] = "replace"
    /\ f \in replaced[p]
    /\ registry' = Without(registry, f)
    /\ replaced' = [replaced EXCEPT ![p] = @ \ {f}]
    /\ UNCHANGED <<born, phase, at, registered, opaque, listener, starts, faults, listing, steady,
                   fresh>>

WriteRecord(p) ==
    /\ phase[p] = "replace"
    /\ replaced[p] = {}
    /\ registry' = [registry EXCEPT ![at[p]][p] = born[p]]
    /\ registered' = registered \cup {p}
    /\ fresh' = IF stage = "idle" THEN fresh ELSE fresh \cup {<<at[p], p>>}
    /\ phase' = [phase EXCEPT ![p] = "bind"]
    /\ UNCHANGED <<born, at, replaced, opaque, listener, starts, faults, listing, steady>>

\* An OSError is reported, and the server goes on without a record
RegisterFails(p) ==
    /\ phase[p] \in {"register", "replace"}
    /\ faults < MaxFaults
    /\ faults' = faults + 1
    /\ replaced' = [replaced EXCEPT ![p] = {}]
    /\ phase' = [phase EXCEPT ![p] = "bind"]
    /\ UNCHANGED <<born, at, registered, opaque, registry, listener, starts, listing, steady, fresh>>

\* uvicorn.run binds the endpoint, or gives up when another process listens on it
Bind(p) ==
    /\ phase[p] = "bind"
    /\ IF listener[at[p]] = None
       THEN /\ listener' = [listener EXCEPT ![at[p]] = p]
            /\ phase' = [phase EXCEPT ![p] = "serve"]
       ELSE /\ phase' = [phase EXCEPT ![p] = "stop"]
            /\ UNCHANGED listener
    /\ UNCHANGED <<born, at, replaced, registered, opaque, registry, starts, faults, listing,
                   steady, fresh>>

Freed(p) == [e \in Endpoints |-> IF listener[e] = p THEN None ELSE listener[e]]

Stop(p) ==
    /\ phase[p] = "serve"
    /\ listener' = Freed(p)
    /\ phase' = [phase EXCEPT ![p] = "stop"]
    /\ steady' = steady \ {p}
    /\ UNCHANGED <<born, at, replaced, registered, opaque, registry, starts, faults, listing, fresh>>

Ends(p) ==
    /\ born' = [born EXCEPT ![p] = 0]
    /\ phase' = [phase EXCEPT ![p] = "off"]
    /\ at' = [at EXCEPT ![p] = None]
    /\ replaced' = [replaced EXCEPT ![p] = {}]
    /\ registered' = registered \ {p}
    /\ opaque' = opaque \ {p}
    /\ listener' = Freed(p)
    /\ steady' = steady \ {p}

\* The record stays when it cannot be removed
Unregister(p) ==
    /\ phase[p] = "stop"
    /\ \/ /\ registry' = IF p \in registered THEN Without(registry, <<at[p], p>>) ELSE registry
          /\ UNCHANGED faults
       \/ /\ p \in registered /\ faults < MaxFaults
          /\ faults' = faults + 1
          /\ UNCHANGED registry
    /\ Ends(p)
    /\ UNCHANGED <<starts, listing, fresh>>

-----------------------------------------------------------------------------
(* The operating system *)

\* Some other program, which may listen on a free endpoint and may hide its create time
StartOther(p, e, hidden) ==
    /\ Begins(p, "other")
    /\ IF e = None THEN UNCHANGED listener
       ELSE listener[e] = None /\ listener' = [listener EXCEPT ![e] = p]
    /\ opaque' = IF hidden THEN opaque \cup {p} ELSE opaque
    /\ UNCHANGED <<at, replaced, registered, registry, faults, listing, steady, fresh>>

\* The process is killed, or the other program ends
Kill(p) ==
    /\ born[p] # 0
    /\ Ends(p)
    /\ UNCHANGED <<registry, starts, faults, listing, fresh>>

-----------------------------------------------------------------------------
(* A listing: discover_local_instances *)

ReadRecords(pruning) ==
    /\ stage = "idle"
    /\ stored' = registry
    /\ prune' = pruning
    /\ stage' = "processes"
    /\ steady' = {p \in Pids : phase[p] = "serve"}
    /\ UNCHANGED <<processes, registry, starts, faults, seen, doomed, table, sockets, listed,
                   degraded, fresh>>

\* parse_serve_process_candidate reads the endpoint from the arguments
Candidates(e) == {p \in Pids : phase[p] \in Serving /\ at[p] = e}

ReadProcesses ==
    /\ stage = "processes"
    /\ \/ /\ table' = [e \in Endpoints |-> Candidates(e)]
          /\ UNCHANGED <<faults, degraded>>
       \/ /\ faults < MaxFaults
          /\ faults' = faults + 1
          /\ degraded' = TRUE
          /\ UNCHANGED table
    /\ stage' = "sockets"
    /\ UNCHANGED <<processes, registry, starts, prune, stored, seen, doomed, sockets, listed,
                   steady, fresh>>

ReadSockets ==
    /\ stage = "sockets"
    /\ \/ /\ sockets' = listener
          /\ UNCHANGED <<faults, degraded>>
       \/ /\ faults < MaxFaults
          /\ faults' = faults + 1
          /\ degraded' = TRUE
          /\ UNCHANGED sockets
    /\ stage' = "judge"
    /\ UNCHANGED <<processes, registry, starts, prune, stored, seen, doomed, table, listed, steady,
                   fresh>>

\* Mutant: any process that has the pid is the one that wrote the record
RunningPid(e, p) == TRUE

\* Mutant: a server that does not listen does not run
RunningListener(e, p) == listener[e] = p

\* The process of a pid seen to run has the create time of the record, or none that can be read:
\* it hides it, or has ended since
Running(e, p) == p \in opaque \/ born[p] \in {0, stored[e][p]}

\* The pid to show: that of the listener, when it is another process that runs
ShownPid(e, p) == IF sockets[e] # None /\ born[sockets[e]] # 0 THEN sockets[e] ELSE p

\* /health is answered by a server that listens on the endpoint, if it answers in time
MayAnswer(e) == \E p \in Pids : listener[e] = p /\ phase[p] = "serve"

\* Another service than llmwiki-serve answers
Foreign(e) == \E p \in Pids : listener[e] = p /\ phase[p] = "other"

Entry(e, p, status, source) == [endpoint |-> e, pid |-> p, status |-> status, source |-> source]

\* process_is_running, before current_process_create_time
SeeRunning(e, p) ==
    /\ stage = "judge"
    /\ stored[e][p] # 0
    /\ born[p] # 0
    /\ seen' = {<<e, p>>}
    /\ stage' = "identify"
    /\ UNCHANGED <<processes, registry, starts, faults, prune, stored, doomed, table, sockets,
                   listed, degraded, steady, fresh>>

JudgeRunning(e, p) ==
    /\ stage = "identify"
    /\ <<e, p>> \in seen
    /\ Running(e, p)
    /\ \E status \in {"healthy", "unhealthy"} :
        /\ (status = "healthy") => MayAnswer(e)
        /\ listed' = listed \cup {Entry(e, ShownPid(e, p), status, "registry")}
    /\ stored' = Without(stored, <<e, p>>)
    /\ seen' = {}
    /\ stage' = "judge"
    /\ UNCHANGED <<processes, registry, starts, faults, prune, doomed, table, sockets, degraded,
                   steady, fresh>>

JudgeStale(e, p) ==
    /\ stored[e][p] # 0
    /\ \/ stage = "judge" /\ born[p] = 0
       \/ stage = "identify" /\ <<e, p>> \in seen /\ ~Running(e, p)
    /\ listed' = listed \cup {Entry(e, p, "stale", "registry")}
    /\ doomed' = IF prune THEN {<<e, p>>} ELSE {}
    /\ stage' = IF prune THEN "unlink" ELSE "judge"
    /\ stored' = Without(stored, <<e, p>>)
    /\ seen' = {}
    /\ UNCHANGED <<processes, registry, starts, faults, prune, table, sockets, degraded, steady,
                   fresh>>

\* unregister_instance, which takes only a file that is gone for removed
PruneRecord(f) ==
    /\ stage = "unlink"
    /\ f \in doomed
    /\ \/ registry' = Without(registry, f) /\ stage' = "judge" /\ UNCHANGED faults
       \/ /\ registry[f[1]][f[2]] # 0 /\ faults < MaxFaults
          /\ faults' = faults + 1
          /\ stage' = "failed"
          /\ UNCHANGED registry
    /\ doomed' = {}
    /\ UNCHANGED <<processes, starts, prune, stored, seen, table, sockets, listed, degraded,
                   steady, fresh>>

\* Counting the endpoints of stale records
ActiveOrStale == {x.endpoint : x \in listed}

\* active_endpoint_keys
Active == {x.endpoint : x \in {y \in listed : y.status # "stale"}}

\* select_endpoint_candidate: the listener, whether or not it is one of the candidates
Selected(e) == IF sockets[e] # None THEN {sockets[e]} ELSE table[e]

\* An endpoint whose listener was seen is probed. Another service that answers is left out; a
\* server is healthy if it answers in time, and is listed as unhealthy otherwise.
ProbeCandidates ==
    /\ stage = "judge"
    /\ stored = NoRecords
    /\ \E infos \in SUBSET {Entry(e, p, status, "process") :
                            e \in Endpoints, p \in Pids, status \in {"healthy", "unhealthy"}} :
        /\ \A x \in infos :
            /\ x.endpoint \notin Active
            /\ table[x.endpoint] # {}
            /\ x.pid \in Selected(x.endpoint)
            /\ (x.status = "healthy") => sockets[x.endpoint] # None /\ MayAnswer(x.endpoint)
            /\ \A y \in infos : y.endpoint = x.endpoint => y = x
        /\ \A e \in Endpoints \ Active :
            (table[e] # {} /\ \A x \in infos : x.endpoint # e) => sockets[e] # None /\ Foreign(e)
        /\ listed' = listed \cup infos
    /\ stage' = "report"
    /\ UNCHANGED <<processes, registry, starts, faults, prune, stored, seen, doomed, table, sockets,
                   degraded, steady, fresh>>

\* The command prints its report, or the error that ended it
Report ==
    /\ stage \in {"report", "failed"}
    /\ stage' = "idle" /\ prune' = FALSE
    /\ stored' = NoRecords
    /\ table' = [e \in Endpoints |-> {}]
    /\ sockets' = NoSockets
    /\ listed' = {} /\ degraded' = FALSE
    /\ steady' = {} /\ fresh' = {}
    /\ UNCHANGED <<processes, registry, starts, faults, seen, doomed>>

-----------------------------------------------------------------------------

Server(p) ==
    \/ FindReplaced(p)
    \/ \E f \in Files : RemoveReplaced(p, f)
    \/ WriteRecord(p)
    \/ RegisterFails(p)
    \/ Bind(p)
    \/ Stop(p)
    \/ Unregister(p)

Lister ==
    \/ ReadProcesses
    \/ ReadSockets
    \/ \E e \in Endpoints, p \in Pids : SeeRunning(e, p) \/ JudgeRunning(e, p) \/ JudgeStale(e, p)
    \/ \E f \in Files : PruneRecord(f)
    \/ ProbeCandidates
    \/ Report

Next ==
    \/ \E p \in Pids, e \in Endpoints : StartServe(p, e)
    \/ \E p \in Pids : Server(p)
    \/ \E p \in Pids, e \in Endpoints \cup {None}, hidden \in BOOLEAN : StartOther(p, e, hidden)
    \/ \E p \in Pids : Kill(p)
    \/ \E pruning \in BOOLEAN : ReadRecords(pruning)
    \/ Lister

\* A listing that has begun goes on: its probes have time limits
Spec == Init /\ [][Next]_vars /\ WF_vars(Lister)

-----------------------------------------------------------------------------
(* Properties *)

TypeOK ==
    /\ born \in [Pids -> 0..MaxStarts]
    /\ phase \in [Pids -> Phases]
    /\ at \in [Pids -> Endpoints \cup {None}]
    /\ \A p \in Pids : phase[p] \in Serving => at[p] # None
    /\ replaced \in [Pids -> SUBSET Files]
    /\ registered \subseteq Pids
    /\ opaque \subseteq Pids
    /\ registry \in [Endpoints -> [Pids -> 0..MaxStarts]]
    /\ listener \in [Endpoints -> Pids \cup {None}]
    /\ starts \in 0..MaxStarts
    /\ faults \in 0..MaxFaults
    /\ stage \in Stages
    /\ prune \in BOOLEAN
    /\ stored \in [Endpoints -> [Pids -> 0..MaxStarts]]
    /\ seen \subseteq Files
    /\ doomed \subseteq Files
    /\ table \in [Endpoints -> SUBSET Pids]
    /\ sockets \in [Endpoints -> Pids \cup {None}]
    /\ listed \subseteq [endpoint : Endpoints, pid : Pids,
                         status : {"healthy", "unhealthy", "stale"},
                         source : {"registry", "process"}]
    /\ degraded \in BOOLEAN
    /\ steady \subseteq Pids
    /\ fresh \subseteq Files

\* A pid never has two records, whatever endpoint the processes that had it before served and
\* however they ended: cleanup_replaced_records removes what a killed process left.
OneRecordPerPid ==
    \A p \in Pids : \A e1, e2 \in Endpoints :
        registry[e1][p] # 0 /\ registry[e2][p] # 0 => e1 = e2

\* The record of a process that runs is only removed by that process as it stops, by a process
\* that registers for the same endpoint, or by a listing that read the registry before the record
\* was written (a pid reused for the same endpoint): --prune-stale removes stale records only.
RunningKeepsRecord ==
    [][\A e \in Endpoints, p \in Pids :
        registry[e][p] # 0 /\ registry[e][p] = born[p] /\ registry'[e][p] = 0 =>
            \/ phase[p] = "stop"
            \/ \E q \in Pids \ {p} : phase[q] = "replace" /\ at[q] = e
            \/ stage = "unlink" /\ <<e, p>> \in doomed \cap fresh]_registry

\* A server that listens for as long as the listing takes is listed, with its own pid, however
\* its record was lost and whatever stale records there are (active_endpoint_keys and
\* listener-pid-corrected), as long as the process table and the sockets can be read.
ServersAreListed ==
    stage = "report" /\ ~degraded =>
        \A p \in steady :
            LET shown == {x \in listed : x.endpoint = at[p] /\ x.status # "stale"} IN
            shown # {} /\ \A x \in shown : x.pid = p

\* A pid seen to run was that of another process than the record's, which has ended since: no
\* create time tells it from the one that wrote the record
Vanished(e, p) == stage = "identify" /\ <<e, p>> \in seen /\ born[p] = 0

\* --prune-stale removes every record whose process had ended when the registry was read, also
\* when another process has its pid, unless that process hides its create time or ends between
\* the two looks at it, or the command fails to remove a record and ends there.
StaleRecordsGo ==
    \A e \in Endpoints, p \in Pids :
        (prune /\ stored[e][p] = registry[e][p] /\ stored[e][p] \notin {0, born[p]})
            ~> (registry[e][p] \in {0, born[p]} \/ p \in opaque \/ Vanished(e, p)
                \/ stage = "failed")
=============================================================================
