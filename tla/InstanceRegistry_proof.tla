----------------------- MODULE InstanceRegistry_proof -----------------------
(* A pid has at most one record, a listing only removes the records of processes that ended, and  *)
(* it lists the servers that listen, for any number of pids, endpoints and processes; the answers *)
(* of a server, for any number of requests and publications; the headers of what it forwards; and *)
(* the tools it lists and the calls its surfaces parse, for any bounds, settings and values.      *)
EXTENDS InstanceRegistry, Serving, McpStream, SurfaceCalls, WellFoundedInduction, TLAPS

\* Create times come from one counter, so that a new process differs from all earlier ones
Births ==
    /\ \A p \in Pids : born[p] <= starts /\ (born[p] = 0 => phase[p] = "off")
    /\ \A e \in Endpoints, p \in Pids : registry[e][p] <= starts

\* A process that has not written its record yet has none, and is about to remove what is left
\* of earlier processes with its pid
NotYet ==
    \A p \in Pids :
        /\ phase[p] \in {"register", "replace"} =>
            \A e \in Endpoints : registry[e][p] # 0 => registry[e][p] # born[p]
        /\ phase[p] = "replace" =>
            \A e \in Endpoints : registry[e][p] # 0 => <<e, p>> \in replaced[p]

\* What a process is about to remove has its pid or its endpoint
Replacing == \A p \in Pids : \A f \in replaced[p] : phase[p] = "replace" /\ Replaces(p, f)

\* A record the listing has still to judge is as it was read, unless it was removed or rewritten
Unchanged ==
    \A e \in Endpoints, p \in Pids :
        stored[e][p] # 0 /\ <<e, p>> \notin fresh => registry[e][p] \in {0, stored[e][p]}

\* A record about to be pruned is that of a process that ended, unless it was rewritten
Ended ==
    \A e \in Endpoints, p \in Pids :
        <<e, p>> \in doomed \ fresh /\ registry[e][p] # 0 => registry[e][p] # born[p]

\* There is nothing left to judge after a listing, and nothing to prune but what was just judged
Idle ==
    /\ stage \in {"idle", "report"} => stored = NoRecords
    /\ stage # "unlink" => doomed = {}

RInv == TypeOK /\ OneRecordPerPid /\ Births /\ NotYet /\ Replacing /\ Unchanged /\ Ended /\ Idle

-----------------------------------------------------------------------------

\* Removing a file leaves the others.
LEMMA WithoutOne ==
    ASSUME NEW records \in [Endpoints -> [Pids -> 0..MaxStarts]], NEW f \in Files
    PROVE /\ Without(records, f) \in [Endpoints -> [Pids -> 0..MaxStarts]]
          /\ \A e \in Endpoints, p \in Pids :
                Without(records, f)[e][p] = IF <<e, p>> = f THEN 0 ELSE records[e][p]
<1> 0 \in 0..MaxStarts
  BY RegistryAssumption
<1> QED
  BY DEF Without, Files

\* Removing a file adds none.
LEMMA WithoutAny ==
    ASSUME NEW records \in [Endpoints -> [Pids -> 0..MaxStarts]], NEW f \in Files
    PROVE \A e \in Endpoints, p \in Pids : Without(records, f)[e][p] \in {0, records[e][p]}
  BY WithoutOne

\* A registry nobody has used yet satisfies the invariant.
LEMMA RInitInv == Init => RInv
<1> SUFFICES ASSUME Init PROVE RInv
  OBVIOUS
<1>1. TypeOK
  <2>1. /\ 0 \in 0..MaxStarts /\ 0 \in 0..MaxFaults
        /\ \A p \in Pids : phase[p] = "off"
    BY RegistryAssumption DEF Init
  <2>2. /\ registry \in [Endpoints -> [Pids -> 0..MaxStarts]]
        /\ stored \in [Endpoints -> [Pids -> 0..MaxStarts]]
    BY <2>1 DEF Init, NoRecords
  <2>3. /\ listener \in [Endpoints -> Pids \cup {None}]
        /\ sockets \in [Endpoints -> Pids \cup {None}]
        /\ at \in [Pids -> Endpoints \cup {None}]
        /\ table \in [Endpoints -> SUBSET Pids]
    BY DEF Init, NoSockets
  <2>4. /\ replaced \in [Pids -> SUBSET Files]
        /\ phase \in [Pids -> Phases]
        /\ born \in [Pids -> 0..MaxStarts]
    BY <2>1 DEF Init, Phases
  <2>5. QED
    BY <2>1, <2>2, <2>3, <2>4 DEF Init, TypeOK, Serving, Stages
<1>2. OneRecordPerPid /\ Births /\ NotYet /\ Replacing
  BY RegistryAssumption
  DEF Init, OneRecordPerPid, Births, NotYet, Replacing, NoRecords, Serving
<1>3. Unchanged /\ Ended /\ Idle
  BY DEF Init, Unchanged, Ended, Idle, NoRecords
<1>4. QED
  BY <1>1, <1>2, <1>3 DEF RInv

-----------------------------------------------------------------------------

\* A process that ends leaves everything but its record as it was before it began.
LEMMA EndsTypes ==
    ASSUME TypeOK, NEW p \in Pids, Ends(p)
    PROVE /\ born' \in [Pids -> 0..MaxStarts]
          /\ phase' \in [Pids -> Phases]
          /\ at' \in [Pids -> Endpoints \cup {None}]
          /\ \A q \in Pids : phase'[q] \in Serving => at'[q] # None
          /\ replaced' \in [Pids -> SUBSET Files]
          /\ registered' \subseteq Pids
          /\ opaque' \subseteq Pids
          /\ listener' \in [Endpoints -> Pids \cup {None}]
          /\ steady' \subseteq Pids
  BY RegistryAssumption DEF TypeOK, Ends, Freed, Phases, Serving

\* A process that begins is the youngest.
LEMMA BeginsTypes ==
    ASSUME TypeOK, NEW p \in Pids, NEW as \in Phases, Begins(p, as)
    PROVE /\ starts' \in 0..MaxStarts
          /\ born' \in [Pids -> 0..MaxStarts]
          /\ phase' = [phase EXCEPT ![p] = as]
          /\ phase' \in [Pids -> Phases]
<1>1. starts + 1 \in 0..MaxStarts
  BY RegistryAssumption DEF TypeOK, Begins
<1>2. QED
  BY <1>1 DEF TypeOK, Begins

\* Moving on to another step keeps the phases and the places of the servers.
LEMMA PhaseTypes ==
    ASSUME TypeOK, NEW p \in Pids, phase[p] \in Serving, NEW as \in Serving,
           phase' = [phase EXCEPT ![p] = as], at' = at
    PROVE /\ phase' \in [Pids -> Phases]
          /\ at' \in [Pids -> Endpoints \cup {None}]
          /\ \A q \in Pids : phase'[q] \in Serving => at'[q] # None
  BY DEF TypeOK, Phases

\* Every step of a server keeps the types.
LEMMA ServerTypes == ASSUME TypeOK, NEW p \in Pids, Server(p) PROVE TypeOK'
<1> USE RegistryAssumption DEF processes, listing
<1>1. CASE FindReplaced(p)
  <2>1. /\ phase' \in [Pids -> Phases]
        /\ \A q \in Pids : phase'[q] \in Serving => at'[q] # None
    BY <1>1, PhaseTypes DEF FindReplaced, Serving
  <2>2. replaced' \in [Pids -> SUBSET Files]
    BY <1>1 DEF TypeOK, FindReplaced, Recorded
  <2>3. QED
    BY <1>1, <2>1, <2>2 DEF TypeOK, FindReplaced
<1>2. ASSUME NEW f \in Files, RemoveReplaced(p, f) PROVE TypeOK'
  <2>1. registry' \in [Endpoints -> [Pids -> 0..MaxStarts]]
    BY <1>2, WithoutOne DEF TypeOK, RemoveReplaced
  <2>2. replaced' \in [Pids -> SUBSET Files]
    BY <1>2 DEF TypeOK, RemoveReplaced
  <2>3. QED
    BY <1>2, <2>1, <2>2 DEF TypeOK, RemoveReplaced
<1>3. CASE WriteRecord(p)
  <2>1. /\ phase' \in [Pids -> Phases]
        /\ \A q \in Pids : phase'[q] \in Serving => at'[q] # None
    BY <1>3, PhaseTypes DEF WriteRecord, Serving
  <2>2. at[p] \in Endpoints /\ born[p] \in 0..MaxStarts
    BY <1>3 DEF TypeOK, WriteRecord, Serving
  <2>3. registry' \in [Endpoints -> [Pids -> 0..MaxStarts]]
    BY <1>3, <2>2 DEF TypeOK, WriteRecord
  <2>4. fresh' \subseteq Files
    BY <1>3, <2>2 DEF TypeOK, WriteRecord, Files
  <2>5. QED
    BY <1>3, <2>1, <2>3, <2>4 DEF TypeOK, WriteRecord
<1>4. CASE RegisterFails(p)
  <2>1. /\ phase' \in [Pids -> Phases]
        /\ \A q \in Pids : phase'[q] \in Serving => at'[q] # None
    BY <1>4, PhaseTypes DEF RegisterFails, Serving
  <2>2. replaced' \in [Pids -> SUBSET Files] /\ faults' \in 0..MaxFaults
    BY <1>4 DEF TypeOK, RegisterFails
  <2>3. QED
    BY <1>4, <2>1, <2>2 DEF TypeOK, RegisterFails
<1>5. CASE Bind(p)
  <2>1. /\ phase' \in [Pids -> Phases]
        /\ \A q \in Pids : phase'[q] \in Serving => at'[q] # None
    BY <1>5, PhaseTypes DEF Bind, Serving
  <2>2. listener' \in [Endpoints -> Pids \cup {None}]
    BY <1>5 DEF TypeOK, Bind
  <2>3. QED
    BY <1>5, <2>1, <2>2 DEF TypeOK, Bind
<1>6. CASE Stop(p)
  <2>1. /\ phase' \in [Pids -> Phases]
        /\ \A q \in Pids : phase'[q] \in Serving => at'[q] # None
    BY <1>6, PhaseTypes DEF Stop, Serving
  <2>2. listener' \in [Endpoints -> Pids \cup {None}]
    BY <1>6 DEF TypeOK, Stop, Freed
  <2>3. QED
    BY <1>6, <2>1, <2>2 DEF TypeOK, Stop
<1>7. CASE Unregister(p)
  <2>1. <<at[p], p>> \in Files
    BY <1>7 DEF TypeOK, Unregister, Files, Serving
  <2>2. registry' \in [Endpoints -> [Pids -> 0..MaxStarts]]
    <3>1. Without(registry, <<at[p], p>>) \in [Endpoints -> [Pids -> 0..MaxStarts]]
      BY <2>1, WithoutOne DEF TypeOK
    <3>2. QED
      BY <1>7, <3>1 DEF TypeOK, Unregister
  <2>3. Ends(p) /\ UNCHANGED <<starts, listing, fresh>>
    BY <1>7 DEF Unregister
  <2>4. faults' \in 0..MaxFaults
    BY <1>7 DEF TypeOK, Unregister
  <2>5. QED
    BY <2>2, <2>3, <2>4, EndsTypes DEF TypeOK
<1>8. QED
  BY <1>1, <1>2, <1>3, <1>4, <1>5, <1>6, <1>7 DEF Server

\* Every step of a listing keeps the types.
LEMMA ListerTypes == ASSUME TypeOK, Lister PROVE TypeOK'
<1> USE RegistryAssumption DEF processes
<1>1. CASE ReadProcesses
  <2>1. table' \in [Endpoints -> SUBSET Pids]
    BY <1>1 DEF TypeOK, ReadProcesses, Candidates
  <2>2. faults' \in 0..MaxFaults
    BY <1>1 DEF TypeOK, ReadProcesses
  <2>3. degraded' \in BOOLEAN /\ stage' \in Stages
    BY <1>1 DEF TypeOK, ReadProcesses, Stages
  <2>4. QED
    BY <1>1, <2>1, <2>2, <2>3 DEF TypeOK, ReadProcesses
<1>2. CASE ReadSockets
  <2>1. sockets' \in [Endpoints -> Pids \cup {None}]
    BY <1>2 DEF TypeOK, ReadSockets
  <2>2. faults' \in 0..MaxFaults
    BY <1>2 DEF TypeOK, ReadSockets
  <2>3. degraded' \in BOOLEAN /\ stage' \in Stages
    BY <1>2 DEF TypeOK, ReadSockets, Stages
  <2>4. QED
    BY <1>2, <2>1, <2>2, <2>3 DEF TypeOK, ReadSockets
<1>3. ASSUME NEW e \in Endpoints, NEW p \in Pids, JudgeRunning(e, p) PROVE TypeOK'
  <2>1. stored' \in [Endpoints -> [Pids -> 0..MaxStarts]]
    BY <1>3, WithoutOne DEF TypeOK, JudgeRunning, Files
  <2>2. ShownPid(e, p) \in Pids
    BY DEF TypeOK, ShownPid
  <2>3. listed' \subseteq [endpoint : Endpoints, pid : Pids,
                           status : {"healthy", "unhealthy", "stale"},
                           source : {"registry", "process"}]
    BY <1>3, <2>2 DEF TypeOK, JudgeRunning, Entry
  <2>4. seen' \subseteq Files /\ stage' \in Stages
    BY <1>3 DEF JudgeRunning, Stages
  <2>5. QED
    BY <1>3, <2>1, <2>3, <2>4 DEF TypeOK, JudgeRunning
<1>4. ASSUME NEW e \in Endpoints, NEW p \in Pids, JudgeStale(e, p) PROVE TypeOK'
  <2>1. stored' \in [Endpoints -> [Pids -> 0..MaxStarts]]
    BY <1>4, WithoutOne DEF TypeOK, JudgeStale, Files
  <2>2. listed' \subseteq [endpoint : Endpoints, pid : Pids,
                           status : {"healthy", "unhealthy", "stale"},
                           source : {"registry", "process"}]
    BY <1>4 DEF TypeOK, JudgeStale, Entry
  <2>3. doomed' \subseteq Files /\ seen' \subseteq Files /\ stage' \in Stages
    BY <1>4 DEF TypeOK, JudgeStale, Files, Stages
  <2>4. QED
    BY <1>4, <2>1, <2>2, <2>3 DEF TypeOK, JudgeStale
<1>5. ASSUME NEW f \in Files, PruneRecord(f) PROVE TypeOK'
  <2>1. registry' \in [Endpoints -> [Pids -> 0..MaxStarts]]
    <3>1. Without(registry, f) \in [Endpoints -> [Pids -> 0..MaxStarts]]
      BY WithoutOne DEF TypeOK
    <3>2. QED
      BY <1>5, <3>1 DEF TypeOK, PruneRecord
  <2>2. faults' \in 0..MaxFaults /\ doomed' \subseteq Files /\ stage' \in Stages
    BY <1>5 DEF TypeOK, PruneRecord, Stages
  <2>3. QED
    BY <1>5, <2>1, <2>2 DEF TypeOK, PruneRecord
<1>6. CASE ProbeCandidates
  <2>1. listed' \subseteq [endpoint : Endpoints, pid : Pids,
                           status : {"healthy", "unhealthy", "stale"},
                           source : {"registry", "process"}]
    BY <1>6 DEF TypeOK, ProbeCandidates, Entry
  <2>2. QED
    BY <1>6, <2>1 DEF TypeOK, ProbeCandidates, Stages
<1>7. CASE Report
  <2>1. /\ table' \in [Endpoints -> SUBSET Pids]
        /\ sockets' \in [Endpoints -> Pids \cup {None}]
        /\ stored' \in [Endpoints -> [Pids -> 0..MaxStarts]]
    BY <1>7 DEF Report, NoSockets, NoRecords
  <2>2. QED
    BY <1>7, <2>1 DEF TypeOK, Report, Stages
<1>8. ASSUME NEW e \in Endpoints, NEW p \in Pids, SeeRunning(e, p) PROVE TypeOK'
  BY <1>8 DEF TypeOK, SeeRunning, Files, Stages
<1>9. QED
  BY <1>1, <1>2, <1>3, <1>4, <1>5, <1>6, <1>7, <1>8 DEF Lister

\* Every step keeps the types.
LEMMA RTypeStep == TypeOK /\ [Next]_vars => TypeOK'
<1> SUFFICES ASSUME TypeOK, [Next]_vars PROVE TypeOK'
  OBVIOUS
<1> USE RegistryAssumption DEF listing
<1>1. ASSUME NEW p \in Pids, NEW e \in Endpoints, StartServe(p, e) PROVE TypeOK'
  <2>1. Begins(p, "register") /\ "register" \in Phases
    BY <1>1 DEF StartServe, Phases, Serving
  <2>2. /\ at' \in [Pids -> Endpoints \cup {None}]
        /\ \A q \in Pids : phase'[q] \in Serving => at'[q] # None
    BY <1>1, <2>1, BeginsTypes DEF TypeOK, StartServe
  <2>3. QED
    BY <1>1, <2>1, <2>2, BeginsTypes DEF TypeOK, StartServe
<1>2. ASSUME NEW p \in Pids, NEW e \in Endpoints \cup {None}, NEW hidden \in BOOLEAN,
             StartOther(p, e, hidden)
      PROVE TypeOK'
  <2>1. Begins(p, "other") /\ "other" \in Phases
    BY <1>2 DEF StartOther, Phases
  <2>2. \A q \in Pids : phase'[q] \in Serving => at'[q] # None
    BY <1>2, <2>1, BeginsTypes DEF TypeOK, StartOther, Serving
  <2>3. listener' \in [Endpoints -> Pids \cup {None}]
    <3>1. CASE e = None
      BY <1>2, <3>1 DEF TypeOK, StartOther
    <3>2. CASE e # None
      BY <1>2, <3>2 DEF TypeOK, StartOther
    <3>3. QED
      BY <3>1, <3>2
  <2>4. opaque' \subseteq Pids
    BY <1>2 DEF TypeOK, StartOther
  <2>5. QED
    BY <1>2, <2>1, <2>2, <2>3, <2>4, BeginsTypes DEF TypeOK, StartOther
<1>3. ASSUME NEW p \in Pids, Kill(p) PROVE TypeOK'
  <2>1. Ends(p) /\ UNCHANGED <<registry, starts, faults, listing, fresh>>
    BY <1>3 DEF Kill
  <2>2. QED
    BY <2>1, EndsTypes DEF TypeOK
<1>4. ASSUME NEW pruning \in BOOLEAN, ReadRecords(pruning) PROVE TypeOK'
  BY <1>4 DEF TypeOK, ReadRecords, processes, Stages
<1>5. CASE UNCHANGED vars
  BY <1>5 DEF TypeOK, vars, processes
<1>6. QED
  BY <1>1, <1>2, <1>3, <1>4, <1>5, ServerTypes, ListerTypes DEF Next

-----------------------------------------------------------------------------

RAll == OneRecordPerPid /\ Births /\ NotYet /\ Replacing /\ Unchanged /\ Ended /\ Idle

\* The end of a process, and any removal of records, keeps the invariant.
LEMMA EndsInv ==
    ASSUME RInv, TypeOK', NEW p \in Pids, Ends(p), UNCHANGED <<starts, listing, fresh>>,
           \A e \in Endpoints, q \in Pids : registry'[e][q] \in {0, registry[e][q]}
    PROVE RAll'
<1> USE DEF listing
<1>1. /\ \A q \in Pids : q # p => born'[q] = born[q] /\ phase'[q] = phase[q] /\ at'[q] = at[q]
      /\ \A q \in Pids : q # p => replaced'[q] = replaced[q]
      /\ born'[p] = 0 /\ phase'[p] = "off" /\ replaced'[p] = {}
  BY DEF Ends, RInv, TypeOK
<1>2. OneRecordPerPid'
  BY DEF RInv, OneRecordPerPid
<1>3. Births'
  <2>1. \A q \in Pids : born'[q] \in {0, born[q]}
    BY <1>1
  <2>2. 0 <= starts /\ starts' = starts
    BY RegistryAssumption DEF RInv, TypeOK
  <2>3. QED
    BY <1>1, <2>1, <2>2 DEF RInv, Births
<1>4. (NotYet /\ Replacing)'
  BY <1>1 DEF RInv, NotYet, Replacing, Replaces
<1>5. (Unchanged /\ Idle)'
  BY DEF RInv, Unchanged, Idle
<1>6. Ended'
  BY <1>1 DEF RInv, Ended
<1>7. QED
  BY <1>2, <1>3, <1>4, <1>5, <1>6 DEF RAll

\* Every step of a server keeps the invariant: a process registers with a create time no record
\* has, and only after the records that have its pid are gone.
LEMMA ServerInv == ASSUME RInv, TypeOK', NEW p \in Pids, Server(p) PROVE RAll'
<1> USE RegistryAssumption DEF processes, listing
<1>1. CASE FindReplaced(p)
  BY <1>1, SMTT(30) DEF RInv, RAll, TypeOK, OneRecordPerPid, Births, NotYet, Replacing, Unchanged, Ended,
              Idle, FindReplaced, Recorded, Replaces, Files
<1>2. ASSUME NEW f \in Files, RemoveReplaced(p, f) PROVE RAll'
  <2>1. \A e \in Endpoints, q \in Pids :
            registry'[e][q] = IF <<e, q>> = f THEN 0 ELSE registry[e][q]
    <3>1. registry \in [Endpoints -> [Pids -> 0..MaxStarts]]
      BY DEF RInv, TypeOK
    <3>2. registry' = Without(registry, f)
      BY <1>2 DEF RemoveReplaced
    <3>3. \A e \in Endpoints, q \in Pids :
            Without(registry, f)[e][q] = IF <<e, q>> = f THEN 0 ELSE registry[e][q]
      BY <3>1, WithoutOne
    <3> HIDE RegistryAssumption
    <3> QED BY <3>2, <3>3
  <2>2. (OneRecordPerPid /\ Unchanged /\ Ended /\ Idle)'
    BY <1>2, <2>1 DEF RInv, OneRecordPerPid, Unchanged, Ended, Idle, RemoveReplaced
  <2>4. Births'
    <3>1. 0 <= starts
      BY DEF RInv, TypeOK
    <3>2. QED
      BY <1>2, <2>1, <3>1 DEF RInv, Births, RemoveReplaced
  <2>3. (NotYet /\ Replacing)'
    BY <1>2, <2>1 DEF RInv, TypeOK, NotYet, Replacing, Replaces, RemoveReplaced
  <2>5. QED
    BY <2>2, <2>3, <2>4 DEF RAll
<1>3. CASE WriteRecord(p)
  <2>1. at[p] \in Endpoints
    BY <1>3 DEF RInv, TypeOK, WriteRecord, Serving
  <2>2. \A e \in Endpoints, q \in Pids :
            registry'[e][q] = IF e = at[p] /\ q = p THEN born[p] ELSE registry[e][q]
    BY <1>3, <2>1 DEF RInv, TypeOK, WriteRecord
  <2>3. \A e \in Endpoints : registry[e][p] = 0
    BY <1>3 DEF RInv, NotYet, WriteRecord
  <2>4. (OneRecordPerPid /\ Births)'
    BY <1>3, <2>2, <2>3 DEF RInv, TypeOK, OneRecordPerPid, Births, WriteRecord
  <2>5. (NotYet /\ Replacing)'
    BY <1>3, <2>2, <2>3 DEF RInv, TypeOK, NotYet, Replacing, Replaces, WriteRecord
  <2>6. (Unchanged /\ Ended /\ Idle)'
    BY <1>3, <2>1, <2>2 DEF RInv, TypeOK, Unchanged, Ended, Idle, NoRecords, WriteRecord
  <2>7. QED
    BY <2>4, <2>5, <2>6 DEF RAll
<1>4. CASE RegisterFails(p)
  BY <1>4 DEF RInv, RAll, TypeOK, OneRecordPerPid, Births, NotYet, Replacing, Unchanged, Ended,
              Idle, RegisterFails, Replaces
<1>5. CASE Bind(p)
  <2>1. phase[p] = "bind" /\ \E as \in {"serve", "stop"} : phase' = [phase EXCEPT ![p] = as]
    BY <1>5 DEF Bind
  <2>2. UNCHANGED <<born, at, replaced, registry, starts, stage, stored, doomed, fresh>>
    BY <1>5 DEF Bind
  <2>3. \A q \in Pids : phase'[q] = phase[q] \/ (q = p /\ phase'[q] \in {"serve", "stop"})
    BY <2>1 DEF RInv, TypeOK
  <2>4. (OneRecordPerPid /\ Births)'
    <3>1. UNCHANGED <<registry, starts, born>> /\ phase[p] # "off"
      BY <2>1, <2>2
    <3>2. OneRecordPerPid'
      BY <3>1 DEF RInv, OneRecordPerPid
    <3>3. \A q \in Pids : born[q] = 0 => phase'[q] = "off"
      BY <2>3, <3>1 DEF RInv, Births
    <3>4. QED
      BY <3>1, <3>2, <3>3 DEF RInv, Births
  <2>5. NotYet'
    BY <2>2, <2>3, SMTT(30) DEF RInv, NotYet
  <2>6. Replacing'
    <3>1. \A q \in Pids : replaced'[q] # {} => phase'[q] = phase[q] /\ replaced'[q] = replaced[q]
      BY <2>1, <2>2, <2>3 DEF RInv, Replacing
    <3>2. UNCHANGED <<replaced, at>>
      BY <2>2
    <3>3. QED
      BY <3>1, <3>2 DEF RInv, Replacing, Replaces
  <2>7. (Unchanged /\ Ended /\ Idle)'
    BY <2>2, SMTT(30) DEF RInv, Unchanged, Ended, Idle
  <2>8. QED
    BY <2>4, <2>5, <2>6, <2>7 DEF RAll
<1>6. CASE Stop(p)
  BY <1>6 DEF RInv, RAll, TypeOK, OneRecordPerPid, Births, NotYet, Replacing, Unchanged, Ended,
              Idle, Stop, Replaces
<1>7. CASE Unregister(p)
  <2>1. <<at[p], p>> \in Files
    BY <1>7 DEF RInv, TypeOK, Unregister, Files, Serving
  <2>2. \A e \in Endpoints, q \in Pids : registry'[e][q] \in {0, registry[e][q]}
    <3>1. CASE p \in registered
      <4>1. registry' = Without(registry, <<at[p], p>>) \/ registry' = registry
        BY <1>7, <3>1 DEF Unregister
      <4>2. QED
        BY <2>1, <4>1, WithoutAny DEF RInv, TypeOK
    <3>2. CASE p \notin registered
      BY <1>7, <3>2 DEF Unregister
    <3>3. QED
      BY <3>1, <3>2
  <2>3. Ends(p) /\ UNCHANGED <<starts, listing, fresh>>
    BY <1>7 DEF Unregister
  <2>4. QED
    BY <2>2, <2>3, EndsInv
<1>8. QED
  BY <1>1, <1>2, <1>3, <1>4, <1>5, <1>6, <1>7 DEF Server

\* Every step of a listing keeps the invariant: what it removes, it judged by the record as it
\* still is, or as it was before it was rewritten.
LEMMA ListerInv == ASSUME RInv, TypeOK', Lister PROVE RAll'
<1> USE RegistryAssumption DEF processes
<1>1. CASE ReadProcesses \/ ReadSockets \/ ProbeCandidates
  BY <1>1 DEF RInv, RAll, OneRecordPerPid, Births, NotYet, Replacing, Unchanged, Ended, Idle,
              ReadProcesses, ReadSockets, ProbeCandidates, Replaces
<1>2. ASSUME NEW e \in Endpoints, NEW p \in Pids, JudgeRunning(e, p) PROVE RAll'
  <2>1. \A d \in Endpoints, q \in Pids : stored'[d][q] \in {0, stored[d][q]}
    <3>1. stored' = Without(stored, <<e, p>>) /\ <<e, p>> \in Files
      BY <1>2 DEF JudgeRunning, Files
    <3>2. QED
      BY <3>1, WithoutAny DEF RInv, TypeOK
  <2>2. QED
    BY <1>2, <2>1 DEF RInv, RAll, OneRecordPerPid, Births, NotYet, Replacing, Unchanged, Ended,
                      Idle, JudgeRunning, Replaces
<1>3. ASSUME NEW e \in Endpoints, NEW p \in Pids, JudgeStale(e, p) PROVE RAll'
  <2>1. \A d \in Endpoints, q \in Pids : stored'[d][q] \in {0, stored[d][q]}
    <3>1. stored' = Without(stored, <<e, p>>) /\ <<e, p>> \in Files
      BY <1>3 DEF JudgeStale, Files
    <3>2. QED
      BY <3>1, WithoutAny DEF RInv, TypeOK
  <2>2. Ended'
    BY <1>3 DEF RInv, TypeOK, Unchanged, Ended, JudgeStale, Running
  <2>3. Idle'
    BY <1>3 DEF JudgeStale, Idle
  <2>4. (OneRecordPerPid /\ Births /\ NotYet /\ Replacing /\ Unchanged)'
    BY <1>3, <2>1 DEF RInv, OneRecordPerPid, Births, NotYet, Replacing, Unchanged, JudgeStale,
                      Replaces
  <2>5. QED
    BY <2>2, <2>3, <2>4 DEF RAll
<1>4. ASSUME NEW f \in Files, PruneRecord(f) PROVE RAll'
  <2>1. \A d \in Endpoints, q \in Pids : registry'[d][q] \in {0, registry[d][q]}
    <3>1. registry' = Without(registry, f) \/ registry' = registry
      BY <1>4 DEF PruneRecord
    <3>2. QED
      BY <3>1, WithoutAny DEF RInv, TypeOK
  <2>2. (OneRecordPerPid /\ NotYet /\ Replacing)'
    BY <1>4, <2>1 DEF RInv, OneRecordPerPid, NotYet, Replacing, PruneRecord, Replaces
  <2>3. Births'
    <3>1. 0 <= starts /\ UNCHANGED <<born, phase, starts>>
      BY <1>4 DEF RInv, TypeOK, PruneRecord
    <3>2. QED
      BY <2>1, <3>1 DEF RInv, Births
  <2>4. (Unchanged /\ Ended /\ Idle)'
    BY <1>4, <2>1 DEF RInv, Unchanged, Ended, Idle, PruneRecord
  <2>5. QED
    BY <2>2, <2>3, <2>4 DEF RAll
<1>5. CASE Report
  BY <1>5 DEF RInv, RAll, OneRecordPerPid, Births, NotYet, Replacing, Unchanged, Ended, Idle,
              Report, Replaces, NoRecords
<1>6. ASSUME NEW e \in Endpoints, NEW p \in Pids, SeeRunning(e, p) PROVE RAll'
  BY <1>6 DEF RInv, RAll, OneRecordPerPid, Births, NotYet, Replacing, Unchanged, Ended, Idle,
              SeeRunning, Replaces
<1>7. QED
  BY <1>1, <1>2, <1>3, <1>4, <1>5, <1>6 DEF Lister

\* Every step keeps the invariant.
LEMMA RInvStep == RInv /\ [Next]_vars => RInv'
<1> SUFFICES ASSUME RInv, [Next]_vars PROVE RInv'
  OBVIOUS
<1>0. TypeOK'
  BY RTypeStep DEF RInv
<1> SUFFICES RAll'
  BY <1>0 DEF RInv, RAll
<1> USE RegistryAssumption DEF listing
<1>1. ASSUME NEW p \in Pids, NEW as \in {"register", "other"}, Begins(p, as), replaced' = replaced,
             UNCHANGED <<registry, listing, fresh>>, at' = at \/ \E e \in Endpoints : at' = [at EXCEPT ![p] = e]
      PROVE RAll'
  <2>1. /\ \A q \in Pids : q # p => born'[q] = born[q] /\ phase'[q] = phase[q] /\ at'[q] = at[q]
        /\ born'[p] = starts + 1 /\ phase'[p] = as /\ starts' = starts + 1 /\ born[p] = 0
    BY <1>1 DEF Begins, RInv, TypeOK
  <2>2. /\ starts \in Nat
        /\ \A q \in Pids : born[q] \in Nat
        /\ \A e \in Endpoints, q \in Pids : registry[e][q] \in Nat
    BY DEF RInv, TypeOK
  <2>3. phase[p] # "replace"
    BY <1>1 DEF RInv, Births, Begins
  <2>4. UNCHANGED <<registry, replaced, stage, stored, doomed, fresh>>
    BY <1>1
  <2>5. \A e \in Endpoints, q \in Pids : registry[e][q] <= starts + 1 /\ registry[e][q] # starts + 1
    BY <2>2 DEF RInv, Births
  <2>6. \A q \in Pids : born[q] <= starts + 1
    BY <2>2 DEF RInv, Births
  <2>7. (OneRecordPerPid /\ Unchanged /\ Idle)'
    BY <2>4 DEF RInv, OneRecordPerPid, Unchanged, Idle
  <2>8. Births'
    <3>1. starts + 1 # 0 /\ starts + 1 <= starts + 1
      BY <2>2
    <3>2. QED
      BY <2>1, <2>4, <2>5, <2>6, <3>1 DEF RInv, Births
  <2>9. NotYet'
    <3>1. ASSUME NEW q \in Pids, q # p
          PROVE /\ phase'[q] = phase[q] /\ born'[q] = born[q] /\ replaced'[q] = replaced[q]
                /\ \A e \in Endpoints : registry'[e][q] = registry[e][q]
      BY <2>1, <2>4, <3>1
    <3>2. phase'[p] # "replace" /\ \A e \in Endpoints : registry'[e][p] # born'[p]
      BY <2>1, <2>4, <2>5
    <3>3. QED
      BY <3>1, <3>2 DEF RInv, NotYet
  <2>10. Replacing'
    BY <1>1, <2>1, <2>3, <2>4 DEF RInv, Replacing, Replaces
  <2>11. Ended'
    BY <2>1, <2>4, <2>5 DEF RInv, Ended
  <2>12. QED
    BY <2>7, <2>8, <2>9, <2>10, <2>11 DEF RAll
<1>2. ASSUME NEW p \in Pids, NEW e \in Endpoints, StartServe(p, e) PROVE RAll'
  BY <1>1, <1>2 DEF StartServe
<1>3. ASSUME NEW p \in Pids, NEW e \in Endpoints \cup {None}, NEW hidden \in BOOLEAN,
             StartOther(p, e, hidden)
      PROVE RAll'
  BY <1>1, <1>3 DEF StartOther
<1>4. ASSUME NEW p \in Pids, Kill(p) PROVE RAll'
  BY <1>0, <1>4, EndsInv DEF Kill
<1>5. ASSUME NEW pruning \in BOOLEAN, ReadRecords(pruning) PROVE RAll'
  BY <1>5 DEF RInv, RAll, TypeOK, OneRecordPerPid, Births, NotYet, Replacing, Unchanged, Ended,
              Idle, ReadRecords, processes, Replaces
<1>6. CASE UNCHANGED vars
  BY <1>6 DEF vars, RInv, RAll, OneRecordPerPid, Births, NotYet, Replacing, Unchanged, Ended,
              Idle, processes, Replaces
<1>7. QED
  BY <1>0, <1>2, <1>3, <1>4, <1>5, <1>6, ServerInv, ListerInv DEF Next

-----------------------------------------------------------------------------

\* The registry, the processes and the listing keep their types.
THEOREM RegistryTypes == Spec => []TypeOK
<1>1. RInv => TypeOK
  BY DEF RInv
<1>2. QED
  BY <1>1, RInitInv, RInvStep, PTL DEF Spec

\* A pid never has two records, whatever processes had it, for any number of them.
THEOREM OneRecord == Spec => []OneRecordPerPid
<1>1. RInv => OneRecordPerPid
  BY DEF RInv
<1>2. QED
  BY <1>1, RInitInv, RInvStep, PTL DEF Spec

\* The file that was removed is the one that is gone.
LEMMA RemovedOne ==
    ASSUME RInv, NEW f \in Files, registry' = Without(registry, f),
           NEW e \in Endpoints, NEW p \in Pids, registry[e][p] # 0, registry'[e][p] = 0
    PROVE f = <<e, p>>
<1>1. registry \in [Endpoints -> [Pids -> 0..MaxStarts]]
  BY DEF RInv, TypeOK
<1>2. registry'[e][p] = IF <<e, p>> = f THEN 0 ELSE registry[e][p]
  BY <1>1, WithoutOne
<1>3. QED
  BY <1>2

\* A step that removes the record of a process that runs is one of those the property allows.
LEMMA Removals ==
    ASSUME RInv, [Next]_vars, NEW e \in Endpoints, NEW p \in Pids,
           registry[e][p] # 0, registry[e][p] = born[p], registry'[e][p] = 0
    PROVE \/ phase[p] = "stop"
          \/ \E q \in Pids \ {p} : phase[q] = "replace" /\ at[q] = e
          \/ stage = "unlink" /\ <<e, p>> \in doomed \cap fresh
<1>1. registry' # registry
  OBVIOUS
<1>2. CASE \E q \in Pids, f \in Files : RemoveReplaced(q, f)
  <2>1. PICK q \in Pids, f \in Files : RemoveReplaced(q, f)
    BY <1>2
  <2>2. phase[q] = "replace" /\ f \in replaced[q] /\ registry' = Without(registry, f)
    BY <2>1 DEF RemoveReplaced
  <2>3. f = <<e, p>>
    BY <2>2, RemovedOne
  <2>4. q # p
    BY <2>2 DEF RInv, NotYet
  <2>5. at[q] = e
    BY <2>2, <2>3, <2>4 DEF RInv, Replacing, Replaces
  <2>6. QED
    BY <2>2, <2>4, <2>5
<1>3. CASE \E q \in Pids : WriteRecord(q)
  <2>1. PICK q \in Pids : WriteRecord(q)
    BY <1>3
  <2>2. phase[q] = "replace" /\ registry' = [registry EXCEPT ![at[q]][q] = born[q]]
    BY <2>1 DEF WriteRecord
  <2>3. q = p /\ at[q] = e
    BY <2>2 DEF RInv, TypeOK
  <2>4. QED
    BY <2>2, <2>3 DEF RInv, NotYet
<1>4. CASE \E q \in Pids : Unregister(q)
  <2>1. PICK q \in Pids : Unregister(q)
    BY <1>4
  <2>2. phase[q] = "stop" /\ registry' = Without(registry, <<at[q], q>>) /\ <<at[q], q>> \in Files
    BY <1>1, <2>1 DEF Unregister, Files, RInv, TypeOK, Serving
  <2>3. <<at[q], q>> = <<e, p>>
    BY <2>2, RemovedOne
  <2>4. QED
    BY <2>2, <2>3
<1>5. CASE \E f \in Files : PruneRecord(f)
  <2>1. PICK f \in Files : PruneRecord(f)
    BY <1>5
  <2>2. stage = "unlink" /\ f \in doomed /\ registry' = Without(registry, f)
    BY <2>1 DEF PruneRecord
  <2>3. f = <<e, p>>
    BY <2>2, RemovedOne
  <2>4. f \in fresh
    BY <2>2, <2>3 DEF RInv, Ended
  <2>5. QED
    BY <2>2, <2>3, <2>4
<1>6. \/ \E q \in Pids, f \in Files : RemoveReplaced(q, f)
      \/ \E q \in Pids : WriteRecord(q)
      \/ \E q \in Pids : Unregister(q)
      \/ \E f \in Files : PruneRecord(f)
  <2>1. ASSUME NEW q \in Pids, Server(q)
        PROVE \/ \E f \in Files : RemoveReplaced(q, f)
              \/ WriteRecord(q)
              \/ Unregister(q)
    BY <1>1, <2>1 DEF Server, FindReplaced, RegisterFails, Bind, Stop
  <2>2. ASSUME Lister PROVE \E f \in Files : PruneRecord(f)
    <3>1. ~ReadProcesses /\ ~ReadSockets /\ ~Report /\ ~ProbeCandidates
      BY <1>1 DEF ReadProcesses, ReadSockets, Report, ProbeCandidates
    <3>2. ASSUME NEW d \in Endpoints, NEW q \in Pids
          PROVE ~SeeRunning(d, q) /\ ~JudgeRunning(d, q) /\ ~JudgeStale(d, q)
      BY <1>1 DEF SeeRunning, JudgeRunning, JudgeStale
    <3>3. QED
      BY <2>2, <3>1, <3>2 DEF Lister
  <2>3. QED
    BY <1>1, <2>1, <2>2 DEF Next, vars, StartServe, StartOther, Kill, ReadRecords
<1>7. QED
  BY <1>2, <1>3, <1>4, <1>5, <1>6

\* Only a process that stops, a rival for its endpoint, or a listing that read an older record in
\* its place removes the record of a process that runs, for any number of processes.
THEOREM RecordsAreKept == Spec => RunningKeepsRecord
<1>1. RInv /\ [Next]_vars =>
        [\A e \in Endpoints, p \in Pids :
            registry[e][p] # 0 /\ registry[e][p] = born[p] /\ registry'[e][p] = 0 =>
                \/ phase[p] = "stop"
                \/ \E q \in Pids \ {p} : phase[q] = "replace" /\ at[q] = e
                \/ stage = "unlink" /\ <<e, p>> \in doomed \cap fresh]_registry
  BY Removals
<1>2. QED
  BY <1>1, RInitInv, RInvStep, PTL DEF Spec, RunningKeepsRecord

-----------------------------------------------------------------------------
(* Servers that listen are listed *)

\* A server that serves is the listener on its endpoint
Listening == \A p \in Pids : phase[p] = "serve" => listener[at[p]] = p

SteadyServe == \A p \in steady : phase[p] = "serve"

\* A server that has been listening since the listing began is in what the listing has read
Seen ==
    ~degraded => \A p \in steady :
        /\ stage \notin {"idle", "processes"} => p \in table[at[p]]
        /\ stage \in {"judge", "identify", "unlink", "report"} => sockets[at[p]] = p

\* Nothing else than that server is listed as running on its endpoint
OnlyItself ==
    /\ stage \in {"idle", "processes", "sockets"} => listed = {}
    /\ ~degraded => \A p \in steady, x \in listed :
            x.endpoint = at[p] /\ x.status # "stale" => x.pid = p

\* At the end something is
Something ==
    stage = "report" /\ ~degraded => \A p \in steady :
        \E x \in listed : x.endpoint = at[p] /\ x.status # "stale"

LAll == Listening /\ SteadyServe /\ Seen /\ OnlyItself /\ Something

LInv == RInv /\ LAll

\* Before any process runs nobody listens and nothing is listed.
LEMMA LInitInv == Init => LInv
<1> SUFFICES ASSUME Init PROVE LAll
  BY RInitInv DEF LInv
<1>1. QED
  BY DEF Init, LAll, Listening, SteadyServe, Seen, OnlyItself, Something

\* A step of a process leaves the others on their endpoints, and the steady ones with it.
LEMMA ProcessStep ==
    ASSUME LInv, [Next]_vars, UNCHANGED listing, Listening', SteadyServe',
           steady' \subseteq steady, \A p \in steady' : at'[p] = at[p]
    PROVE LAll'
<1>1. Seen'
  BY DEF LInv, LAll, Seen, listing
<1>2. OnlyItself'
  BY DEF LInv, LAll, OnlyItself, listing
<1>3. Something'
  BY DEF LInv, LAll, Something, listing
<1>4. QED
  BY <1>1, <1>2, <1>3 DEF LAll

\* A process that ends stops listening.
LEMMA EndsListening ==
    ASSUME LInv, [Next]_vars, NEW p \in Pids, Ends(p), UNCHANGED listing
    PROVE LAll'
<1>1. /\ \A q \in Pids \ {p} : phase'[q] = phase[q] /\ at'[q] = at[q]
      /\ phase'[p] = "off" /\ steady' = steady \ {p}
      /\ \A e \in Endpoints : listener'[e] = IF listener[e] = p THEN None ELSE listener[e]
  BY DEF LInv, RInv, TypeOK, Ends, Freed
<1>2. \A q \in Pids : phase[q] = "serve" => at[q] \in Endpoints
  BY DEF LInv, RInv, TypeOK, Serving
<1>3. Listening' /\ SteadyServe'
  <2>1. /\ \A q \in Pids : phase[q] = "serve" => listener[at[q]] = q
        /\ \A q \in steady : phase[q] = "serve"
        /\ steady \subseteq Pids
    BY DEF LInv, LAll, RInv, TypeOK, Listening, SteadyServe
  <2>2. Listening'
    BY <1>1, <1>2, <2>1 DEF Listening
  <2>3. SteadyServe'
    BY <1>1, <2>1 DEF SteadyServe
  <2>4. QED
    BY <2>2, <2>3
<1>4. QED
  BY <1>1, <1>3, ProcessStep DEF LInv, RInv, TypeOK

\* Every step of a process keeps servers on their endpoints.
LEMMA ProcessesListen ==
    ASSUME LInv, [Next]_vars,
           \/ \E p \in Pids : Server(p) \/ Kill(p)
           \/ \E p \in Pids, e \in Endpoints : StartServe(p, e)
           \/ \E p \in Pids, e \in Endpoints \cup {None}, hidden \in BOOLEAN :
                StartOther(p, e, hidden)
    PROVE LAll'
<1>0. /\ \A q \in Pids : phase[q] = "serve" => at[q] \in Endpoints
      /\ \A q \in Pids : born[q] = 0 => phase[q] = "off"
      /\ Listening /\ SteadyServe
      /\ phase \in [Pids -> Phases] /\ at \in [Pids -> Endpoints \cup {None}]
      /\ listener \in [Endpoints -> Pids \cup {None}]
      /\ steady \subseteq Pids
      /\ None \notin Pids \cup Endpoints
  BY RegistryAssumption DEF LInv, LAll, RInv, TypeOK, Serving, Births
<1>1. ASSUME NEW p \in Pids, phase[p] # "serve", NEW as \in Phases \ {"serve"},
             phase' = [phase EXCEPT ![p] = as],
             UNCHANGED <<listing, steady>>,
             at' = at \/ \E e \in Endpoints : at' = [at EXCEPT ![p] = e],
             \/ listener' = listener
             \/ \E e \in Endpoints : listener[e] = None /\ listener' = [listener EXCEPT ![e] = p]
      PROVE LAll'
  <2>1. /\ \A q \in Pids \ {p} : phase'[q] = phase[q] /\ at'[q] = at[q]
        /\ phase'[p] # "serve"
    BY <1>0, <1>1
  <2>2. \A e \in Endpoints : listener[e] # None => listener'[e] = listener[e]
    BY <1>0, <1>1
  <2>3. p \notin steady
    BY <1>0, <1>1 DEF SteadyServe
  <2>4. Listening'
    BY <1>0, <2>1, <2>2 DEF Listening
  <2>5. SteadyServe'
    BY <1>0, <1>1, <2>1, <2>3 DEF SteadyServe
  <2>6. QED
    BY <1>0, <1>1, <2>1, <2>3, <2>4, <2>5, ProcessStep
<1>2. ASSUME NEW p \in Pids, Server(p) PROVE LAll'
  <2>1. CASE FindReplaced(p)
    BY <1>1, <2>1 DEF FindReplaced, Phases, Serving
  <2>2. ASSUME NEW f \in Files, RemoveReplaced(p, f) PROVE LAll'
    <3>1. UNCHANGED <<phase, at, listener, steady, listing>>
      BY <2>2 DEF RemoveReplaced
    <3>2. QED
      BY <1>0, <3>1, ProcessStep DEF Listening, SteadyServe
  <2>3. CASE WriteRecord(p)
    BY <1>1, <2>3 DEF WriteRecord, Phases, Serving
  <2>4. CASE RegisterFails(p)
    BY <1>1, <2>4 DEF RegisterFails, Phases, Serving
  <2>5. CASE Bind(p)
    <3>1. phase[p] = "bind" /\ UNCHANGED <<at, steady, listing>>
      BY <2>5 DEF Bind
    <3>2. CASE listener[at[p]] = None
      <4>1. /\ listener' = [listener EXCEPT ![at[p]] = p]
            /\ phase' = [phase EXCEPT ![p] = "serve"]
        BY <2>5, <3>2 DEF Bind
      <4>2. at[p] \in Endpoints
        BY <1>0, <3>1 DEF LInv, RInv, TypeOK, Serving
      <4>3. Listening' /\ SteadyServe'
        BY <1>0, <3>1, <3>2, <4>1, <4>2 DEF Listening, SteadyServe
      <4>4. QED
        BY <3>1, <4>3, ProcessStep
    <3>3. CASE listener[at[p]] # None
      <4>1. phase' = [phase EXCEPT ![p] = "stop"] /\ UNCHANGED listener
        BY <2>5, <3>3 DEF Bind
      <4>2. QED
        BY <1>1, <3>1, <4>1 DEF Phases, Serving
    <3>4. QED
      BY <3>2, <3>3
  <2>6. CASE Stop(p)
    <3>1. /\ \A q \in Pids \ {p} : phase'[q] = phase[q] /\ at'[q] = at[q]
          /\ phase'[p] = "stop" /\ at' = at /\ steady' = steady \ {p} /\ UNCHANGED listing
          /\ \A e \in Endpoints : listener'[e] = IF listener[e] = p THEN None ELSE listener[e]
      BY <1>0, <2>6 DEF Stop, Freed
    <3>2. Listening' /\ SteadyServe'
      BY <1>0, <3>1 DEF Listening, SteadyServe
    <3>3. QED
      BY <3>1, <3>2, ProcessStep
  <2>7. CASE Unregister(p)
    BY <2>7, EndsListening DEF Unregister
  <2>8. QED
    BY <1>2, <2>1, <2>2, <2>3, <2>4, <2>5, <2>6, <2>7 DEF Server
<1>3. ASSUME NEW p \in Pids, Kill(p) PROVE LAll'
  BY <1>3, EndsListening DEF Kill
<1>4. ASSUME NEW p \in Pids, NEW e \in Endpoints, StartServe(p, e) PROVE LAll'
  BY <1>0, <1>1, <1>4 DEF StartServe, Begins, Phases, Serving
<1>5. ASSUME NEW p \in Pids, NEW e \in Endpoints \cup {None}, NEW hidden \in BOOLEAN,
             StartOther(p, e, hidden)
      PROVE LAll'
  BY <1>0, <1>1, <1>5 DEF StartOther, Begins, Phases, Serving
<1>6. QED
  BY <1>2, <1>3, <1>4, <1>5

\* Every step of a listing reads, lists and keeps the servers that listen all the while.
LEMMA ListingLists ==
    ASSUME LInv, Lister \/ \E pruning \in BOOLEAN : ReadRecords(pruning)
    PROVE LAll'
<1>0. /\ \A q \in Pids : phase[q] = "serve" => at[q] \in Endpoints /\ born[q] # 0 /\ at[q] # None
      /\ Listening /\ SteadyServe /\ Seen /\ OnlyItself /\ Something
      /\ listener \in [Endpoints -> Pids \cup {None}]
      /\ steady \subseteq Pids
      /\ stage \in Stages
      /\ None \notin Pids
  BY RegistryAssumption DEF LInv, LAll, RInv, TypeOK, Serving, Births
<1> USE DEF processes
<1>1. ASSUME NEW pruning \in BOOLEAN, ReadRecords(pruning) PROVE LAll'
  BY <1>0, <1>1 DEF ReadRecords, LAll, Listening, SteadyServe, Seen, OnlyItself, Something
<1>2. CASE ReadProcesses
  <2>1. \A p \in steady : p \in Candidates(at[p])
    BY <1>0 DEF SteadyServe, Candidates, Serving
  <2>2. ~degraded' => \A p \in steady : p \in table'[at[p]]
    BY <1>0, <1>2, <2>1 DEF ReadProcesses, SteadyServe
  <2>3. /\ stage = "processes" /\ stage' = "sockets"
        /\ UNCHANGED <<phase, at, listener, steady, listed>>
    BY <1>2 DEF ReadProcesses
  <2>4. QED
    BY <1>0, <2>2, <2>3 DEF LAll, Listening, SteadyServe, Seen, OnlyItself, Something
<1>3. CASE ReadSockets
  <2>1. ~degraded' => ~degraded /\ sockets' = listener
    BY <1>3 DEF ReadSockets
  <2>2. stage = "sockets" /\ stage' = "judge"
        /\ UNCHANGED <<phase, at, listener, steady, listed, table>>
    BY <1>3 DEF ReadSockets
  <2>3. QED
    BY <1>0, <2>1, <2>2 DEF LAll, Listening, SteadyServe, Seen, OnlyItself, Something
<1>4. ASSUME NEW e \in Endpoints, NEW p \in Pids, JudgeRunning(e, p) PROVE LAll'
  <2>1. PICK health \in {"healthy", "unhealthy"} :
            listed' = listed \cup {Entry(e, ShownPid(e, p), health, "registry")}
    BY <1>4 DEF JudgeRunning
  <2>2. /\ stage = "identify" /\ stage' = "judge"
        /\ UNCHANGED <<phase, at, listener, steady, table, sockets, degraded>>
    BY <1>4 DEF JudgeRunning
  <2>3. ~degraded => \A q \in steady : at[q] = e => ShownPid(e, p) = q
    BY <1>0, <2>2 DEF Seen, SteadyServe, ShownPid
  <2>4. OnlyItself'
    BY <1>0, <2>1, <2>2, <2>3 DEF OnlyItself, Entry
  <2>5. QED
    BY <1>0, <2>2, <2>4 DEF LAll, Listening, SteadyServe, Seen, Something
<1>5. ASSUME NEW e \in Endpoints, NEW p \in Pids, JudgeStale(e, p) PROVE LAll'
  <2>1. listed' = listed \cup {Entry(e, p, "stale", "registry")}
    BY <1>5 DEF JudgeStale
  <2>2. /\ stage \in {"judge", "identify"} /\ stage' \in {"judge", "unlink"}
        /\ UNCHANGED <<phase, at, listener, steady, table, sockets, degraded>>
    BY <1>5 DEF JudgeStale
  <2>3. OnlyItself'
    BY <1>0, <2>1, <2>2 DEF OnlyItself, Entry
  <2>4. QED
    BY <1>0, <2>2, <2>3 DEF LAll, Listening, SteadyServe, Seen, Something
<1>6. ASSUME NEW f \in Files, PruneRecord(f) PROVE LAll'
  <2>1. /\ stage = "unlink" /\ stage' \in {"judge", "failed"}
        /\ UNCHANGED <<phase, at, listener, steady, table, sockets, degraded, listed>>
    BY <1>6 DEF PruneRecord
  <2>2. QED
    BY <1>0, <2>1 DEF LAll, Listening, SteadyServe, Seen, OnlyItself, Something
<1>7. CASE ProbeCandidates
  <2>1. PICK infos \in SUBSET {Entry(e, p, health, "process") :
                               e \in Endpoints, p \in Pids, health \in {"healthy", "unhealthy"}} :
            /\ \A x \in infos : x.endpoint \notin Active /\ x.pid \in Selected(x.endpoint)
            /\ \A e \in Endpoints \ Active :
                (table[e] # {} /\ \A x \in infos : x.endpoint # e)
                    => sockets[e] # None /\ Foreign(e)
            /\ listed' = listed \cup infos
    BY <1>7, SMTT(30) DEF ProbeCandidates
  <2>2. /\ stage = "judge" /\ stage' = "report"
        /\ UNCHANGED <<phase, at, listener, steady, table, sockets, degraded>>
    BY <1>7 DEF ProbeCandidates
  <2>3. \A x \in infos : x.status # "stale"
    BY <2>1 DEF Entry
  <2>4. ASSUME ~degraded, NEW p \in steady
        PROVE /\ p \in table[at[p]] /\ sockets[at[p]] = p /\ at[p] \in Endpoints
              /\ ~Foreign(at[p])
              /\ Selected(at[p]) = {p}
    BY <1>0, <2>2, <2>4 DEF Seen, SteadyServe, Listening, Foreign, Selected
  <2>5. OnlyItself'
    <3>1. SUFFICES ASSUME ~degraded, NEW p \in steady, NEW x \in listed',
                          x.endpoint = at[p], x.status # "stale"
                   PROVE x.pid = p
      BY <2>2 DEF OnlyItself
    <3>2. CASE x \in listed
      BY <1>0, <3>1, <3>2 DEF OnlyItself
    <3>3. CASE x \in infos
      BY <2>1, <2>4, <3>1, <3>3
    <3>4. QED
      BY <2>1, <3>2, <3>3
  <2>6. Something'
    <3>1. SUFFICES ASSUME ~degraded, NEW p \in steady
                   PROVE \E x \in listed' : x.endpoint = at[p] /\ x.status # "stale"
      BY <2>2 DEF Something
    <3>2. CASE at[p] \in Active
      BY <2>1, <3>2 DEF Active
    <3>3. CASE at[p] \notin Active
      <4>1. \E x \in infos : x.endpoint = at[p]
        BY <2>1, <2>4, <3>1, <3>3
      <4>2. QED
        BY <2>1, <2>3, <4>1
    <3>4. QED
      BY <3>2, <3>3
  <2>7. QED
    BY <1>0, <2>2, <2>5, <2>6 DEF LAll, Listening, SteadyServe, Seen
<1>8. CASE Report
  BY <1>0, <1>8 DEF Report, LAll, Listening, SteadyServe, Seen, OnlyItself, Something
<1>9. ASSUME NEW e \in Endpoints, NEW p \in Pids, SeeRunning(e, p) PROVE LAll'
  <2>1. /\ stage = "judge" /\ stage' = "identify"
        /\ UNCHANGED <<phase, at, listener, steady, table, sockets, degraded, listed>>
    BY <1>9 DEF SeeRunning
  <2>2. QED
    BY <1>0, <2>1 DEF LAll, Listening, SteadyServe, Seen, OnlyItself, Something
<1>10. QED
  BY <1>1, <1>2, <1>3, <1>4, <1>5, <1>6, <1>7, <1>8, <1>9 DEF Lister

\* The invariant holds of every run.
LEMMA ListedInvariance == Spec => []LInv
<1>1. LInv /\ [Next]_vars => LInv'
  <2> SUFFICES ASSUME LInv, [Next]_vars PROVE LInv'
    OBVIOUS
  <2>1. RInv'
    BY RInvStep DEF LInv
  <2>2. CASE UNCHANGED vars
    BY <2>1, <2>2 DEF LInv, LAll, Listening, SteadyServe, Seen, OnlyItself, Something, vars,
                      processes, listing
  <2>3. CASE Next
    <3>1. LAll'
      BY <2>3, ProcessesListen, ListingLists DEF Next
    <3>2. QED
      BY <2>1, <3>1 DEF LInv
  <2>4. QED
    BY <2>2, <2>3
<1>2. QED
  BY LInitInv, <1>1, PTL DEF Spec

\* A server that listens for as long as the listing takes is listed with its own pid, for any
\* number of processes, endpoints and records (discover_local_instances).
THEOREM ListeningServersAreListed == Spec => []ServersAreListed
<1>1. LInv => ServersAreListed
  BY DEF LInv, LAll, OnlyItself, Something, ServersAreListed
<1>2. QED
  BY ListedInvariance, <1>1, PTL

-----------------------------------------------------------------------------
(***************************************************************************)
(* The requests a server answers.  A label is of the published content or  *)
(* of one that it replaced, and an operation that takes its label first    *)
(* has no pages while its label is to come.  Nothing is sent before an     *)
(* answer is ready and nothing is logged before the request ends, except   *)
(* that an answer was sent whose event the log cannot make.                *)
(***************************************************************************)
LabelFirst == {"source_bundle", "resources"}
Rests == {<<"label", "pages", "dropped">>, <<"pages", "dropped">>, <<"dropped">>,
          <<"label", "pages">>, <<"pages">>, <<>>}

LooksOf(r) ==
    /\ progress[r] \in {"new", "body"} =>
        looks[r] = <<>> /\ pages[r] = Nothing /\ label[r] = Nothing
    /\ ask[r].operation \in LabelFirst =>
        /\ looks[r] \in Rests
        /\ looks[r] # <<>> /\ Head(looks[r]) = "label" => pages[r] = Nothing

LabelOf(r) == label[r] \in past \cup {content, Nothing}

SentOf(r) ==
    /\ progress[r] \notin {"log", "raise", "ended"} => sent[r] = 0
    /\ progress[r] \notin {"raise", "ended"} => ~logged[r]
    /\ progress[r] # "ended" => events[r] = <<>>
    /\ progress[r] = "log" => sent[r] \in {0, status[r]}
    /\ progress[r] = "raise" => IF logged[r] THEN MayFail(r) ELSE sent[r] = 0

\* The two properties, of one request
MixedOf(r) ==
    ask[r].operation \in LabelFirst /\ pages[r] # Nothing /\ label[r] # Nothing
    => pages[r] = label[r] \/ label[r] \in past

LoggedOf(r) ==
    progress[r] = "ended" =>
        /\ Len(events[r]) <= 1
        /\ events[r] = <<>> => MayFail(r)
        /\ \A i \in DOMAIN events[r] : events[r][i] # Dropped /\ sent[r] # 0
                                       => events[r][i] = sent[r]

RequestInv(r) == LooksOf(r) /\ LabelOf(r) /\ SentOf(r) /\ MixedOf(r) /\ LoggedOf(r)
ServeInv == ServeTypes /\ \A r \in Requests : RequestInv(r)

Progresses == {"new", "body", "look", "judge", "asked", "render", "answer", "raise", "log", "ended"}
Statuses == {200, 400, 403, 422, 500}

LEMMA OutcomeTypes ==
    ASSUME progress \in [Requests -> Progresses], status \in [Requests -> Nat], NEW r \in Requests
    PROVE  /\ \A s \in Statuses : Answer(r, s) =>
                progress' \in [Requests -> Progresses] /\ status' \in [Requests -> Nat]
           /\ Raise(r) => progress' \in [Requests -> Progresses] /\ status' = status
           /\ \A p \in Progresses : Go(r, p) => progress' \in [Requests -> Progresses]
BY DEF Answer, Raise, Go, Progresses, Statuses

LEMMA SnapshotsTypes ==
    ASSUME NEW a \in Asks
    PROVE  Snapshots(a.operation) \in Seq({"pages", "label", "dropped"})
<1> DEFINE ReadParts == {"pages", "label", "dropped"}
<1>1. /\ <<"pages">> \in Seq(ReadParts) /\ <<"pages", "label">> \in Seq(ReadParts)
      /\ <<"label", "pages", "dropped">> \in Seq(ReadParts) /\ <<"label", "pages">> \in Seq(ReadParts)
  OBVIOUS
<1>2. a.operation \in Operations
  BY DEF Asks
<1> HIDE DEF ReadParts
<1>3. Snapshots(a.operation) \in Seq(ReadParts)
  BY <1>1, <1>2 DEF Operations, Snapshots
<1> QED BY <1>3 DEF ReadParts

LEMMA EventTypes ==
    ASSUME NEW es \in Seq(Nat), NEW e \in Nat
    PROVE  Append(es, e) \in Seq(Nat)
OBVIOUS

\* Every action of a request keeps the types
LEMMA ServeTypesStep ==
    ASSUME ServeTypes, NEW r \in Requests, Arrive(r) \/ Leave(r) \/ Handle(r)
    PROVE  ServeTypes'
<1>0. /\ progress \in [Requests -> Progresses] /\ status \in [Requests -> Nat]
  BY DEF ServeTypes, Progresses
<1> USE <1>0 DEF ServeTypes
<1>1. CASE Arrive(r)
  <2>1. PICK a \in Asks :
            /\ ask' = [ask EXCEPT ![r] = a] /\ left' = [left EXCEPT ![r] = a.chunks]
            /\ IF a.origin THEN Go(r, "body") /\ UNCHANGED status ELSE Answer(r, 403)
    BY <1>1, Zenon DEF Arrive
  <2>2. progress' \in [Requests -> Progresses] /\ status' \in [Requests -> Nat]
    BY <2>1, OutcomeTypes DEF Progresses, Statuses
  <2>3. a.chunks \in 0..MaxChunks
    BY ServingAssumption DEF Asks
  <2>4. ask' \in [Requests -> Asks] /\ left' \in [Requests -> 0..MaxChunks]
    BY <2>1, <2>3
  <2> QED BY <1>1, <2>2, <2>4 DEF Arrive, published, built, judged, logs, Progresses
<1>2. CASE Leave(r)
  BY <1>2 DEF Leave, published, received, built, judged, logs
<1>3. CASE Receive(r)
  <2>1. left' = [left EXCEPT ![r] = @ - 1] /\ left[r] \in 0..MaxChunks /\ left[r] > 0
    BY <1>3 DEF Receive
  <2>2. left[r] - 1 \in 0..MaxChunks
    BY <2>1, ServingAssumption
  <2>3. left' \in [Requests -> 0..MaxChunks]
    BY <2>1, <2>2
  <2> QED BY <1>3, <2>3 DEF Receive, published, built, judged, logs
<1>4. CASE Disconnect(r)
  BY <1>4 DEF Disconnect, Go, Answer, published, received, built, judged, logs
<1>5. CASE Validate(r)
  <2>1. progress' \in [Requests -> Progresses] /\ status' \in [Requests -> Nat]
    <3>1. \/ \E x \in Statuses : Answer(r, x)
          \/ Raise(r)
          \/ Go(r, "look") /\ status' = status
      BY <1>5 DEF Validate, Unread, Rejected, Reencoded, Accepted, Refuse, Statuses
    <3>2. "look" \in Progresses
      BY DEF Progresses
    <3> QED BY <3>1, <3>2, OutcomeTypes
  <2>2. looks' \in [Requests -> Seq({"pages", "label", "dropped"})]
    <3>1. Snapshots(ask[r].operation) \in Seq({"pages", "label", "dropped"})
      BY SnapshotsTypes
    <3> QED BY <1>5, <3>1 DEF Validate, Unread, Rejected, Reencoded, Accepted
  <2> QED BY <1>5, <2>1, <2>2 DEF Validate, published, received, judged, logs, Progresses
<1>6. CASE Look(r)
  BY <1>6 DEF Look, published, received, judged, logs
<1>7. CASE LookFails(r)
  <2>1. progress' \in [Requests -> Progresses] /\ status' \in [Requests -> Nat]
    <3>1. (\E x \in Statuses : Answer(r, x)) \/ Raise(r)
      BY <1>7 DEF LookFails, HttpFails, RpcFails, StreamFails, Statuses
    <3> QED BY <3>1, OutcomeTypes
  <2>2. looks' \in [Requests -> Seq({"pages", "label", "dropped"})]
    BY <1>7 DEF LookFails
  <2>3. /\ pages' \in [Requests -> Contents \cup {Nothing}]
        /\ label' \in [Requests -> Contents \cup {Nothing}]
    BY <1>7 DEF LookFails
  <2> QED BY <1>7, <2>1, <2>2, <2>3 DEF LookFails, published, received, judged, logs, Progresses
<1>8. CASE Looked(r)
  BY <1>8 DEF Looked, Go, published, received, built, judged, logs
<1>9. CASE NotAsked(r)
  BY <1>9 DEF NotAsked, Go, Guide, published, received, built, logs
<1>10. CASE AskJudge(r)
  BY <1>10 DEF AskJudge, Go, published, received, built, judged, logs
<1>11. CASE CannotAsk(r)
  BY <1>11 DEF CannotAsk, Go, Guide, published, received, built, logs
<1>12. CASE ReadMore(r)
  <2>1. reads' = [reads EXCEPT ![r] = @ + 1] /\ reads[r] \in 0..MaxResponse
    BY <1>12, ServingAssumption DEF ReadMore
  <2>2. reads[r] + 1 \in 0..MaxResponse + 1
    BY <2>1, ServingAssumption
  <2>3. reads' \in [Requests -> 0..MaxResponse + 1]
    BY <2>1, <2>2
  <2> QED BY <1>12, <2>3 DEF ReadMore, published, received, built, logs
<1>13. CASE JudgeAnswers(r)
  BY <1>13 DEF JudgeAnswers, Go, Guide, published, received, built, logs
<1>14. CASE Render(r)
  <2>1. progress' \in [Requests -> Progresses] /\ status' \in [Requests -> Nat]
    BY <1>14, OutcomeTypes DEF Render, Progresses, Statuses
  <2> QED BY <1>14, <2>1 DEF Render, published, received, built, judged, logs, Progresses
<1>15. CASE SendAnswer(r)
  BY <1>15 DEF SendAnswer, Go, published, received, built, judged, logs
<1>16. CASE SendBreaks(r)
  BY <1>16 DEF SendBreaks, Go, Raise, published, received, built, judged, logs
<1>17. CASE LogAnswer(r)
  <2>1. progress' \in [Requests -> Progresses] /\ status' = status
    BY <1>17, OutcomeTypes DEF LogAnswer, Progresses
  <2>2. events' \in [Requests -> Seq(Nat)]
    <3>1. CASE UNCHANGED events
      BY <3>1
    <3>2. CASE ~UNCHANGED events
      <4>1. PICK e \in {status[r], 0} : events' = [events EXCEPT ![r] = Append(@, e)]
        BY <1>17, <3>2 DEF LogAnswer, WriteEvent, Written, Dropped
      <4>2. Append(events[r], e) \in Seq(Nat)
        BY EventTypes
      <4> QED BY <4>1, <4>2
    <3> QED BY <3>1, <3>2
  <2>3. logged' \in [Requests -> BOOLEAN]
    BY <1>17 DEF LogAnswer
  <2> QED BY <1>17, <2>1, <2>2, <2>3 DEF LogAnswer, published, received, built, judged, Progresses
<1>18. CASE LogException(r)
  <2>1. progress' \in [Requests -> Progresses]
    BY <1>18, OutcomeTypes DEF LogException, Progresses
  <2>2. events' \in [Requests -> Seq(Nat)]
    <3>1. CASE UNCHANGED events
      BY <3>1
    <3>2. CASE ~UNCHANGED events
      <4>1. PICK e \in {500, 0} : events' = [events EXCEPT ![r] = Append(@, e)]
        BY <1>18, <3>2 DEF LogException, WriteEvent, Written, Dropped
      <4>2. Append(events[r], e) \in Seq(Nat)
        BY EventTypes
      <4> QED BY <4>1, <4>2
    <3> QED BY <3>1, <3>2
  <2>3. sent' \in [Requests -> Nat]
    BY <1>18 DEF LogException
  <2> QED BY <1>18, <2>1, <2>2, <2>3
          DEF LogException, published, received, built, judged, Progresses
<1> QED BY <1>1, <1>2, <1>3, <1>4, <1>5, <1>6, <1>7, <1>8, <1>9, <1>10, <1>11, <1>12, <1>13,
   <1>14, <1>15, <1>16, <1>17, <1>18 DEF Handle

\* What an action of another request leaves alone
LEMMA OtherRequests ==
    ASSUME ServeTypes, NEW r \in Requests, Arrive(r) \/ Leave(r) \/ Handle(r),
           NEW q \in Requests, q # r
    PROVE  /\ ask'[q] = ask[q] /\ progress'[q] = progress[q] /\ looks'[q] = looks[q]
           /\ pages'[q] = pages[q] /\ label'[q] = label[q] /\ status'[q] = status[q]
           /\ sent'[q] = sent[q] /\ logged'[q] = logged[q] /\ events'[q] = events[q]
           /\ left'[q] = left[q] /\ content' = content /\ past' = past
<1> USE DEF ServeTypes
<1>1. CASE Arrive(r)
  BY <1>1 DEF Arrive, Go, Answer, published, built, judged, logs
<1>2. CASE Leave(r)
  BY <1>2 DEF Leave, published, received, built, judged, logs
<1>3. CASE Receive(r)
  BY <1>3 DEF Receive, published, built, judged, logs
<1>4. CASE Disconnect(r)
  BY <1>4 DEF Disconnect, Go, Answer, published, received, built, judged, logs
<1>5. CASE Validate(r)
  BY <1>5 DEF Validate, Unread, Rejected, Reencoded, Accepted, Go, Answer, Raise, Refuse,
     published, received, judged, logs
<1>6. CASE Look(r)
  BY <1>6 DEF Look, published, received, judged, logs
<1>7. CASE LookFails(r)
  BY <1>7 DEF LookFails, Go, Answer, Raise, HttpFails, RpcFails, StreamFails, published,
     received, judged, logs
<1>8. CASE Looked(r)
  BY <1>8 DEF Looked, Go, published, received, built, judged, logs
<1>9. CASE NotAsked(r)
  BY <1>9 DEF NotAsked, Go, Guide, published, received, built, logs
<1>10. CASE AskJudge(r)
  BY <1>10 DEF AskJudge, Go, published, received, built, judged, logs
<1>11. CASE CannotAsk(r)
  BY <1>11 DEF CannotAsk, Go, Guide, published, received, built, logs
<1>12. CASE ReadMore(r)
  BY <1>12 DEF ReadMore, published, received, built, logs
<1>13. CASE JudgeAnswers(r)
  BY <1>13 DEF JudgeAnswers, Go, Guide, published, received, built, logs
<1>14. CASE Render(r)
  BY <1>14 DEF Render, Go, Answer, Raise, published, received, built, judged, logs
<1>15. CASE SendAnswer(r)
  BY <1>15 DEF SendAnswer, Go, published, received, built, judged, logs
<1>16. CASE SendBreaks(r)
  BY <1>16 DEF SendBreaks, Go, Raise, published, received, built, judged, logs
<1>17. CASE LogAnswer(r)
  BY <1>17 DEF LogAnswer, Go, Raise, WriteEvent, Written, Dropped, published, received, built, judged
<1>18. CASE LogException(r)
  BY <1>18 DEF LogException, Go, WriteEvent, Written, Dropped, published, received, built, judged
<1> QED BY <1>1, <1>2, <1>3, <1>4, <1>5, <1>6, <1>7, <1>8, <1>9, <1>10, <1>11, <1>12, <1>13,
   <1>14, <1>15, <1>16, <1>17, <1>18 DEF Handle

LEMMA RestsShrink ==
    ASSUME NEW l \in Rests, l # <<>>
    PROVE  Tail(l) \in Rests /\ (Tail(l) # <<>> => Head(Tail(l)) # "label")
<1>1. /\ Tail(<<"label", "pages", "dropped">>) = <<"pages", "dropped">>
      /\ Tail(<<"pages", "dropped">>) = <<"dropped">> /\ Tail(<<"dropped">>) = <<>>
      /\ Tail(<<"label", "pages">>) = <<"pages">> /\ Tail(<<"pages">>) = <<>>
  OBVIOUS
<1>2. /\ Head(<<"pages", "dropped">>) = "pages" /\ Head(<<"dropped">>) = "dropped"
      /\ Head(<<"pages">>) = "pages"
  OBVIOUS
<1> QED BY <1>1, <1>2, Zenon DEF Rests

LEMMA OneEvent ==
    ASSUME NEW e \in Nat
    PROVE  /\ Append(<<>>, e) # <<>> /\ Len(Append(<<>>, e)) = 1
           /\ \A i \in DOMAIN Append(<<>>, e) : Append(<<>>, e)[i] = e
OBVIOUS

\* A request that takes its label first
LEMMA LooksStep ==
    ASSUME ServeTypes, NEW r \in Requests, LooksOf(r),
           Arrive(r) \/ Leave(r) \/ Handle(r)
    PROVE  LooksOf(r)'
<1> USE DEF ServeTypes, LooksOf, LabelFirst, Rests
<1>1. CASE Arrive(r)
  BY <1>1 DEF Arrive, Go, Answer, published, built, judged, logs
<1>2. CASE Leave(r)
  BY <1>2 DEF Leave, published, received, built, judged, logs
<1>3. CASE Receive(r)
  BY <1>3 DEF Receive, published, built, judged, logs
<1>4. CASE Disconnect(r)
  BY <1>4 DEF Disconnect, Go, Answer, published, received, built, judged, logs
<1>5. CASE Validate(r)
  BY <1>5 DEF Validate, Unread, Rejected, Reencoded, Accepted, Go, Answer, Raise, Refuse,
     published, received, judged, logs, Snapshots,
     Asks, Operations
<1>6. CASE Look(r)
  <2>1. /\ progress[r] = "look" /\ looks[r] # <<>> /\ looks'[r] = Tail(looks[r])
        /\ progress'[r] = "look" /\ ask'[r] = ask[r]
    BY <1>6 DEF Look, received
  <2>2. ASSUME ask[r].operation \in LabelFirst
        PROVE  looks'[r] \in Rests /\ (looks'[r] # <<>> => Head(looks'[r]) # "label")
    <3>1. looks[r] \in Rests
      BY <2>2
    <3> HIDE DEF Rests
    <3> QED BY <2>1, <3>1, RestsShrink
  <2> QED BY <2>1, <2>2, Zenon
<1>7. CASE LookFails(r)
  BY <1>7 DEF LookFails, Go, Answer, Raise, HttpFails, RpcFails, StreamFails, published,
     received, judged, logs
<1>8. CASE Looked(r)
  BY <1>8 DEF Looked, Go, published, received, built, judged, logs
<1>9. CASE NotAsked(r)
  BY <1>9 DEF NotAsked, Go, Guide, published, received, built, logs
<1>10. CASE AskJudge(r)
  BY <1>10 DEF AskJudge, Go, published, received, built, judged, logs
<1>11. CASE CannotAsk(r)
  BY <1>11 DEF CannotAsk, Go, Guide, published, received, built, logs
<1>12. CASE ReadMore(r)
  BY <1>12 DEF ReadMore, published, received, built, logs
<1>13. CASE JudgeAnswers(r)
  BY <1>13 DEF JudgeAnswers, Go, Guide, published, received, built, logs
<1>14. CASE Render(r)
  BY <1>14 DEF Render, Go, Answer, Raise, published, received, built, judged, logs
<1>15. CASE SendAnswer(r)
  BY <1>15 DEF SendAnswer, Go, published, received, built, judged, logs
<1>16. CASE SendBreaks(r)
  BY <1>16 DEF SendBreaks, Go, Raise, published, received, built, judged, logs
<1>17. CASE LogAnswer(r)
  BY <1>17 DEF LogAnswer, Go, Raise, WriteEvent, Written, Dropped, published, received, built, judged
<1>18. CASE LogException(r)
  BY <1>18 DEF LogException, Go, WriteEvent, Written, Dropped, published, received, built, judged
<1> QED BY <1>1, <1>2, <1>3, <1>4, <1>5, <1>6, <1>7, <1>8, <1>9, <1>10, <1>11, <1>12, <1>13,
   <1>14, <1>15, <1>16, <1>17, <1>18 DEF Handle

\* A label is of what was published
LEMMA LabelStep ==
    ASSUME ServeTypes, NEW r \in Requests, LabelOf(r),
           Arrive(r) \/ Leave(r) \/ Handle(r)
    PROVE  LabelOf(r)'
<1> USE DEF ServeTypes, LabelOf
<1>1. CASE Arrive(r)
  BY <1>1 DEF Arrive, Go, Answer, published, built, judged, logs
<1>2. CASE Leave(r)
  BY <1>2 DEF Leave, published, received, built, judged, logs
<1>3. CASE Receive(r)
  BY <1>3 DEF Receive, published, built, judged, logs
<1>4. CASE Disconnect(r)
  BY <1>4 DEF Disconnect, Go, Answer, published, received, built, judged, logs
<1>5. CASE Validate(r)
  BY <1>5 DEF Validate, Unread, Rejected, Reencoded, Accepted, Go, Answer, Raise, Refuse,
     published, received, judged, logs
<1>6. CASE Look(r)
  BY <1>6 DEF Look, published, received, judged, logs
<1>7. CASE LookFails(r)
  BY <1>7 DEF LookFails, Go, Answer, Raise, HttpFails, RpcFails, StreamFails, published,
     received, judged, logs
<1>8. CASE Looked(r)
  BY <1>8 DEF Looked, Go, published, received, built, judged, logs
<1>9. CASE NotAsked(r)
  BY <1>9 DEF NotAsked, Go, Guide, published, received, built, logs
<1>10. CASE AskJudge(r)
  BY <1>10 DEF AskJudge, Go, published, received, built, judged, logs
<1>11. CASE CannotAsk(r)
  BY <1>11 DEF CannotAsk, Go, Guide, published, received, built, logs
<1>12. CASE ReadMore(r)
  BY <1>12 DEF ReadMore, published, received, built, logs
<1>13. CASE JudgeAnswers(r)
  BY <1>13 DEF JudgeAnswers, Go, Guide, published, received, built, logs
<1>14. CASE Render(r)
  BY <1>14 DEF Render, Go, Answer, Raise, published, received, built, judged, logs
<1>15. CASE SendAnswer(r)
  BY <1>15 DEF SendAnswer, Go, published, received, built, judged, logs
<1>16. CASE SendBreaks(r)
  BY <1>16 DEF SendBreaks, Go, Raise, published, received, built, judged, logs
<1>17. CASE LogAnswer(r)
  BY <1>17 DEF LogAnswer, Go, Raise, WriteEvent, Written, Dropped, published, received, built, judged
<1>18. CASE LogException(r)
  BY <1>18 DEF LogException, Go, WriteEvent, Written, Dropped, published, received, built, judged
<1> QED BY <1>1, <1>2, <1>3, <1>4, <1>5, <1>6, <1>7, <1>8, <1>9, <1>10, <1>11, <1>12, <1>13,
   <1>14, <1>15, <1>16, <1>17, <1>18 DEF Handle

\* Pages of another content than their label
LEMMA MixedStep ==
    ASSUME ServeTypes, NEW r \in Requests, LooksOf(r), LabelOf(r), MixedOf(r),
           Arrive(r) \/ Leave(r) \/ Handle(r)
    PROVE  MixedOf(r)'
<1> USE DEF ServeTypes, LooksOf, LabelOf, MixedOf, LabelFirst, Rests
<1>1. CASE Arrive(r)
  BY <1>1 DEF Arrive, Go, Answer, published, built, judged, logs
<1>2. CASE Leave(r)
  BY <1>2 DEF Leave, published, received, built, judged, logs
<1>3. CASE Receive(r)
  BY <1>3 DEF Receive, published, built, judged, logs
<1>4. CASE Disconnect(r)
  BY <1>4 DEF Disconnect, Go, Answer, published, received, built, judged, logs
<1>5. CASE Validate(r)
  BY <1>5 DEF Validate, Unread, Rejected, Reencoded, Accepted, Go, Answer, Raise, Refuse,
     published, received, judged, logs
<1>6. CASE Look(r)
  BY <1>6 DEF Look, published, received, judged, logs
<1>7. CASE LookFails(r)
  BY <1>7 DEF LookFails, Go, Answer, Raise, HttpFails, RpcFails, StreamFails, published,
     received, judged, logs
<1>8. CASE Looked(r)
  BY <1>8 DEF Looked, Go, published, received, built, judged, logs
<1>9. CASE NotAsked(r)
  BY <1>9 DEF NotAsked, Go, Guide, published, received, built, logs
<1>10. CASE AskJudge(r)
  BY <1>10 DEF AskJudge, Go, published, received, built, judged, logs
<1>11. CASE CannotAsk(r)
  BY <1>11 DEF CannotAsk, Go, Guide, published, received, built, logs
<1>12. CASE ReadMore(r)
  BY <1>12 DEF ReadMore, published, received, built, logs
<1>13. CASE JudgeAnswers(r)
  BY <1>13 DEF JudgeAnswers, Go, Guide, published, received, built, logs
<1>14. CASE Render(r)
  BY <1>14 DEF Render, Go, Answer, Raise, published, received, built, judged, logs
<1>15. CASE SendAnswer(r)
  BY <1>15 DEF SendAnswer, Go, published, received, built, judged, logs
<1>16. CASE SendBreaks(r)
  BY <1>16 DEF SendBreaks, Go, Raise, published, received, built, judged, logs
<1>17. CASE LogAnswer(r)
  BY <1>17 DEF LogAnswer, Go, Raise, WriteEvent, Written, Dropped, published, received, built, judged
<1>18. CASE LogException(r)
  BY <1>18 DEF LogException, Go, WriteEvent, Written, Dropped, published, received, built, judged
<1> QED BY <1>1, <1>2, <1>3, <1>4, <1>5, <1>6, <1>7, <1>8, <1>9, <1>10, <1>11, <1>12, <1>13,
   <1>14, <1>15, <1>16, <1>17, <1>18 DEF Handle

\* What was sent and logged
LEMMA SentStep ==
    ASSUME ServeTypes, NEW r \in Requests, SentOf(r), LoggedOf(r),
           Arrive(r) \/ Leave(r) \/ Handle(r)
    PROVE  SentOf(r)' /\ LoggedOf(r)'
<1> USE DEF ServeTypes, SentOf, LoggedOf
<1>1. CASE Arrive(r)
  BY <1>1 DEF Arrive, Go, Answer, published, built, judged, logs
<1>2. CASE Leave(r)
  BY <1>2 DEF Leave, published, received, built, judged, logs, MayFail, MustFail, Summarized,
     Received
<1>3. CASE Receive(r)
  BY <1>3 DEF Receive, published, built, judged, logs
<1>4. CASE Disconnect(r)
  BY <1>4 DEF Disconnect, Go, Answer, published, received, built, judged, logs
<1>5. CASE Validate(r)
  BY <1>5 DEF Validate, Unread, Rejected, Reencoded, Accepted, Go, Answer, Raise, Refuse,
     published, received, judged, logs
<1>6. CASE Look(r)
  BY <1>6 DEF Look, published, received, judged, logs
<1>7. CASE LookFails(r)
  BY <1>7 DEF LookFails, Go, Answer, Raise, HttpFails, RpcFails, StreamFails, published,
     received, judged, logs
<1>8. CASE Looked(r)
  BY <1>8 DEF Looked, Go, published, received, built, judged, logs
<1>9. CASE NotAsked(r)
  BY <1>9 DEF NotAsked, Go, Guide, published, received, built, logs
<1>10. CASE AskJudge(r)
  BY <1>10 DEF AskJudge, Go, published, received, built, judged, logs
<1>11. CASE CannotAsk(r)
  BY <1>11 DEF CannotAsk, Go, Guide, published, received, built, logs
<1>12. CASE ReadMore(r)
  BY <1>12 DEF ReadMore, published, received, built, logs
<1>13. CASE JudgeAnswers(r)
  BY <1>13 DEF JudgeAnswers, Go, Guide, published, received, built, logs
<1>14. CASE Render(r)
  BY <1>14 DEF Render, Go, Answer, Raise, published, received, built, judged, logs
<1>15. CASE SendAnswer(r)
  BY <1>15 DEF SendAnswer, Go, published, received, built, judged, logs
<1>16. CASE SendBreaks(r)
  BY <1>16 DEF SendBreaks, Go, Raise, published, received, built, judged, logs
<1>17. CASE LogAnswer(r)
  <2>1. /\ progress[r] = "log" /\ events[r] = <<>> /\ ask' = ask /\ r \in Requests
        /\ \/ /\ progress'[r] = "ended"
              /\ \E e \in {status[r], Dropped} : events'[r] = Append(<<>>, e)
           \/ /\ MayFail(r) /\ progress'[r] = "raise" /\ events'[r] = <<>>
        /\ sent' = sent /\ logged'[r] = TRUE /\ status' = status /\ left' = left
    BY <1>17 DEF LogAnswer, Go, WriteEvent, Written, received
  <2>2. ASSUME NEW e \in {status[r], Dropped}, events'[r] = Append(<<>>, e)
        PROVE  /\ Len(events'[r]) = 1 /\ events'[r] # <<>>
               /\ \A i \in DOMAIN events'[r] : events'[r][i] = e
    <3>1. e \in Nat
      BY DEF Dropped
    <3> QED BY <2>2, <3>1, OneEvent
  <2>4. MayFail(r)' <=> MayFail(r)
    BY <2>1 DEF MayFail, MustFail, Summarized, Received
  <2>5. Len(<<>>) = 0 /\ DOMAIN <<>> = {}
    OBVIOUS
  <2>6. SentOf(r)'
    BY <2>1, <2>4
  <2>7. LoggedOf(r)'
    <3>1. CASE events'[r] = <<>>
      BY <2>1, <2>2, <2>4, <2>5, <3>1
    <3>2. CASE events'[r] # <<>>
      <4>1. PICK e \in {status[r], Dropped} : events'[r] = Append(<<>>, e)
        BY <2>1, <3>2
      <4>2. e # Dropped /\ sent'[r] # 0 => e = sent'[r]
        BY <2>1, <4>1 DEF Dropped
      <4> QED BY <2>1, <2>2, <4>1, <4>2
    <3> QED BY <3>1, <3>2
  <2> QED BY <2>6, <2>7
<1>18. CASE LogException(r)
  <2>1. /\ progress[r] = "raise" /\ events[r] = <<>> /\ ask' = ask /\ r \in Requests
        /\ \/ /\ progress'[r] = "ended" /\ ~logged[r]
              /\ \E e \in {500, Dropped} : events'[r] = Append(<<>>, e)
           \/ /\ MayFail(r) /\ progress'[r] = "ended" /\ events'[r] = <<>>
        /\ sent'[r] = (IF r \in here /\ sent[r] = 0 THEN 500 ELSE sent[r])
        /\ status' = status /\ left' = left
    BY <1>18 DEF LogException, Go, WriteEvent, Written, received
  <2>2. ASSUME NEW e \in {500, Dropped}, events'[r] = Append(<<>>, e)
        PROVE  /\ Len(events'[r]) = 1 /\ events'[r] # <<>>
               /\ \A i \in DOMAIN events'[r] : events'[r][i] = e
    <3>1. e \in Nat
      BY DEF Dropped
    <3> QED BY <2>2, <3>1, OneEvent
  <2>4. MayFail(r)' <=> MayFail(r)
    BY <2>1 DEF MayFail, MustFail, Summarized, Received
  <2>5. Len(<<>>) = 0 /\ DOMAIN <<>> = {}
    OBVIOUS
  <2>6. SentOf(r)'
    BY <2>1, <2>4
  <2>7. LoggedOf(r)'
    <3>1. CASE events'[r] = <<>>
      BY <2>1, <2>2, <2>4, <2>5, <3>1
    <3>2. CASE events'[r] # <<>>
      <4>1. PICK e \in {500, Dropped} : events'[r] = Append(<<>>, e)
        BY <2>1, <3>2
      <4>2. e # Dropped /\ sent'[r] # 0 => e = sent'[r]
        BY <2>1, <4>1 DEF Dropped
      <4> QED BY <2>1, <2>2, <4>1, <4>2
    <3> QED BY <3>1, <3>2
  <2> QED BY <2>6, <2>7
<1> QED BY <1>1, <1>2, <1>3, <1>4, <1>5, <1>6, <1>7, <1>8, <1>9, <1>10, <1>11, <1>12, <1>13,
   <1>14, <1>15, <1>16, <1>17, <1>18 DEF Handle

\* A step of one request keeps the conditions of all
LEMMA RequestsStep ==
    ASSUME ServeInv, NEW r \in Requests, Arrive(r) \/ Leave(r) \/ Handle(r)
    PROVE  ServeInv'
<1>1. ServeTypes'
  BY ServeTypesStep DEF ServeInv
<1>2. RequestInv(r)'
  BY LooksStep, LabelStep, MixedStep, SentStep DEF ServeInv, RequestInv
<1>3. ASSUME NEW q \in Requests, q # r
      PROVE  RequestInv(q)'
  <2>1. /\ ask'[q] = ask[q] /\ progress'[q] = progress[q] /\ looks'[q] = looks[q]
        /\ pages'[q] = pages[q] /\ label'[q] = label[q] /\ status'[q] = status[q]
        /\ sent'[q] = sent[q] /\ logged'[q] = logged[q] /\ events'[q] = events[q]
        /\ left'[q] = left[q] /\ content' = content /\ past' = past
    BY <1>3, OtherRequests DEF ServeInv
  <2>2. RequestInv(q)
    BY DEF ServeInv
  <2>3. LooksOf(q)' /\ LabelOf(q)' /\ MixedOf(q)'
    BY <2>1, <2>2 DEF RequestInv, LooksOf, LabelOf, MixedOf
  <2>4. SentOf(q)' /\ LoggedOf(q)'
    BY <2>1, <2>2 DEF RequestInv, SentOf, LoggedOf, MayFail, MustFail, Summarized, Received
  <2> QED BY <2>3, <2>4 DEF RequestInv
<1> QED BY <1>1, <1>2, <1>3 DEF ServeInv

LEMMA PublishKeeps ==
    ASSUME ServeInv, Publish
    PROVE  ServeInv'
<1>1. /\ past' = past \cup {content} /\ content' \in Contents
      /\ publications' = publications + 1 /\ publications < MaxPublications
  BY DEF Publish
<1>2. UNCHANGED <<judge, ask, left, here, progress, looks, pages, label, reads, guidance, status,
                  sent, logged, events>>
  BY DEF Publish, received, built, judged, logs
<1>3. ServeTypes'
  BY <1>1, <1>2, ServingAssumption DEF ServeInv, ServeTypes
<1>4. ASSUME NEW r \in Requests
      PROVE  RequestInv(r)'
  <2>1. RequestInv(r)
    BY DEF ServeInv
  <2>2. MayFail(r)' <=> MayFail(r)
    BY <1>2, Zenon DEF MayFail, MustFail, Summarized, Received
  <2>3. LooksOf(r)' /\ SentOf(r)' /\ LoggedOf(r)'
    BY <1>2, <2>1, <2>2, Zenon DEF RequestInv, LooksOf, SentOf, LoggedOf
  <2>4. LabelOf(r)' /\ MixedOf(r)'
    BY <1>1, <1>2, <2>1 DEF RequestInv, LabelOf, MixedOf
  <2> QED BY <2>3, <2>4 DEF RequestInv
<1> QED BY <1>3, <1>4 DEF ServeInv

LEMMA ServeStart == ServeInit => ServeInv
<1> SUFFICES ASSUME ServeInit PROVE ServeInv
  OBVIOUS
<1>1. ServeTypes
  <2>1. NoAsk \in Asks
    BY ServingAssumption DEF NoAsk, Asks, Bodies, Surfaces, Operations
  <2> QED BY <2>1, ServingAssumption DEF ServeInit, ServeTypes
<1>2. ASSUME NEW r \in Requests
      PROVE  RequestInv(r)
  <2>1. /\ ask[r].operation \notin LabelFirst /\ progress[r] = "new" /\ looks[r] = <<>>
        /\ pages[r] = Nothing /\ label[r] = Nothing /\ sent[r] = 0 /\ logged[r] = FALSE
        /\ events[r] = <<>>
    BY DEF ServeInit, NoAsk, LabelFirst
  <2> QED BY <2>1 DEF RequestInv, LooksOf, LabelOf, MixedOf, SentOf, LoggedOf
<1> QED BY <1>1, <1>2 DEF ServeInv

LEMMA ServeStep ==
    ASSUME ServeInv, [ServeNext]_serveVars
    PROVE  ServeInv'
<1>1. CASE Publish
  BY <1>1, PublishKeeps
<1>2. CASE \E r \in Requests : Arrive(r) \/ Leave(r) \/ Handle(r)
  BY <1>2, RequestsStep
<1>3. CASE UNCHANGED serveVars
  <2>1. UNCHANGED <<judge, content, past, publications, ask, left, here, progress, looks, pages,
                    label, reads, guidance, status, sent, logged, events>>
    BY <1>3 DEF serveVars, published, received, built, judged, logs
  <2>2. ASSUME NEW r \in Requests
        PROVE  MayFail(r)' <=> MayFail(r)
    BY <2>1 DEF MayFail, MustFail, Summarized, Received
  <2>3. ASSUME NEW r \in Requests
        PROVE  RequestInv(r)'
    <3>1. RequestInv(r)
      BY DEF ServeInv
    <3> QED BY <2>1, <2>2, <3>1, Zenon
            DEF RequestInv, LooksOf, LabelOf, MixedOf, SentOf, LoggedOf
  <2>4. ServeTypes'
    BY <2>1, Zenon DEF ServeInv, ServeTypes
  <2> QED BY <2>3, <2>4, Zenon DEF ServeInv
<1> QED BY <1>1, <1>2, <1>3 DEF ServeNext

LEMMA ServeInvariance == ServeSpec => []ServeInv
BY ServeStart, ServeStep, PTL DEF ServeSpec

\* The types of every request's state
THEOREM RequestTypes == ServeSpec => []ServeTypes
<1>1. ServeInv => ServeTypes
  BY DEF ServeInv
<1> QED BY <1>1, ServeInvariance, PTL

\* A bundle or a list of resources never hides that its pages are not of the content that its
\* label names (MixedShows).
THEOREM MixturesShow == ServeSpec => []MixedShows
<1>1. ServeInv => MixedShows
  BY DEF ServeInv, RequestInv, MixedOf, MixedShows, LabelFirst
<1> QED BY <1>1, ServeInvariance, PTL

\* The log has one event for every request that ended, with the status that was sent
\* (LoggedAsSent).
THEOREM RequestsAreLogged == ServeSpec => []LoggedAsSent
<1>1. ServeInv => LoggedAsSent
  BY DEF ServeInv, RequestInv, LoggedOf, LoggedAsSent, MayFail, MustFail
<1> QED BY <1>1, ServeInvariance, PTL

-----------------------------------------------------------------------------

McpInv ==
    /\ request \in HttpRequests
    /\ passage = "forwarded" => Passes(request) /\ got = Forwarded(request)

LEMMA McpStep == McpInv /\ [McpNext]_mcpVars => McpInv'
<1> SUFFICES ASSUME McpInv, [McpNext]_mcpVars PROVE McpInv'
  OBVIOUS
<1>1. CASE RefuseRequest
  BY <1>1 DEF McpInv, RefuseRequest
<1>2. CASE ForwardRequest
  <2>1. request' = request /\ got' = Forwarded(request) /\ Passes(request)
    BY <1>2 DEF ForwardRequest
  <2> QED BY <2>1, Zenon DEF McpInv
<1>3. CASE UNCHANGED mcpVars
  <2>1. request' = request /\ got' = got /\ passage' = passage
    BY <1>3 DEF mcpVars
  <2> QED BY <2>1, Zenon DEF McpInv
<1> QED BY <1>1, <1>2, <1>3 DEF McpNext

\* What stands for nothing is not taken for anything else
LEMMA NothingIsNowhere ==
    /\ Missing # Null /\ Missing # Malformed /\ Null # Malformed
    /\ \A v \in Values \cup Versions \cup {"theirs", Ours} :
          v # Missing /\ v # Null /\ v # Malformed
    /\ \A v \in Values : /\ Plain(v) \notin Nowhere
                         /\ Encoded(v) \notin Nowhere
BY McpAssumption DEF Nowhere

\* Objects are there
LEMMA MetasAreThere ==
    ASSUME NEW m \in [version : Versions \cup Nowhere, info : {"theirs", Ours} \cup Nowhere]
    PROVE  /\ m \notin Nowhere
           /\ \A n \in Names \cup {Missing} : [name |-> n, meta |-> m] \notin Nowhere
BY McpAssumption

LEMMA ParamsAreThere ==
    ASSUME NEW p \in [name : Names \cup {Missing}, meta : Metas]
    PROVE  p \notin Nowhere
<1>1. p \in [name : Names \cup {Missing},
             meta : Nowhere \cup [version : Versions \cup Nowhere,
                                  info : {"theirs", Ours} \cup Nowhere]]
  BY DEF Metas
<1> QED BY <1>1, McpAssumption

\* A text is decoded as it was encoded, unless it is sent in a form that would be decoded
LEMMA EncodedIsDecoded ==
    ASSUME NEW v \in Values
    PROVE  /\ Encode(v) # Missing
           /\ v \notin Wrapped => Decode(Encode(v)) = v
<1>1. Encode(v) = Plain(v) \/ Encode(v) = Encoded(v)
  BY DEF Encode
<1>2. Plain(v) \notin Nowhere /\ Encoded(v) \notin Nowhere
  BY NothingIsNowhere
<1>3. Plain(v).form = "plain" /\ Plain(v).text = v /\ Encoded(v).form # "plain" /\ Encoded(v).text = v
  BY DEF Plain, Encoded
<1> QED BY <1>1, <1>2, <1>3 DEF Decode, Nowhere

LEMMA StreamRequestTypes ==
    ASSUME NEW q \in HttpRequests
    PROVE  /\ q.method \in Methods \cup {Missing}
           /\ q.params \in Params
           /\ q.protocol \in Versions \cup {Missing, Malformed}
           /\ q = [accept |-> q.accept, method |-> q.method, params |-> q.params,
                   methodHeader |-> q.methodHeader, nameHeader |-> q.nameHeader,
                   protocol |-> q.protocol]
BY DEF HttpRequests

\* Of parameters that are an object, the _meta
LEMMA FieldsOrNot ==
    ASSUME NEW q \in HttpRequests
    PROVE  \/ q.params \in {Missing, Malformed} /\ ~Fields(q) /\ Meta(q) = Missing /\ ~HasMeta(q)
           \/ /\ Fields(q) /\ q.params.name \in Names \cup {Missing}
              /\ Meta(q) = q.params.meta /\ q.params.meta \in Metas
<1>1. q.params \in {Missing, Malformed} \/ q.params \in [name : Names \cup {Missing}, meta : Metas]
  BY StreamRequestTypes DEF Params
<1>2. CASE q.params \in {Missing, Malformed}
  <2>1. ~Fields(q)
    BY <1>2 DEF Fields
  <2>2. Meta(q) = Missing
    BY <2>1 DEF Meta
  <2> QED BY <1>2, <2>1, <2>2 DEF HasMeta
<1>3. CASE q.params \in [name : Names \cup {Missing}, meta : Metas]
  <2>1. q.params \notin {Missing, Malformed}
    BY <1>3, ParamsAreThere DEF Nowhere
  <2>2. Fields(q) /\ Meta(q) = q.params.meta
    BY <2>1 DEF Fields, Meta
  <2> QED BY <1>3, <2>2
<1> QED BY <1>1, <1>2, <1>3

\* The fields that are filled in are those of the request, and for the rest its protocol
\* version and what is known of its client
LEMMA FilledFields ==
    ASSUME NEW q \in HttpRequests, MetaAgrees(q), ~Odd(q)
    PROVE  Filled(q) = [version |-> q.protocol,
                        info |-> IF HasMeta(q) /\ Meta(q).info = "theirs" THEN "theirs" ELSE Ours]
<1>1. CASE HasMeta(q)
  <2>1. Meta(q) \in [version : Versions \cup Nowhere, info : {"theirs"} \cup Nowhere]
    BY <1>1, FieldsOrNot DEF HasMeta, Metas, Nowhere
  <2>2. Meta(q).info \in {"theirs", Missing} /\ Meta(q).version \in {Missing, q.protocol}
    BY <1>1, <2>1 DEF MetaAgrees, Odd, Nowhere
  <2>3. "theirs" # Missing
    BY NothingIsNowhere
  <2> QED BY <1>1, <2>2, <2>3 DEF Filled
<1>2. CASE ~HasMeta(q)
  BY <1>2 DEF Filled
<1> QED BY <1>1, <1>2

\* A request that passes and is of the current revision names a supported version
LEMMA CurrentPasses ==
    ASSUME NEW q \in HttpRequests, Passes(q), q.method # Missing, ~IsLegacy(q)
    PROVE  /\ q.protocol \in Supported /\ q.protocol \notin Nowhere
           /\ Mirrors(q.methodHeader, q.method) /\ MetaAgrees(q)
           /\ q.method = "tools/call" => Mirrors(q.nameHeader, RequiredName(q))
<1>1. q.protocol \in Supported
  BY DEF Passes
<1>2. q.protocol \in Versions
  BY <1>1 DEF Versions
<1> QED BY <1>1, <1>2, NothingIsNowhere DEF Passes, Nowhere

\* What has the same method and name gets the same mirror headers, which are then there
LEMMA WithHeadersIs ==
    ASSUME NEW q, NEW n, NEW h, NEW accept, NEW method, NEW params, NEW protocol,
           q = [accept |-> accept, method |-> method, params |-> params, methodHeader |-> h,
                nameHeader |-> n, protocol |-> protocol]
    PROVE  WithHeaders(q) =
             [accept |-> accept, method |-> method, params |-> params,
              methodHeader |-> IF h = Missing THEN Encode(method) ELSE h,
              nameHeader |-> IF n = Missing /\ RequiredName(q) # Missing
                             THEN Encode(RequiredName(q)) ELSE n,
              protocol |-> protocol]
<1> DEFINE name == RequiredName(q)
<1> HIDE DEF name
<1>1. q.method = method /\ q.methodHeader = h /\ q.nameHeader = n
  OBVIOUS
<1>2. WithHeaders(q) = [q EXCEPT !.methodHeader = IF h = Missing THEN Encode(method) ELSE h,
                                 !.nameHeader = IF n = Missing /\ name # Missing
                                                THEN Encode(name) ELSE n]
  BY <1>1 DEF WithHeaders, name
<1> QED BY <1>2 DEF name

\* The parameters that reach the SDK
ParamsOf(q) ==
    IF IsLegacy(q) \/ q.params = Malformed THEN q.params
    ELSE [name |-> IF Fields(q) THEN q.params.name ELSE Missing, meta |-> Filled(q)]

LEMMA WithMetaIs ==
    ASSUME NEW q \in HttpRequests, Passes(q), q.method # Missing
    PROVE  WithMeta(q) = [q EXCEPT !.params = ParamsOf(q)]
<1>0. q = [q EXCEPT !.params = q.params]
  BY StreamRequestTypes
<1>1. CASE IsLegacy(q)
  <2>1. Missing \notin Versions
    BY NothingIsNowhere
  <2>2. q.protocol \notin Supported
    BY <1>1, <2>1 DEF IsLegacy, Versions
  <2> QED BY <1>0, <1>1, <2>2 DEF WithMeta, ParamsOf
<1>2. CASE ~IsLegacy(q)
  <2>1. q.protocol \in Supported /\ Meta(q) \notin {Null, Malformed}
    BY <1>2, CurrentPasses DEF MetaAgrees
  <2> QED BY <1>0, <1>2, <2>1 DEF WithMeta, ParamsOf
<1> QED BY <1>1, <1>2

\* They name what the request names
LEMMA SameName ==
    ASSUME NEW q \in HttpRequests, Passes(q), q.method # Missing, ~Odd(q),
           NEW g, g.method = q.method, g.params = ParamsOf(q)
    PROVE  /\ RequiredName(g) = RequiredName(q)
           /\ RequiredName(q) \in Names \cup {Missing}
           /\ ~IsLegacy(q) /\ q.params # Malformed =>
                /\ Fields(g) /\ HasMeta(g) /\ Meta(g) = Filled(q)
                /\ g.params = [name |-> g.params.name, meta |-> Filled(q)]
           /\ ~IsLegacy(q) /\ q.params = Malformed => Meta(g) = Missing /\ ~HasMeta(g)
<1>1. RequiredName(q) \in Names \cup {Missing}
  BY FieldsOrNot DEF RequiredName
<1>2. CASE IsLegacy(q) \/ q.params = Malformed
  <2>1. g.params = q.params
    BY <1>2 DEF ParamsOf
  <2>2. RequiredName(g) = RequiredName(q)
    BY <2>1 DEF RequiredName, Fields
  <2>3. q.params = Malformed => Meta(g) = Missing
    BY <2>1 DEF Meta, Fields
  <2> QED BY <1>1, <1>2, <2>2, <2>3 DEF HasMeta
<1>3. CASE ~IsLegacy(q) /\ q.params # Malformed
  <2> DEFINE n == IF Fields(q) THEN q.params.name ELSE Missing
             m == Filled(q)
  <2>1. g.params = [name |-> n, meta |-> m]
    BY <1>3 DEF ParamsOf
  <2>2. n \in Names \cup {Missing}
    BY FieldsOrNot
  <2>3. m = [version |-> q.protocol,
             info |-> IF HasMeta(q) /\ Meta(q).info = "theirs" THEN "theirs" ELSE Ours]
    BY <1>3, CurrentPasses, FilledFields
  <2>4. m \in [version : Versions \cup Nowhere, info : {"theirs", Ours} \cup Nowhere]
    BY <1>3, <2>3, CurrentPasses DEF Versions
  <2>5. m \notin Nowhere /\ [name |-> n, meta |-> m] \notin Nowhere
    BY <2>2, <2>4, MetasAreThere
  <2>6. Fields(g)
    BY <2>1, <2>5 DEF Fields, Nowhere
  <2>7. Meta(g) = m /\ g.params.name = n
    BY <2>1, <2>6 DEF Meta
  <2>8. HasMeta(g)
    BY <2>5, <2>7 DEF HasMeta, Nowhere
  <2>9. RequiredName(g) = RequiredName(q)
    <3>1. CASE Fields(q)
      BY <3>1, <2>6, <2>7 DEF RequiredName
    <3>2. CASE ~Fields(q)
      BY <3>2, <2>6, <2>7 DEF RequiredName
    <3> QED BY <3>1, <3>2
  <2> QED BY <1>1, <1>3, <2>1, <2>6, <2>7, <2>8, <2>9
<1> QED BY <1>2, <1>3

\* What reaches the SDK of a request with a method
LEMMA ForwardedIs ==
    ASSUME NEW q \in HttpRequests, Passes(q), q.method # Missing, ~Odd(q)
    PROVE  Forwarded(q) =
             [accept |-> q.accept, method |-> q.method, params |-> ParamsOf(q),
              methodHeader |-> IF q.methodHeader = Missing THEN Encode(q.method)
                               ELSE q.methodHeader,
              nameHeader |-> IF q.nameHeader = Missing /\ RequiredName(q) # Missing
                             THEN Encode(RequiredName(q)) ELSE q.nameHeader,
              protocol |-> q.protocol]
<1> DEFINE w == WithMeta(q)
<1>1. w = [accept |-> q.accept, method |-> q.method, params |-> ParamsOf(q),
           methodHeader |-> q.methodHeader, nameHeader |-> q.nameHeader, protocol |-> q.protocol]
  <2> HIDE DEF w
  <2>1. w = [q EXCEPT !.params = ParamsOf(q)]
    BY WithMetaIs DEF w
  <2> QED BY <2>1, StreamRequestTypes
<1> HIDE DEF w
<1>2. w.method = q.method /\ w.params = ParamsOf(q)
  BY <1>1
<1>3. RequiredName(w) = RequiredName(q)
  BY <1>2, SameName
<1>4. Forwarded(q) = WithHeaders(w)
  BY DEF Forwarded, w
<1> QED BY <1>1, <1>3, <1>4, WithHeadersIs

\* Its headers name what its body names
LEMMA HeadersAgree ==
    ASSUME NEW q \in HttpRequests, Passes(q), q.method # Missing, ~Odd(q)
    PROVE  LET g == Forwarded(q)
           IN  /\ g.methodHeader # Missing /\ Decode(g.methodHeader) = q.method
               /\ RequiredName(q) # Missing =>
                    g.nameHeader # Missing /\ Decode(g.nameHeader) = RequiredName(q)
               /\ q.method = "tools/call" => Mirrors(g.nameHeader, RequiredName(q))
<1> DEFINE g == Forwarded(q)
<1>0. /\ g.methodHeader = IF q.methodHeader = Missing THEN Encode(q.method) ELSE q.methodHeader
      /\ g.nameHeader = IF q.nameHeader = Missing /\ RequiredName(q) # Missing
                        THEN Encode(RequiredName(q)) ELSE q.nameHeader
  BY ForwardedIs
<1> HIDE DEF g
<1>1. g.methodHeader # Missing /\ Decode(g.methodHeader) = q.method
  <2>1. q.method \in Values /\ q.method \notin Wrapped
    BY StreamRequestTypes, McpAssumption DEF Values
  <2>2. Encode(q.method) # Missing /\ Decode(Encode(q.method)) = q.method
    BY <2>1, EncodedIsDecoded
  <2>3. q.methodHeader # Missing => Decode(q.methodHeader) = q.method
    BY CurrentPasses DEF IsLegacy, Mirrors
  <2> QED BY <1>0, <2>2, <2>3
<1>2. ASSUME RequiredName(q) # Missing
      PROVE  /\ q.method = "tools/call"
             /\ g.nameHeader # Missing /\ Decode(g.nameHeader) = RequiredName(q)
  <2>1. q.method = "tools/call"
    BY <1>2 DEF RequiredName
  <2>2. RequiredName(q) \in Names \cup {Missing}
    BY FieldsOrNot DEF RequiredName
  <2>3. RequiredName(q) \in Values /\ RequiredName(q) \notin Wrapped
    BY <1>2, <2>2 DEF Values, Odd
  <2>4. Encode(RequiredName(q)) # Missing /\ Decode(Encode(RequiredName(q))) = RequiredName(q)
    BY <2>3, EncodedIsDecoded
  <2>5. ~IsLegacy(q)
    BY <2>1 DEF IsLegacy
  <2>6. q.nameHeader # Missing => Decode(q.nameHeader) = RequiredName(q)
    BY <2>1, <2>5, CurrentPasses DEF Mirrors
  <2> QED BY <1>0, <1>2, <2>1, <2>4, <2>6
<1>3. ASSUME q.method = "tools/call"
      PROVE  Mirrors(g.nameHeader, RequiredName(q))
  <2>1. ~IsLegacy(q)
    BY <1>3 DEF IsLegacy
  <2>2. Mirrors(q.nameHeader, RequiredName(q))
    BY <1>3, <2>1, CurrentPasses
  <2> QED BY <1>0, <1>2, <2>2 DEF Mirrors
<1> QED BY <1>1, <1>2, <1>3 DEF g

\* It is of the revision of the request
LEMMA SameRevision ==
    ASSUME NEW q \in HttpRequests, Passes(q), q.method # Missing, ~Odd(q)
    PROVE  IsLegacy(Forwarded(q)) <=> IsLegacy(q)
<1> DEFINE g == Forwarded(q)
<1>0. /\ g.method = q.method /\ g.params = ParamsOf(q) /\ g.protocol = q.protocol
      /\ Decode(g.methodHeader) = q.method
  BY ForwardedIs, HeadersAgree
<1> HIDE DEF g
<1>1. CASE IsLegacy(q)
  <2>1. g.params = q.params
    BY <1>0, <1>1 DEF ParamsOf
  <2>2. Meta(g) = Meta(q)
    BY <2>1 DEF Meta, Fields
  <2>3. HasMeta(g) <=> HasMeta(q)
    BY <2>2 DEF HasMeta
  <2>4. IsLegacy(g)
    BY <1>0, <1>1, <2>2, <2>3 DEF IsLegacy
  <2> QED BY <1>1, <2>4 DEF g
<1>2. CASE ~IsLegacy(q)
  <2>1. g.protocol # Missing
    BY <1>0, <1>2, CurrentPasses DEF Nowhere
  <2> QED BY <1>2, <2>1 DEF IsLegacy, g
<1> QED BY <1>1, <1>2

\* Its _meta is complete and names the version of the header
LEMMA MetaIsComplete ==
    ASSUME NEW q \in HttpRequests, Passes(q), q.method # Missing, ~Odd(q), ~IsLegacy(q)
    PROVE  LET g == Forwarded(q)
           IN  /\ MetaAgrees(g)
               /\ q.params # Malformed =>
                    /\ HasMeta(g) /\ Meta(g) = Filled(q) /\ Filled(g) = Filled(q)
                    /\ Meta(g).version = g.protocol
                    /\ Meta(g).info = IF HasMeta(q) /\ Meta(q).info = "theirs"
                                       THEN "theirs" ELSE Ours
<1> DEFINE g == Forwarded(q)
<1>0. g.method = q.method /\ g.params = ParamsOf(q) /\ g.protocol = q.protocol
  BY ForwardedIs
<1> HIDE DEF g
<1>1. CASE q.params = Malformed
  <2>1. Meta(g) = Missing /\ ~HasMeta(g)
    BY <1>0, <1>1, SameName
  <2> QED BY <1>1, <2>1, NothingIsNowhere DEF MetaAgrees, g
<1>2. CASE q.params # Malformed
  <2>1. HasMeta(g) /\ Meta(g) = Filled(q)
    BY <1>0, <1>2, SameName
  <2> DEFINE info == IF HasMeta(q) /\ Meta(q).info = "theirs" THEN "theirs" ELSE Ours
  <2> HIDE DEF info
  <2>2. Filled(q) = [version |-> q.protocol, info |-> info]
    BY CurrentPasses, FilledFields DEF info
  <2>3. Meta(g).version = q.protocol /\ Meta(g).info = info
    BY <2>1, <2>2
  <2>4. info # Missing /\ info # Malformed /\ q.protocol # Missing
    BY CurrentPasses, NothingIsNowhere DEF info, Nowhere
  <2>5. MetaAgrees(g)
    BY <1>0, <2>1, <2>3, <2>4 DEF MetaAgrees, HasMeta
  <2>6. Filled(g) = [version |-> q.protocol, info |-> info]
    BY <2>1, <2>3, <2>4 DEF Filled
  <2> QED BY <1>0, <2>1, <2>2, <2>3, <2>5, <2>6 DEF g, info
<1> QED BY <1>1, <1>2

\* It would pass again
LEMMA PassesAgain ==
    ASSUME NEW q \in HttpRequests, Passes(q), q.method # Missing, ~Odd(q)
    PROVE  Passes(Forwarded(q))
<1> DEFINE g == Forwarded(q)
<1>0. g.accept = q.accept /\ g.method = q.method /\ g.params = ParamsOf(q)
      /\ g.protocol = q.protocol
  BY ForwardedIs
<1>1. IsLegacy(g) <=> IsLegacy(q)
  BY SameRevision
<1>2. /\ g.methodHeader # Missing /\ Decode(g.methodHeader) = q.method
      /\ q.method = "tools/call" => Mirrors(g.nameHeader, RequiredName(q))
  BY HeadersAgree
<1>3. ~IsLegacy(q) => MetaAgrees(g)
  BY MetaIsComplete
<1> HIDE DEF g
<1>4. RequiredName(g) = RequiredName(q)
  BY <1>0, SameName
<1>5. ~IsLegacy(q) => g.protocol \in Supported
  BY <1>0, CurrentPasses
<1>6. g.accept
  BY <1>0 DEF Passes
<1>7. Mirrors(g.methodHeader, g.method)
  BY <1>0, <1>2 DEF Mirrors
<1>8. g.method = "tools/call" => Mirrors(g.nameHeader, RequiredName(g))
  BY <1>0, <1>2, <1>4
<1>9. Passes(g)
  BY <1>1, <1>3, <1>5, <1>6, <1>7, <1>8, Zenon DEF Passes
<1> QED BY <1>9 DEF g

\* and be left unchanged
LEMMA UnchangedAgain ==
    ASSUME NEW q \in HttpRequests, Passes(q), q.method # Missing, ~Odd(q)
    PROVE  Forwarded(Forwarded(q)) = Forwarded(q)
<1> DEFINE g == Forwarded(q)
           h == IF q.methodHeader = Missing THEN Encode(q.method) ELSE q.methodHeader
           n == IF q.nameHeader = Missing /\ RequiredName(q) # Missing
                THEN Encode(RequiredName(q)) ELSE q.nameHeader
<1>0. g = [accept |-> q.accept, method |-> q.method, params |-> ParamsOf(q),
           methodHeader |-> h, nameHeader |-> n, protocol |-> q.protocol]
  BY ForwardedIs
<1>1. /\ g.methodHeader # Missing
      /\ RequiredName(q) # Missing => g.nameHeader # Missing
  BY HeadersAgree
<1>2. ~IsLegacy(q) /\ q.params # Malformed => Filled(g) = Filled(q)
  BY MetaIsComplete
<1> HIDE DEF g, h, n
<1>3. g.method = q.method /\ g.params = ParamsOf(q) /\ g.protocol = q.protocol
      /\ g.methodHeader = h /\ g.nameHeader = n
  BY <1>0
<1>4. RequiredName(g) = RequiredName(q)
  BY <1>3, SameName
<1>5. WithMeta(g) = g
  <2>1. CASE IsLegacy(q)
    <3>1. q.protocol \notin Supported
      BY <2>1, NothingIsNowhere DEF IsLegacy, Versions
    <3> QED BY <1>3, <3>1 DEF WithMeta
  <2>2. CASE ~IsLegacy(q) /\ q.params = Malformed
    BY <1>3, <2>2 DEF WithMeta, ParamsOf
  <2>3. CASE ~IsLegacy(q) /\ q.params # Malformed
    <3>1. Fields(g) /\ HasMeta(g) /\ g.params = [name |-> g.params.name, meta |-> Filled(q)]
      BY <1>3, <2>3, SameName
    <3>2. g = [g EXCEPT !.params = g.params]
      BY <1>0
    <3> QED BY <1>2, <2>3, <3>1, <3>2 DEF WithMeta
  <2> QED BY <2>1, <2>2, <2>3
<1>6. WithHeaders(g) = g
  BY <1>0, <1>1, <1>3, <1>4, WithHeadersIs
<1>7. Forwarded(g) = g
  BY <1>3, <1>5, <1>6 DEF Forwarded
<1> QED BY <1>7 DEF g

LEMMA McpInvariance == McpSpec => []McpInv
<1>1. McpInit => McpInv
  <2>1. "received" # "forwarded"
    OBVIOUS
  <2> QED BY <2>1 DEF McpInit, McpInv
<1> QED BY <1>1, McpStep, PTL DEF McpSpec

\* Whatever a client of the stream writes and whatever versions are supported, what reaches the
\* SDK agrees with itself, and would pass and be left unchanged if it were sent again
\* (ForwardedAgrees).
THEOREM ForwardedRequestsAgree == McpSpec => []ForwardedAgrees
<1>1. McpInv => ForwardedAgrees
  <2> SUFFICES ASSUME McpInv, passage = "forwarded", request.method # Missing, ~Odd(request)
               PROVE  ForwardedAgrees
    BY DEF ForwardedAgrees
  <2>1. request \in HttpRequests /\ Passes(request) /\ got = Forwarded(request)
    BY DEF McpInv
  <2>2. got.method = request.method /\ got.params = ParamsOf(request)
    BY <2>1, ForwardedIs
  <2>3. IsLegacy(request) => got.params = request.params
    BY <2>2 DEF ParamsOf
  <2>4. ~IsLegacy(request) /\ request.params # Malformed =>
            /\ Meta(got).version = got.protocol
            /\ Meta(got).info = IF HasMeta(request) /\ Meta(request).info = "theirs"
                                THEN "theirs" ELSE Ours
    BY <2>1, MetaIsComplete
  <2>5. RequiredName(got) = RequiredName(request)
    BY <2>1, <2>2, SameName
  <2>6. /\ Decode(got.methodHeader) = got.method
        /\ RequiredName(got) # Missing => Decode(got.nameHeader) = RequiredName(got)
    BY <2>1, <2>2, <2>5, HeadersAgree
  <2>7. Passes(got) /\ Forwarded(got) = got
    BY <2>1, PassesAgain, UnchangedAgain
  <2> QED BY <2>3, <2>4, <2>5, <2>6, <2>7, Zenon DEF ForwardedAgrees
<1> QED BY <1>1, McpInvariance, PTL

-----------------------------------------------------------------------------

\* What the options and the environment ask for
Asked(option, env) == IF settings.way = "serve" /\ option = {} THEN env ELSE option

\* The tools of a server that runs are listed, those asked for and none excluded, with the
\* descriptions of the title it was started with, and refused or not as they are listed
ListInv ==
    /\ retitles \in Nat
    /\ ~Started => wanted = Unasked /\ \A side \in Sides : answers[side].does = "nothing"
    /\ Started =>
        /\ app.tools # {} /\ app.tools \subseteq Tools
        /\ app.tools \cap Asked(settings.exclude, settings.excludeEnv) = {}
        /\ Asked(settings.include, settings.includeEnv) # {} =>
             app.tools \subseteq Asked(settings.include, settings.includeEnv)
        /\ DOMAIN shown = app.tools
        /\ \A tool \in app.tools \ {"graph"} : shown[tool].names \subseteq app.tools
        /\ retitles = 0 => shown = Descriptions(app.tools, app.tools)
        /\ \A side \in {"rpc", "stream"} : answers[side].does # "nothing" =>
             (answers[side].does = "refuses" <=> wanted.operation \notin app.tools)

LEMMA ListInit == CallsInit => ListInv
<1> SUFFICES ASSUME CallsInit PROVE ListInv
  OBVIOUS
<1>1. ~Started
  BY DEF CallsInit, CallsAtRest, Started
<1>2. \A side \in Sides : answers[side].does = "nothing"
  BY DEF CallsInit, CallsAtRest, Response
<1>3. retitles = 0 /\ wanted = Unasked
  BY DEF CallsInit, CallsAtRest
<1> QED BY <1>1, <1>2, <1>3 DEF ListInv

\* A selection has tools, all of them included and none excluded
LEMMA SelectedAmongTools ==
    ASSUME NEW include, NEW exclude, NEW on \in ResolveMcpToolSelection(include, exclude)
    PROVE  /\ on # {} /\ on \subseteq Tools /\ on \cap exclude = {}
           /\ include # {} => on \subseteq include
BY DEF ResolveMcpToolSelection

\* What is resolved has a selection of the tools asked for
LEMMA ResolvedTools ==
    ASSUME NEW a \in Resolved
    PROVE  a.tools \in ResolveMcpToolSelection(Asked(settings.include, settings.includeEnv),
                                               Asked(settings.exclude, settings.excludeEnv))
<1>1. \A option, env : Asked(option, env) = IF settings.way = "serve"
                                            THEN ResolvedNames(option, env) ELSE option
  BY DEF Asked, ResolvedNames
<1> QED BY <1>1 DEF Resolved

\* The stream lists what is selected, with names that are
LEMMA DescribedTools ==
    ASSUME NEW on \in SUBSET Tools
    PROVE  LET list == Descriptions(StreamTools(on), on)
           IN  /\ list = Descriptions(on, on) /\ DOMAIN list = on
               /\ \A tool \in on \ {"graph"} : list[tool].names \subseteq on
<1>1. StreamTools(on) = on
  BY DEF StreamTools
<1> QED BY <1>1 DEF Descriptions

LEMMA ListStep == ListInv /\ [CallsNext]_callVars => ListInv'
<1> SUFFICES ASSUME ListInv, [CallsNext]_callVars PROVE ListInv'
  OBVIOUS
<1>1. CASE StartServer
  <2>1. app = Down /\ ~Started
    BY <1>1 DEF StartServer, Started
  <2>2. /\ settings' = settings /\ title' = title /\ retitles' = retitles
        /\ wanted' = Unasked /\ answers' = answers
    BY <1>1, <2>1 DEF StartServer, ListInv
  <2>3. \A side \in Sides : answers'[side].does = "nothing"
    BY <2>1, <2>2 DEF ListInv
  <2>4. CASE app' = Refused
    BY <2>2, <2>3, <2>4 DEF ListInv, Started
  <2>5. CASE \E a \in Resolved : app' = a /\ shown' = Descriptions(StreamTools(a.tools), a.tools)
    <3>1. PICK a \in Resolved : app' = a /\ shown' = Descriptions(StreamTools(a.tools), a.tools)
      BY <2>5
    <3>2. /\ a.tools # {} /\ a.tools \subseteq Tools
          /\ a.tools \cap Asked(settings.exclude, settings.excludeEnv) = {}
          /\ Asked(settings.include, settings.includeEnv) # {} =>
               a.tools \subseteq Asked(settings.include, settings.includeEnv)
      BY ResolvedTools, SelectedAmongTools
    <3>3. /\ shown' = Descriptions(a.tools, a.tools) /\ DOMAIN shown' = a.tools
          /\ \A tool \in a.tools \ {"graph"} : shown'[tool].names \subseteq a.tools
      BY <3>1, <3>2, DescribedTools
    <3>4. Descriptions(a.tools, a.tools)' = Descriptions(a.tools, a.tools)
      BY <2>2 DEF Descriptions
    <3>5. \A option, env : Asked(option, env)' = Asked(option, env)
      BY <2>2 DEF Asked
    <3>6. "rpc" \in Sides /\ "stream" \in Sides
      BY DEF Sides
    <3> QED BY <2>2, <2>3, <3>1, <3>2, <3>3, <3>4, <3>5, <3>6 DEF ListInv
  <2> QED BY <1>1, <2>4, <2>5 DEF StartServer
<1>2. CASE Retitle
  <2>1. /\ settings' = settings /\ app' = app /\ shown' = shown /\ wanted' = wanted
        /\ answers' = answers /\ retitles' = retitles + 1
    BY <1>2 DEF Retitle
  <2>2. retitles' \in Nat /\ retitles' # 0
    BY <2>1 DEF ListInv
  <2>3. Started' <=> Started
    BY <2>1 DEF Started
  <2> QED BY <2>1, <2>2, <2>3 DEF ListInv, Asked
<1>3. CASE Ask
  <2>1. /\ settings' = settings /\ app' = app /\ shown' = shown /\ title' = title
        /\ retitles' = retitles /\ Started
    BY <1>3 DEF Ask
  <2>2. Started'
    BY <2>1 DEF Started
  <2>3. ASSUME NEW side \in {"rpc", "stream"}, answers'[side].does # "nothing"
        PROVE  answers'[side].does = "refuses" <=> wanted'.operation \notin app.tools
    <3> DEFINE unwritten == \E a \in DOMAIN wanted'.given :
                               ~CanWrite(side, wanted'.operation, a, wanted'.given[a])
               calls == CallsFrom(side, wanted')
    <3>1. answers'[side] = IF unwritten THEN Response("nothing", {})
                           ELSE IF IsDisabled(side, wanted'.operation) THEN Response("refuses", {})
                           ELSE Response("parses", calls)
      BY <1>3 DEF Ask, Sides
    <3>2. IsDisabled(side, wanted'.operation) <=> wanted'.operation \notin app.tools
      BY DEF IsDisabled
    <3> HIDE DEF unwritten, calls
    <3>3. /\ Response("nothing", {}).does = "nothing" /\ Response("refuses", {}).does = "refuses"
          /\ Response("parses", calls).does = "parses"
      BY DEF Response
    <3> QED BY <2>3, <3>1, <3>2, <3>3
  <2>4. Descriptions(app.tools, app.tools)' = Descriptions(app.tools, app.tools)
    BY <2>1 DEF Descriptions
  <2>5. \A option, env : Asked(option, env)' = Asked(option, env)
    BY <2>1 DEF Asked
  <2> QED BY <2>1, <2>2, <2>3, <2>4, <2>5 DEF ListInv
<1>4. CASE UNCHANGED callVars
  <2>1. UNCHANGED <<settings, app, title, shown, retitles, wanted, answers>>
    BY <1>4 DEF callVars
  <2> QED BY <2>1, Zenon DEF ListInv, Started, Asked, Descriptions
<1> QED BY <1>1, <1>2, <1>3, <1>4 DEF CallsNext

\* For any selection of tools by options and environment, what is listed is what can be called
\* (ToolsAsListed).
THEOREM ListedToolsAreCallable == CallsSpec => []ToolsAsListed
<1>1. ListInv => ToolsAsListed
  <2> SUFFICES ASSUME ListInv, Started PROVE ToolsAsListed
    BY DEF ToolsAsListed
  <2>1. DOMAIN shown = app.tools
    BY DEF ListInv
  <2> QED BY <2>1 DEF ListInv, ToolsAsListed, Asked
<1> QED BY <1>1, ListInit, ListStep, PTL DEF CallsSpec

-----------------------------------------------------------------------------

\* A set of the numbers up to L that has 0, and with each number the next, has them all
LEMMA Upto ==
    ASSUME NEW L \in Nat, NEW N, 0 \in N, \A n \in 0..L : n \in N /\ n < L => n + 1 \in N
    PROVE  0..L \subseteq N
<1> SUFFICES ASSUME (0..L) \ N # {} PROVE FALSE
  OBVIOUS
<1> DEFINE R == {ss \in Nat \X Nat : ss[1] < ss[2]}
<1>1. IsWellFoundedOn(R, Nat)
  BY NatLessThanWellFounded DEF OpToRel
<1>2. PICK m \in (0..L) \ N : \A k \in (0..L) \ N : <<k, m>> \notin R
  BY <1>1, WFMin
<1>3. m # 0 /\ m - 1 \in 0..L /\ m - 1 < m /\ m \in Nat
  BY <1>2
<1>4. <<m - 1, m>> \in R
  BY <1>3
<1> HIDE DEF R
<1>5. m - 1 \in N
  BY <1>2, <1>3, <1>4
<1>6. m - 1 < L
  BY <1>2
<1>7. (m - 1) + 1 = m
  BY <1>3
<1> QED BY <1>2, <1>3, <1>5, <1>6, <1>7

Counts == {"limit", "graphLimit", "neighborLimit", "depth"}

\* A number is brought within its bounds, and left alone there
LEMMA Clamping ==
    ASSUME NEW a \in Numeric, NEW n \in Int
    PROVE  Clamp(n, a) \in InBounds(a) /\ (n \in InBounds(a) => Clamp(n, a) = n)
<1> DEFINE lo == Bounds[a][1]
           hi == Bounds[a][2]
<1>1. lo \in Int /\ hi \in Int /\ lo <= hi
  BY CallsAssumption
<1> HIDE DEF lo, hi
<1>2. Min({n, hi}) = IF n <= hi THEN n ELSE hi
  BY <1>1 DEF Min
<1> DEFINE m == Min({n, hi})
<1>3. m \in Int /\ m <= hi
  BY <1>1, <1>2
<1> HIDE DEF m
<1>4. Max({lo, m}) = IF lo <= m THEN m ELSE lo
  BY <1>1, <1>3 DEF Max
<1>5. Clamp(n, a) = Max({lo, m}) /\ InBounds(a) = lo..hi
  BY DEF Clamp, InBounds, lo, hi, m
<1> QED BY <1>1, <1>2, <1>3, <1>4, <1>5 DEF m

LEMMA Kinds ==
    ASSUME NEW x, IsValue(x)
    PROVE  /\ Type(x) \in {"absent", "null", "infinite", "number", "fraction", "flag", "text", "list"}
           /\ Type(x) = "absent" <=> x = Absent
           /\ Type(x) = "null" <=> x = NoValue
           /\ Type(x) = "infinite" <=> x = Infinite
           /\ Type(x) \in {"number", "fraction"} => x = <<Type(x), x[2]>> /\ x[2] \in Int
           /\ Type(x) = "flag" => x = Flag(x[2]) /\ x[2] \in BOOLEAN
           /\ Type(x) = "text" => x = Text(x[2]) /\ x[2] \in STRING
           /\ Type(x) = "list" => x = Texts(x[2]) /\ x[2] \in Seq(STRING)
           /\ Empty(x) <=> Type(x) \in {"absent", "null"}
BY DEF IsValue, Type, Absent, NoValue, Infinite, Flag, Text, Texts, Empty

\* What a value that pydantic or int() takes for an integer stands for
MeantInt(x) == LaxInt(x) \cup PyInt(x)

LEMMA Ints ==
    ASSUME NEW x, IsValue(x)
    PROVE  /\ MeantInt(x) = {} \/ \E n \in Int : MeantInt(x) = {n}
           /\ Type(x) \notin {"number", "fraction", "flag", "text"} => MeantInt(x) = {}
           /\ x = Text("") => MeantInt(x) = {}
           /\ x \notin {Text(t) : t \in DOMAIN LaxTexts \ DOMAIN IntTexts} => PyInt(x) = MeantInt(x)
<1>0. Type(x) # "text" => x \notin {Text(t) : t \in DOMAIN LaxTexts \ DOMAIN IntTexts} /\ x # Text("")
  <2>1. \A t : Type(Text(t)) = "text"
    BY DEF Type, Text
  <2> QED BY <2>1
<1>1. CASE Type(x) = "number"
  BY <1>0, <1>1, Kinds DEF LaxInt, PyInt, MeantInt
<1>2. CASE Type(x) = "fraction"
  <2>1. x[2] \in Int
    BY <1>2, Kinds
  <2> DEFINE n == IF x[2] >= 0 THEN x[2] ELSE x[2] + 1
  <2>2. n \in Int
    BY <2>1
  <2>3. PyInt(x) = {n} /\ LaxInt(x) = {}
    BY <1>2 DEF LaxInt, PyInt, ReadBy
  <2> HIDE DEF n
  <2> QED BY <1>0, <1>2, <2>2, <2>3 DEF MeantInt
<1>3. CASE Type(x) = "flag"
  <2>1. LaxInt(x) = {IF x[2] THEN 1 ELSE 0}
    <3>1. x[2] = TRUE \/ x[2] = FALSE
      BY <1>3, Kinds, Zenon
    <3>2. CASE x[2] = TRUE
      BY <1>3, <3>2 DEF LaxInt
    <3>3. CASE x[2] = FALSE
      BY <1>3, <3>3 DEF LaxInt
    <3> QED BY <3>1, <3>2, <3>3
  <2>2. PyInt(x) = LaxInt(x)
    BY <1>3 DEF PyInt
  <2> DEFINE n == IF x[2] THEN 1 ELSE 0
  <2>3. n \in Int
    OBVIOUS
  <2> HIDE DEF n
  <2>4. LaxInt(x) = {n}
    BY <2>1 DEF n
  <2> QED BY <1>0, <1>3, <2>2, <2>3, <2>4 DEF MeantInt
<1>4. CASE Type(x) = "text"
  <2>1. /\ LaxInt(x) = ReadBy(LaxTexts, x) /\ PyInt(x) = ReadBy(IntTexts, x)
        /\ x = Text(x[2]) /\ \A t : Text(t)[2] = t
    BY <1>4, Kinds DEF LaxInt, PyInt, Text
  <2>2. CASE x[2] \in DOMAIN LaxTexts
    <3>1. LaxTexts[x[2]] \in Int /\ x[2] # ""
      BY <2>2, CallsAssumption
    <3>2. LaxInt(x) = {LaxTexts[x[2]]}
      BY <1>4, <2>1, <2>2 DEF ReadBy
    <3>3. CASE x[2] \in DOMAIN IntTexts
      <4>1. IntTexts[x[2]] = LaxTexts[x[2]]
        BY <2>2, <3>3, CallsAssumption
      <4>2. PyInt(x) = {LaxTexts[x[2]]}
        BY <1>4, <2>1, <3>3, <4>1 DEF ReadBy
      <4> QED BY <1>4, <2>1, <3>1, <3>2, <4>2 DEF MeantInt
    <3>4. CASE x[2] \notin DOMAIN IntTexts
      <4>1. PyInt(x) = {}
        BY <2>1, <3>4 DEF ReadBy
      <4>2. x \in {Text(t) : t \in DOMAIN LaxTexts \ DOMAIN IntTexts}
        BY <2>1, <2>2, <3>4
      <4> QED BY <1>4, <2>1, <3>1, <3>2, <4>1, <4>2 DEF MeantInt
    <3> QED BY <3>3, <3>4
  <2>3. CASE x[2] \notin DOMAIN LaxTexts
    <3>1. LaxInt(x) = {}
      BY <2>1, <2>3 DEF ReadBy
    <3>2. CASE x[2] \in DOMAIN IntTexts
      <4>1. IntTexts[x[2]] \in Int /\ x[2] # ""
        BY <3>2, CallsAssumption
      <4>2. PyInt(x) = {IntTexts[x[2]]}
        BY <1>4, <2>1, <3>2 DEF ReadBy
      <4> QED BY <1>4, <2>1, <3>1, <4>1, <4>2 DEF MeantInt
    <3>3. CASE x[2] \notin DOMAIN IntTexts
      BY <1>4, <2>1, <3>1, <3>3 DEF ReadBy, MeantInt
    <3> QED BY <3>2, <3>3
  <2> QED BY <2>2, <2>3
<1>5. CASE Type(x) \notin {"number", "fraction", "flag", "text"}
  BY <1>0, <1>5 DEF LaxInt, PyInt, ReadBy, MeantInt
<1> QED BY <1>1, <1>2, <1>3, <1>4, <1>5

\* A text is one of a set if it says so, and no other value is
LEMMA ChosenText ==
    ASSUME NEW x, IsValue(x), NEW S, NEW t \in OneOf(S, x)
    PROVE  x = Text(t) /\ Type(x) = "text" /\ x[2] = t /\ OneOf(S, x) = {t}
<1>1. x = Text(t) /\ t \in S
  BY DEF OneOf
<1>2. \A u : Text(u) = Text(t) => u = t
  BY DEF Text
<1>3. Type(x) = "text" /\ x[2] = t
  BY <1>1 DEF Text, Type
<1>4. OneOf(S, x) = {t}
  BY <1>1, <1>2 DEF OneOf
<1> QED BY <1>1, <1>3, <1>4

\* What is no text is none of a set of texts
LEMMA NoText ==
    ASSUME NEW x, Type(x) # "text"
    PROVE  \A S : x \notin {Text(t) : t \in S} /\ OneOf(S, x) = {}
<1>1. \A t : x # Text(t)
  BY DEF Type, Text
<1> QED BY <1>1 DEF OneOf

LEMMA Bools ==
    ASSUME NEW x, IsValue(x)
    PROVE  /\ LaxBool(x) = {} \/ LaxBool(x) = {TRUE} \/ LaxBool(x) = {FALSE}
           /\ x \in {Text(t) : t \in YesTexts \ TrueTexts} => LaxBool(x) = {TRUE}
           /\ x \notin {Text(t) : t \in YesTexts \ TrueTexts} =>
                LaxBool(x) = {} \/ LaxBool(x) = {BoolArg(x)}
           /\ Empty(x) => BoolArg(x) = FALSE
<1>1. CASE Type(x) = "flag"
  <2>1. x[2] \in BOOLEAN /\ x \notin {Text(t) : t \in YesTexts \ TrueTexts} /\ ~Empty(x)
    BY <1>1, Kinds, NoText
  <2>2. LaxBool(x) = {x[2]} /\ BoolArg(x) = x[2]
    BY <1>1 DEF LaxBool, BoolArg
  <2> QED BY <2>1, <2>2
<1>2. CASE Type(x) = "number"
  <2>1. x[2] \in Int /\ x \notin {Text(t) : t \in YesTexts \ TrueTexts} /\ ~Empty(x)
    BY <1>2, Kinds, NoText
  <2>2. BoolArg(x) = (x[2] # 0)
    BY <1>2 DEF BoolArg
  <2>3. LaxBool(x) = IF x[2] \in {0, 1} THEN {x[2] = 1} ELSE {}
    BY <1>2 DEF LaxBool
  <2>4. CASE x[2] = 0
    <3>1. (x[2] = 1) = FALSE /\ (x[2] # 0) = FALSE /\ x[2] \in {0, 1}
      BY <2>4
    <3> QED BY <2>1, <2>2, <2>3, <3>1, Zenon
  <2>5. CASE x[2] = 1
    <3>1. (x[2] = 1) = TRUE /\ (x[2] # 0) = TRUE /\ x[2] \in {0, 1}
      BY <2>5
    <3> QED BY <2>1, <2>2, <2>3, <3>1, Zenon
  <2>6. CASE x[2] \notin {0, 1}
    BY <2>1, <2>3, <2>6
  <2> QED BY <2>4, <2>5, <2>6
<1>3. CASE Type(x) = "text"
  <2>1. x = Text(x[2])
    BY <1>3, Kinds
  <2>2. x \in {Text(t) : t \in YesTexts \ TrueTexts} <=> x[2] \in YesTexts \ TrueTexts
    BY <2>1 DEF Text
  <2>3. BoolArg(x) = (x[2] \in TrueTexts)
    BY <1>3 DEF BoolArg
  <2>4. CASE x[2] \in YesTexts
    <3>1. LaxBool(x) = {TRUE}
      BY <1>3, <2>4, CallsAssumption DEF LaxBool
    <3> QED BY <1>3, <2>2, <2>3, <2>4, <3>1, Kinds
  <2>5. CASE x[2] \in NoTexts
    <3>1. x[2] \notin YesTexts /\ x[2] \notin TrueTexts
      BY <2>5, CallsAssumption
    <3>2. LaxBool(x) = {FALSE}
      BY <1>3, <2>5, <3>1 DEF LaxBool
    <3>4. (x[2] \in TrueTexts) = FALSE
      BY <3>1
    <3>3. BoolArg(x) = FALSE
      BY <2>3, <3>4, Zenon
    <3> QED BY <2>2, <3>1, <3>2, <3>3, Zenon
  <2>6. CASE x[2] \notin YesTexts \cup NoTexts
    <3>1. LaxBool(x) = {}
      BY <1>3, <2>6 DEF LaxBool
    <3> QED BY <1>3, <2>2, <2>6, <3>1, Kinds
  <2> QED BY <2>4, <2>5, <2>6
<1>4. CASE Type(x) \notin {"flag", "number", "text"}
  <2>1. LaxBool(x) = {}
    BY <1>4 DEF LaxBool
  <2>2. x \notin {Text(t) : t \in YesTexts \ TrueTexts}
    BY <1>4, NoText
  <2>3. Empty(x) => BoolArg(x) = FALSE
    BY <1>4, Kinds DEF BoolArg
  <2> QED BY <2>1, <2>2, <2>3
<1> QED BY <1>1, <1>2, <1>3, <1>4

-----------------------------------------------------------------------------
\* What an argument means, to the sides that take it
Switched(x) == IF x \in {Text(t) : t \in YesTexts \ TrueTexts} THEN TRUE ELSE BoolArg(x)
Meaning(a, x) ==
    CASE a = "limit" -> IF MeantInt(x) = {} THEN {app.limit} ELSE Clamped(MeantInt(x), a)
      [] a = "graphLimit" -> IF MeantInt(x) = {} THEN {app.graphLimit} ELSE Clamped(MeantInt(x), a)
      [] a = "neighborLimit" -> IF MeantInt(x) = {} THEN {NeighborLimit} ELSE Clamped(MeantInt(x), a)
      [] a = "depth" -> IF MeantInt(x) = {} THEN {1} ELSE Clamped(MeantInt(x), a)
      [] a = "drafts" -> {NetworkIncludeDrafts(Switched(x))}
      [] a = "mode" -> IF Falsy(x) THEN {"lexical"} ELSE OneOf(Modes, Fold(x))
      [] a = "direction" -> LET known == OneOf(Directions, Fold(x))
                            IN  IF known = {} THEN {"both"} ELSE known
      [] a = "fields" -> {OptionalStrings(x)}
      [] a = "snippet" -> IF MeantInt(x) = {} THEN {<<>>} ELSE Optional(Clamped(MeantInt(x), a))
      [] a = "score" -> IF Empty(x) \/ x = Text("") THEN {<<>>}
                        ELSE Optional(NotNegative(LaxFloat(x)))
      [] a \in {"excluded", "seeds", "relations"} -> {CollectStrings(x)}
      [] a = "variants" -> Or(<<>>, x, Variants(x))
      [] a = "query" -> {Question(x)}
      [] a = "sections" -> {Sections(x)}
      [] a = "chars" -> IF MeantInt(x) = {} THEN {app.chars} ELSE Optional(Clamped(MeantInt(x), a))
      [] a = "links" -> {IF Empty(x) THEN <<>> ELSE <<Switched(x)>>}

Arguments == UNION {ArgumentsOf(op) : op \in Tools}

\* Where numbers are taken, they mean one thing
LEMMA NumberMeans ==
    ASSUME NEW x, IsValue(x), NEW a \in Numeric
    PROVE  /\ \A S \in {LaxInt(x), PyInt(x)} :
                /\ Clamped(S, a) \subseteq Clamped(MeantInt(x), a)
                /\ S \cap InBounds(a) \subseteq Clamped(MeantInt(x), a)
                /\ MeantInt(x) = {} => S = {}
           /\ \A u, v \in Clamped(MeantInt(x), a) : u = v
<1>1. \A n \in Int : n \in InBounds(a) => Clamp(n, a) = n
  BY Clamping
<1>2. MeantInt(x) \subseteq Int /\ \A m, n \in MeantInt(x) : m = n
  BY Ints
<1>3. LaxInt(x) \subseteq MeantInt(x) /\ PyInt(x) \subseteq MeantInt(x)
  BY DEF MeantInt
<1>4. ASSUME NEW S \in {LaxInt(x), PyInt(x)}
      PROVE  /\ Clamped(S, a) \subseteq Clamped(MeantInt(x), a)
             /\ S \cap InBounds(a) \subseteq Clamped(MeantInt(x), a)
             /\ MeantInt(x) = {} => S = {}
  <2>1. S \subseteq MeantInt(x)
    BY <1>3
  <2> QED BY <1>1, <1>2, <2>1 DEF Clamped
<1>5. \A u, v \in Clamped(MeantInt(x), a) : u = v
  BY <1>2 DEF Clamped
<1> QED BY <1>4, <1>5

LEMMA NoNumber ==
    ASSUME NEW x, IsValue(x)
    PROVE  /\ Empty(x) => MeantInt(x) = {}
           /\ x = Absent => Empty(x)
           /\ x = Text("") => LaxFloat(x) = {}
           /\ x = Infinite => PyInt(x) = {} /\ LaxInt(x) = {}
<1>1. x = Text("") => LaxFloat(x) = {}
  <2>1. Type(Text("")) = "text" /\ Text("")[2] = "" /\ "" \notin DOMAIN FloatTexts
    BY CallsAssumption DEF Text, Type
  <2>2. Text("") # Infinite
    BY DEF Text, Infinite
  <2> QED BY <2>1, <2>2 DEF LaxFloat, ReadBy
<1>2. x = Infinite => Type(x) = "infinite"
  BY DEF Type, Infinite
<1> QED BY <1>1, <1>2, Ints, Kinds DEF MeantInt

\* It is one thing
LEMMA OneMeaning ==
    ASSUME NEW x, IsValue(x), NEW a \in Arguments, NEW u \in Meaning(a, x), NEW v \in Meaning(a, x)
    PROVE  u = v
<1>1. \A b \in Numeric : \A m, n \in Clamped(MeantInt(x), b) : m = n
  BY NumberMeans
<1>2. \A S, y : \A m, n \in OneOf(S, y) : m = n
  BY DEF OneOf, Text
<1>3. \A S : (\A m, n \in S : m = n) => \A m, n \in Optional(S) : m = n
  BY DEF Optional
<1>4. \A m, n \in NotNegative(LaxFloat(x)) : m = n
  <2>1. \A m, n \in LaxFloat(x) : m = n
    BY DEF LaxFloat, ReadBy
  <2> QED BY <2>1 DEF NotNegative
<1>5. \A m, n \in Variants(x) : m = n
  BY DEF Variants
<1>6. CASE a \in {"limit", "graphLimit", "neighborLimit", "depth"}
  BY <1>1, <1>6 DEF Meaning, Numeric
<1>7. CASE a \in {"snippet", "chars"}
  <2> DEFINE C == Optional(Clamped(MeantInt(x), a))
  <2>1. \A m, n \in C : m = n
    BY <1>1, <1>3, <1>7 DEF Numeric
  <2> HIDE DEF C
  <2>2. Meaning(a, x) = C \/ Meaning(a, x) = {<<>>} \/ Meaning(a, x) = {app.chars}
    BY <1>7 DEF Meaning, C
  <2> QED BY <2>1, <2>2
<1>8. CASE a \in {"mode", "direction"}
  BY <1>2, <1>8 DEF Meaning
<1>9. CASE a = "score"
  BY <1>3, <1>4, <1>9 DEF Meaning
<1>10. CASE a = "variants"
  BY <1>5, <1>10 DEF Meaning, Or
<1>11. CASE a \in {"drafts", "fields", "excluded", "seeds", "relations", "query", "sections", "links"}
  <2>1. \E m : Meaning(a, x) = {m}
    <3>1. CASE a = "drafts"
      BY <3>1 DEF Meaning
    <3>2. CASE a = "fields"
      BY <3>2 DEF Meaning
    <3>3. CASE a \in {"excluded", "seeds", "relations"}
      BY <3>3 DEF Meaning
    <3>4. CASE a = "query"
      BY <3>4 DEF Meaning
    <3>5. CASE a = "sections"
      BY <3>5 DEF Meaning
    <3>6. CASE a = "links"
      BY <3>6, Zenon DEF Meaning
    <3> QED BY <1>11, <3>1, <3>2, <3>3, <3>4, <3>5, <3>6
  <2> QED BY <2>1
<1>12. a \in {"limit", "graphLimit", "neighborLimit", "depth", "snippet", "chars", "mode", "direction",
              "score", "variants", "drafts", "fields", "excluded", "seeds", "relations", "query",
              "sections", "links"}
  BY DEF Arguments, ArgumentsOf
<1> QED BY <1>6, <1>7, <1>8, <1>9, <1>10, <1>11, <1>12

LEMMA SwitchMeans ==
    ASSUME NEW x, IsValue(x)
    PROVE  /\ \A b \in LaxBool(x) : b = Switched(x)
           /\ Empty(x) => Switched(x) = FALSE
<1>1. CASE x \in {Text(t) : t \in YesTexts \ TrueTexts}
  <2>1. LaxBool(x) = {TRUE} /\ Switched(x) = TRUE
    BY <1>1, Bools, Zenon DEF Switched
  <2>2. ~Empty(x)
    BY <1>1, NoText, Kinds
  <2> QED BY <2>1, <2>2, Zenon
<1>2. CASE x \notin {Text(t) : t \in YesTexts \ TrueTexts}
  <2>1. Switched(x) = BoolArg(x)
    BY <1>2, Zenon DEF Switched
  <2>2. LaxBool(x) = {} \/ LaxBool(x) = {BoolArg(x)}
    BY <1>2, Bools, Zenon
  <2>3. Empty(x) => BoolArg(x) = FALSE
    BY Bools, Zenon
  <2> QED BY <2>1, <2>2, <2>3, Zenon
<1> QED BY <1>1, <1>2, Zenon

\* What is one of the texts known has no capitals
LEMMA Known ==
    ASSUME NEW x, IsValue(x), NEW S \in {Modes, Directions}
    PROVE  /\ OneOf(S, x) # {} => OneOf(S, Fold(x)) = OneOf(S, x)
           /\ Empty(x) => OneOf(S, Fold(x)) = {} /\ OneOf(S, x) = {}
           /\ x = Text("") => OneOf(S, x) = {}
<1>1. ASSUME NEW t \in OneOf(S, x)
      PROVE  Fold(x) = x
  <2>1. x = Text(t) /\ Type(x) = "text" /\ x[2] = t /\ t \in Modes \cup Directions
    BY <1>1, ChosenText DEF OneOf
  <2>2. x[2] \notin DOMAIN LowerCase
    BY <2>1, CallsAssumption
  <2> QED BY <2>2 DEF Fold
<1>2. ASSUME Empty(x)
      PROVE  OneOf(S, Fold(x)) = {} /\ OneOf(S, x) = {}
  <2>1. Type(x) # "text"
    BY <1>2, Kinds
  <2>2. Fold(x) = x
    BY <2>1 DEF Fold
  <2> QED BY <2>1, <2>2, NoText
<1>3. ASSUME x = Text("")
      PROVE  OneOf(S, x) = {}
  <2>1. \A t \in S : t # ""
    BY DEF Modes, Directions
  <2> QED BY <1>3, <2>1 DEF OneOf, Text
<1>4. OneOf(S, x) # {} => OneOf(S, Fold(x)) = OneOf(S, x)
  BY <1>1
<1> QED BY <1>2, <1>3, <1>4

LEMMA ModesKnown ==
    ASSUME NEW x, IsValue(x)
    PROVE  /\ OneOf(Modes, x) # {} => OneOf(Modes, Fold(x)) = OneOf(Modes, x)
           /\ OneOf(Directions, x) # {} => OneOf(Directions, Fold(x)) = OneOf(Directions, x)
           /\ Empty(x) => OneOf(Directions, Fold(x)) = {} /\ OneOf(Modes, x) = {}
           /\ x = Text("") => OneOf(Modes, x) = {}
BY Known

\* What is nothing to Python is no mode
LEMMA FalsyMode ==
    ASSUME NEW x, IsValue(x)
    PROVE  /\ Empty(x) => Falsy(x)
           /\ Falsy(x) => OneOf(Modes, x) = {}
<1>1. ASSUME x \in {Number(0), Flag(FALSE), Texts(<<>>)}
      PROVE  Type(x) # "text"
  <2>1. /\ Type(Number(0)) = "number" /\ Type(Flag(FALSE)) = "flag"
        /\ Type(Texts(<<>>)) = "list"
    BY DEF Type, Number, Flag, Texts
  <2> QED BY <1>1, <2>1
<1> QED BY <1>1, NoText, ModesKnown DEF Falsy

\* HTTP takes an argument for what it means, or refuses it
LEMMA HttpMeans ==
    ASSUME NEW x, IsValue(x), NEW a \in Arguments,
           a \in {"seeds", "relations"} =>
              /\ Type(x) = "text" /\ x[2] # "" => SplitText(x[2]) = <<x[2]>>
              /\ Type(x) = "list" => Deduplicated(x[2]) = NonEmpty(x[2])
    PROVE  HttpArgument(a, x) \subseteq Meaning(a, x)
<1>1. /\ Empty(x) => MeantInt(x) = {}
      /\ x = Absent => Empty(x)
  BY NoNumber
<1>2. \A b \in Numeric : /\ Clamped(LaxInt(x), b) \subseteq Clamped(MeantInt(x), b)
                         /\ LaxInt(x) \cap InBounds(b) \subseteq Clamped(MeantInt(x), b)
  BY NumberMeans
<1>3. LaxInt(x) # {} => MeantInt(x) # {}
  BY DEF MeantInt
<1>4. \A b : LaxInt(x) = {} => Clamped(LaxInt(x), b) = {}
  BY DEF Clamped
<1>5. CASE a = "limit"
  BY <1>1, <1>2, <1>3, <1>5 DEF HttpArgument, Meaning, OrNull, Numeric
<1>6. CASE a = "graphLimit"
  BY <1>1, <1>2, <1>3, <1>4, <1>6 DEF HttpArgument, Meaning, OrNull, Numeric
<1>7. CASE a = "neighborLimit"
  BY <1>1, <1>2, <1>3, <1>4, <1>7 DEF HttpArgument, Meaning, Or, Numeric
<1>8. CASE a = "depth"
  BY <1>1, <1>2, <1>3, <1>4, <1>8 DEF HttpArgument, Meaning, Or, Numeric
<1>9. CASE a = "snippet"
  BY <1>1, <1>2, <1>3, <1>9 DEF HttpArgument, Meaning, OrNull, Numeric, Optional
<1>10. CASE a = "chars"
  BY <1>1, <1>2, <1>3, <1>4, <1>10 DEF HttpArgument, Meaning, OrNull, Numeric, Optional
<1>11. CASE a = "drafts"
  <2>1. HttpArgument(a, x) = Drafts(x) /\ Meaning(a, x) = {NetworkIncludeDrafts(Switched(x))}
    BY <1>11, Zenon DEF HttpArgument, Meaning
  <2>2. \A b \in Or(FALSE, x, LaxBool(x)) : b = Switched(x)
    BY <1>1, SwitchMeans, Zenon DEF Or
  <2> QED BY <2>1, <2>2, Zenon DEF Drafts
<1>12. CASE a = "links"
  <2>1. /\ HttpArgument(a, x) = OrNull(<<>>, x, Optional(LaxBool(x)))
        /\ Meaning(a, x) = {IF Empty(x) THEN <<>> ELSE <<Switched(x)>>}
    BY <1>12, Zenon DEF HttpArgument, Meaning
  <2>2. \A b \in LaxBool(x) : b = Switched(x)
    BY SwitchMeans
  <2> QED BY <2>1, <2>2, Zenon DEF OrNull, Optional
<1>13. CASE a = "mode"
  BY <1>1, <1>13, FalsyMode, ModesKnown DEF HttpArgument, Meaning, Or
<1>14. CASE a = "direction"
  BY <1>1, <1>14, ModesKnown DEF HttpArgument, Meaning, Or
<1>15. CASE a = "score"
  <2> DEFINE F == Optional(NotNegative(LaxFloat(x)))
  <2>1. x = Text("") => F = {}
    BY NoNumber DEF Optional, NotNegative
  <2> HIDE DEF F
  <2>2. HttpArgument(a, x) = IF Empty(x) THEN {<<>>} ELSE F
    BY <1>15 DEF HttpArgument, OrNull, F
  <2>3. Meaning(a, x) = IF Empty(x) \/ x = Text("") THEN {<<>>} ELSE F
    BY <1>15 DEF Meaning, F
  <2> QED BY <2>1, <2>2, <2>3
<1>16. CASE a \in {"fields", "excluded", "variants", "query", "sections"}
  BY <1>16, Zenon DEF HttpArgument, Meaning
<1>17. CASE a \in {"seeds", "relations"}
  <2> DEFINE h == CASE Type(x) = "text" -> IF x[2] = "" THEN <<>> ELSE <<x[2]>>
                    [] Type(x) = "list" -> NonEmpty(x[2])
                    [] OTHER -> <<>>
  <2>1. HttpArgument(a, x) = {h}
    BY <1>17 DEF HttpArgument
  <2>2. Meaning(a, x) = {CollectStrings(x)}
    BY <1>17 DEF Meaning
  <2>3. SplitText("") = <<>>
    BY CallsAssumption DEF SplitText
  <2>4. h = CollectStrings(x)
    BY <1>17, <2>3 DEF CollectStrings
  <2> QED BY <2>1, <2>2, <2>4
<1>18. a \in {"limit", "graphLimit", "neighborLimit", "depth", "snippet", "chars", "mode", "direction",
              "score", "variants", "drafts", "fields", "excluded", "seeds", "relations", "query",
              "sections", "links"}
  BY DEF Arguments, ArgumentsOf
<1> QED BY <1>5, <1>6, <1>7, <1>8, <1>9, <1>10, <1>11, <1>12, <1>13, <1>14, <1>15, <1>16, <1>17,
           <1>18

\* The defaults of a server are within their bounds
AppInBounds ==
    /\ app.limit \in InBounds("limit") /\ app.graphLimit \in InBounds("graphLimit")
    /\ app.chars \in Optional(InBounds("chars")) \cup {<<>>}

\* A number, or a default that is within the bounds, as clamp_int gives it
LEMMA ClampIntMeans ==
    ASSUME NEW x, IsValue(x), NEW a \in Numeric, NEW default \in InBounds(a)
    PROVE  ClampInt(x, a, default) \subseteq
             IF PyInt(x) = {} THEN {default} ELSE Clamped(PyInt(x), a)
<1>1. InBounds(a) \subseteq Int
  <2>1. Bounds[a][1] \in Int /\ Bounds[a][2] \in Int
    BY CallsAssumption
  <2> QED BY <2>1 DEF InBounds
<1>2. Clamp(default, a) = default
  BY <1>1, Clamping
<1> QED BY <1>2 DEF ClampInt, Clamped

LEMMA OptionalClampedMeans ==
    ASSUME NEW x, NEW a
    PROVE  OptionalClamped(x, a) \subseteq
             IF PyInt(x) = {} THEN {<<>>} ELSE Optional(Clamped(PyInt(x), a))
BY DEF OptionalClamped, Optional, Clamped

\* /mcp takes an argument for what it means, or refuses it
LEMMA RpcMeans ==
    ASSUME NEW x, IsValue(x), NEW a \in Arguments, AppInBounds,
           a \in {"drafts", "links"} => x \notin {Text(t) : t \in YesTexts \ TrueTexts},
           a \in Numeric => x \notin {Text(t) : t \in DOMAIN LaxTexts \ DOMAIN IntTexts}
    PROVE  RpcArgument(a, x) \subseteq Meaning(a, x)
<1>0. a \in Numeric => PyInt(x) = MeantInt(x)
  BY Ints
<1>1. CASE a = "limit"
  <2>1. "limit" \in Numeric
    BY DEF Numeric
  <2>2. ClampInt(x, a, app.limit) \subseteq
          IF PyInt(x) = {} THEN {app.limit} ELSE Clamped(PyInt(x), a)
    BY <1>1, <2>1, ClampIntMeans DEF AppInBounds
  <2> QED BY <1>0, <1>1, <2>1, <2>2 DEF RpcArgument, Meaning
<1>2. CASE a = "graphLimit"
  <2>1. "graphLimit" \in Numeric
    BY DEF Numeric
  <2>2. ClampInt(x, a, app.graphLimit) \subseteq
          IF PyInt(x) = {} THEN {app.graphLimit} ELSE Clamped(PyInt(x), a)
    BY <1>2, <2>1, ClampIntMeans DEF AppInBounds
  <2> QED BY <1>0, <1>2, <2>1, <2>2 DEF RpcArgument, Meaning
<1>3. CASE a = "neighborLimit"
  <2>1. "neighborLimit" \in Numeric
    BY DEF Numeric
  <2>2. ClampInt(x, a, NeighborLimit) \subseteq
          IF PyInt(x) = {} THEN {NeighborLimit} ELSE Clamped(PyInt(x), a)
    BY <1>3, <2>1, ClampIntMeans, CallsAssumption
  <2> QED BY <1>0, <1>3, <2>1, <2>2 DEF RpcArgument, Meaning
<1>4. CASE a = "depth"
  <2>1. "depth" \in Numeric
    BY DEF Numeric
  <2>2. ClampInt(x, a, 1) \subseteq IF PyInt(x) = {} THEN {1} ELSE Clamped(PyInt(x), a)
    BY <1>4, <2>1, ClampIntMeans, CallsAssumption
  <2> QED BY <1>0, <1>4, <2>1, <2>2 DEF RpcArgument, Meaning
<1>5. CASE a = "snippet"
  <2>1. RpcArgument(a, x) = OptionalClamped(x, a)
    BY <1>5 DEF RpcArgument
  <2>2. Meaning(a, x) = IF PyInt(x) = {} THEN {<<>>} ELSE Optional(Clamped(PyInt(x), a))
    BY <1>0, <1>5 DEF Meaning, Numeric
  <2> QED BY <2>1, <2>2, OptionalClampedMeans
<1>6. CASE a = "chars"
  <2>1. RpcArgument(a, x) = {OrDefault(c) : c \in OptionalClamped(x, a)}
    BY <1>6 DEF RpcArgument
  <2>2. Meaning(a, x) = IF PyInt(x) = {} THEN {app.chars} ELSE Optional(Clamped(PyInt(x), a))
    BY <1>0, <1>6 DEF Meaning, Numeric
  <2>3. OrDefault(<<>>) = app.chars
    BY DEF OrDefault
  <2>4. \A S : \A c \in Optional(S) : OrDefault(c) = c
    BY DEF OrDefault, Optional
  <2> QED BY <2>1, <2>2, <2>3, <2>4, OptionalClampedMeans
<1>7. CASE a = "drafts"
  <2>1. Switched(x) = BoolArg(x)
    BY <1>7, Zenon DEF Switched
  <2> QED BY <1>7, <2>1, Zenon DEF RpcArgument, Meaning
<1>8. CASE a = "links"
  <2>1. Switched(x) = BoolArg(x)
    BY <1>8, Zenon DEF Switched
  <2>2. RpcArgument(a, x) = {IF Empty(x) THEN <<>> ELSE <<BoolArg(x)>>}
    BY <1>8, Zenon DEF RpcArgument
  <2>3. Meaning(a, x) = {IF Empty(x) THEN <<>> ELSE <<Switched(x)>>}
    BY <1>8, Zenon DEF Meaning
  <2> QED BY <2>1, <2>2, <2>3, Zenon
<1>9. CASE a = "score"
  <2>1. RpcArgument(a, x) = IF Empty(x) \/ x = Text("") THEN {<<>>}
                            ELSE IF Type(x) = "flag" THEN {}
                            ELSE Optional(Finite(LaxFloat(x)))
    BY <1>9 DEF RpcArgument
  <2>2. Meaning(a, x) = IF Empty(x) \/ x = Text("") THEN {<<>>}
                        ELSE Optional(NotNegative(LaxFloat(x)))
    BY <1>9 DEF Meaning
  <2>3. Finite(LaxFloat(x)) \subseteq NotNegative(LaxFloat(x))
    BY DEF Finite
  <2> QED BY <2>1, <2>2, <2>3 DEF Optional
<1>10. CASE a \in {"mode", "direction"}
  BY <1>10 DEF RpcArgument, Meaning
<1>11. CASE a = "sections"
  BY <1>11 DEF RpcArgument, Meaning
<1>12. CASE a \in {"fields", "variants", "query"}
  BY <1>12, Zenon DEF RpcArgument, Meaning
<1>13. CASE a \in {"excluded", "seeds", "relations"}
  BY <1>13 DEF RpcArgument, Meaning
<1>14. a \in {"limit", "graphLimit", "neighborLimit", "depth", "snippet", "chars", "mode", "direction",
              "score", "variants", "drafts", "fields", "excluded", "seeds", "relations", "query",
              "sections", "links"}
  BY DEF Arguments, ArgumentsOf
<1> QED BY <1>1, <1>2, <1>3, <1>4, <1>5, <1>6, <1>7, <1>8, <1>9, <1>10, <1>11, <1>12, <1>13, <1>14

\* /mcp/stream takes an argument for what it means, or refuses it
LEMMA StreamMeans ==
    ASSUME NEW x, IsValue(x), NEW a \in Arguments
    PROVE  StreamArgument(a, x) \subseteq Meaning(a, x)
<1>1. /\ Empty(x) => MeantInt(x) = {}
      /\ x = Absent => Empty(x)
  BY NoNumber
<1>2. \A b \in Numeric : Clamped(LaxInt(x), b) \subseteq Clamped(MeantInt(x), b)
  BY NumberMeans
<1>3. LaxInt(x) # {} => MeantInt(x) # {}
  BY DEF MeantInt
<1>4. \A b : LaxInt(x) = {} => Clamped(LaxInt(x), b) = {}
  BY DEF Clamped
<1>5. CASE a \in {"limit", "graphLimit", "neighborLimit", "depth"}
  <2> DEFINE L == Clamped(LaxInt(x), a)
             C == Clamped(MeantInt(x), a)
  <2>1. L \subseteq C /\ (MeantInt(x) = {} => L = {})
    BY <1>2, <1>3, <1>4, <1>5 DEF Numeric
  <2> HIDE DEF L, C
  <2>2. CASE a = "limit"
    BY <1>1, <2>1, <2>2 DEF StreamArgument, Meaning, Or, L, C
  <2>3. CASE a = "graphLimit"
    BY <1>1, <2>1, <2>3 DEF StreamArgument, Meaning, Or, L, C
  <2>4. CASE a = "neighborLimit"
    BY <1>1, <2>1, <2>4 DEF StreamArgument, Meaning, Or, L, C
  <2>5. CASE a = "depth"
    BY <1>1, <2>1, <2>5 DEF StreamArgument, Meaning, Or, L, C
  <2> QED BY <1>5, <2>2, <2>3, <2>4, <2>5
<1>6. CASE a \in {"snippet", "chars"}
  <2> DEFINE L == Optional(Clamped(LaxInt(x), a))
             C == Optional(Clamped(MeantInt(x), a))
  <2>1. L \subseteq C /\ (MeantInt(x) = {} => L = {})
    BY <1>2, <1>3, <1>4, <1>6 DEF Numeric, Optional
  <2> HIDE DEF L, C
  <2>2. CASE a = "snippet"
    BY <1>1, <2>1, <2>2 DEF StreamArgument, Meaning, OrNull, L, C
  <2>3. CASE a = "chars"
    BY <1>1, <2>1, <2>3 DEF StreamArgument, Meaning, OrNull, L, C
  <2> QED BY <1>6, <2>2, <2>3
<1>7. CASE a = "drafts"
  <2>1. StreamArgument(a, x) = Drafts(x) /\ Meaning(a, x) = {NetworkIncludeDrafts(Switched(x))}
    BY <1>7, Zenon DEF StreamArgument, Meaning
  <2>2. \A b \in Or(FALSE, x, LaxBool(x)) : b = Switched(x)
    BY <1>1, SwitchMeans, Zenon DEF Or
  <2> QED BY <2>1, <2>2, Zenon DEF Drafts
<1>8. CASE a = "links"
  <2>1. /\ StreamArgument(a, x) = OrNull(<<>>, x, Optional(LaxBool(x)))
        /\ Meaning(a, x) = {IF Empty(x) THEN <<>> ELSE <<Switched(x)>>}
    BY <1>8, Zenon DEF StreamArgument, Meaning
  <2>2. \A b \in LaxBool(x) : b = Switched(x)
    BY SwitchMeans
  <2> QED BY <2>1, <2>2, Zenon DEF OrNull, Optional
<1>9. CASE a = "mode"
  BY <1>1, <1>9, FalsyMode, ModesKnown DEF StreamArgument, Meaning, Or
<1>10. CASE a = "direction"
  BY <1>1, <1>10, ModesKnown DEF StreamArgument, Meaning, Or
<1>11. CASE a = "score"
  <2> DEFINE L == Optional(Finite(LaxFloat(x)))
             F == Optional(NotNegative(LaxFloat(x)))
  <2>1. Finite(LaxFloat(x)) \subseteq NotNegative(LaxFloat(x))
    BY DEF Finite
  <2>2. L \subseteq F /\ (x = Text("") => L = {})
    BY <2>1, NoNumber DEF Optional, Finite, NotNegative
  <2> HIDE DEF L, F
  <2>3. StreamArgument(a, x) = IF Empty(x) THEN {<<>>} ELSE L
    BY <1>11 DEF StreamArgument, OrNull, L
  <2>4. Meaning(a, x) = IF Empty(x) \/ x = Text("") THEN {<<>>} ELSE F
    BY <1>11 DEF Meaning, F
  <2> QED BY <2>2, <2>3, <2>4
<1>12. CASE a = "fields"
  BY <1>12 DEF StreamArgument, Meaning
<1>13. CASE a \in {"excluded", "seeds", "relations"}
  BY <1>13 DEF StreamArgument, Meaning
<1>14. CASE a = "variants"
  BY <1>14 DEF StreamArgument, Meaning
<1>15. CASE a = "query"
  BY <1>15 DEF StreamArgument, Meaning
<1>16. CASE a = "sections"
  BY <1>16 DEF StreamArgument, Meaning
<1>17. a \in {"limit", "graphLimit", "neighborLimit", "depth", "snippet", "chars", "mode", "direction",
              "score", "variants", "drafts", "fields", "excluded", "seeds", "relations", "query",
              "sections", "links"}
  BY DEF Arguments, ArgumentsOf
<1> QED BY <1>5, <1>6, <1>7, <1>8, <1>9, <1>10, <1>11, <1>12, <1>13, <1>14, <1>15, <1>16, <1>17

\* One step of PartsOf
PartsStep(s, g, n) == IF n = 0 THEN <<>> ELSE g[n - 1] \o SplitText(s[n])

LEMMA PartsExist ==
    ASSUME NEW s \in Seq(STRING)
    PROVE  \E g : g = [n \in 0..Len(s) |-> PartsStep(s, g, n)]
<1> DEFINE N == {l \in 0..Len(s) : \E g : g = [n \in 0..l |-> PartsStep(s, g, n)]}
<1>1. 0 \in N
  <2> DEFINE g == [n \in 0..0 |-> <<>>]
  <2>1. g = [n \in 0..0 |-> PartsStep(s, g, n)]
    BY DEF PartsStep
  <2> QED BY <2>1
<1>2. ASSUME NEW l \in 0..Len(s), l \in N, l < Len(s) PROVE l + 1 \in N
  <2>1. PICK g : g = [n \in 0..l |-> PartsStep(s, g, n)]
    BY <1>2
  <2> DEFINE h == [n \in 0..(l + 1) |-> IF n = l + 1 THEN PartsStep(s, g, n) ELSE g[n]]
  <2>2. \A n \in 0..(l + 1) : PartsStep(s, h, n) = PartsStep(s, g, n)
    BY DEF PartsStep
  <2>3. \A n \in 0..l : g[n] = PartsStep(s, g, n)
    BY <2>1
  <2>4. \A n \in 0..(l + 1) : h[n] = PartsStep(s, h, n)
    BY <2>2, <2>3
  <2>5. h = [n \in 0..(l + 1) |-> PartsStep(s, h, n)]
    BY <2>4
  <2>6. l + 1 \in 0..Len(s)
    BY <1>2
  <2> QED BY <2>5, <2>6
<1>3. \A l \in 0..Len(s) : l \in N /\ l < Len(s) => l + 1 \in N
  BY <1>2, Zenon
<1>4. Len(s) \in Nat /\ Len(s) \in 0..Len(s)
  OBVIOUS
<1> HIDE DEF N
<1>5. 0..Len(s) \subseteq N
  BY <1>1, <1>3, <1>4, Upto, Zenon
<1>6. Len(s) \in N
  BY <1>4, <1>5
<1> QED BY <1>6 DEF N

\* A list of which no item is split stays what it is
LEMMA NothingSplit ==
    ASSUME NEW s \in Seq(STRING), \A t \in ToSet(s) : SplitText(t) = <<t>>
    PROVE  PartsOf(s) = s
<1> DEFINE G == CHOOSE g : g = [n \in 0..Len(s) |-> PartsStep(s, g, n)]
<1>1. PartsOf(s) = G[Len(s)]
  BY DEF PartsOf, PartsStep
<1>2. G = [n \in 0..Len(s) |-> PartsStep(s, G, n)]
  BY PartsExist
<1> HIDE DEF G
<1> DEFINE N == {n \in 0..Len(s) : G[n] = SubSeq(s, 1, n)}
<1>3. 0 \in N
  BY <1>2 DEF PartsStep
<1>4. ASSUME NEW n \in 0..Len(s), n \in N, n < Len(s) PROVE n + 1 \in N
  <2>1. n + 1 \in 1..Len(s) /\ s[n + 1] \in STRING /\ n + 1 # 0 /\ (n + 1) - 1 = n
    BY <1>4
  <2>2. s[n + 1] \in ToSet(s)
    BY <2>1 DEF ToSet
  <2>3. G[n + 1] = PartsStep(s, G, n + 1)
    BY <1>2, <2>1
  <2>4. G[n + 1] = G[n] \o <<s[n + 1]>>
    BY <2>1, <2>2, <2>3 DEF PartsStep
  <2>5. SubSeq(s, 1, n) \o <<s[n + 1]>> = SubSeq(s, 1, n + 1)
    BY <2>1
  <2>6. G[n] = SubSeq(s, 1, n)
    BY <1>4
  <2> QED BY <2>1, <2>4, <2>5, <2>6
<1>5. \A n \in 0..Len(s) : n \in N /\ n < Len(s) => n + 1 \in N
  BY <1>4, Zenon
<1>6. Len(s) \in Nat /\ Len(s) \in 0..Len(s)
  OBVIOUS
<1> HIDE DEF N
<1>7. 0..Len(s) \subseteq N
  BY <1>3, <1>5, <1>6, Upto, Zenon
<1>8. Len(s) \in N
  BY <1>6, <1>7
<1>9. SubSeq(s, 1, Len(s)) = s
  OBVIOUS
<1> QED BY <1>1, <1>8, <1>9 DEF N

\* The command line takes an argument for what it means, or refuses it
LEMMA CliMeans ==
    ASSUME NEW x, IsValue(x), NEW op \in Tools, NEW a \in ArgumentsOf(op),
           CanWrite("cli", op, a, x), WithoutOptions,
           a \in {"fields", "excluded"} /\ Type(x) = "list" =>
              \A t \in ToSet(x[2]) : SplitText(t) = <<t>>
    PROVE  CliArgument(a, x) \subseteq Meaning(a, x)
<1>1. /\ Empty(x) => MeantInt(x) = {}
      /\ x = Absent => Empty(x)
  BY NoNumber
<1>2. \A b \in Numeric : PyInt(x) \cap InBounds(b) \subseteq Clamped(MeantInt(x), b)
  BY NumberMeans
<1>3. PyInt(x) # {} => MeantInt(x) # {}
  BY DEF MeantInt
<1>4. /\ op \notin {"graph", "neighbors"} /\ x # NoValue
      /\ x # Absent => a \notin {"drafts", "variants"}
      /\ Empty(x) => x = Absent
  BY DEF CanWrite, Empty
<1>5. CASE a = "limit"
  BY <1>1, <1>2, <1>3, <1>5 DEF CliArgument, Meaning, Or, Numeric, WithoutOptions
<1>6. CASE a \in {"snippet", "chars"}
  <2> DEFINE L == Optional(PyInt(x) \cap InBounds(a))
             C == Optional(Clamped(MeantInt(x), a))
  <2>1. L \subseteq C /\ (MeantInt(x) = {} => L = {})
    BY <1>2, <1>3, <1>6 DEF Numeric, Optional
  <2> HIDE DEF L, C
  <2>2. CliArgument(a, x) = IF x = Absent THEN {<<>>} ELSE L
    BY <1>6 DEF CliArgument, Or, L
  <2>3. Meaning(a, x) = IF MeantInt(x) = {} THEN {<<>>} ELSE C
    BY <1>6 DEF Meaning, WithoutOptions, C
  <2> QED BY <1>1, <2>1, <2>2, <2>3
<1>7. CASE a = "drafts"
  <2>1. Switched(x) = FALSE
    BY <1>1, <1>4, <1>7, SwitchMeans
  <2>2. Meaning(a, x) = {NetworkIncludeDrafts(Switched(x))}
    BY <1>7, Zenon DEF Meaning
  <2>3. NetworkIncludeDrafts(FALSE) = FALSE
    BY Zenon DEF NetworkIncludeDrafts
  <2>4. CliArgument(a, x) = {FALSE}
    BY <1>7, Zenon DEF CliArgument
  <2> QED BY <2>1, <2>2, <2>3, <2>4, Zenon
<1>8. CASE a = "links"
  <2>1. /\ CliArgument(a, x) = Or(<<>>, x, Optional(LaxBool(x)))
        /\ Meaning(a, x) = {IF Empty(x) THEN <<>> ELSE <<Switched(x)>>}
    BY <1>8, Zenon DEF CliArgument, Meaning
  <2>2. \A b \in LaxBool(x) : b = Switched(x)
    BY SwitchMeans
  <2> QED BY <1>1, <1>4, <2>1, <2>2, Zenon DEF Or, Optional
<1>9. CASE a = "mode"
  BY <1>1, <1>9, FalsyMode, ModesKnown DEF CliArgument, Meaning, Or
<1>10. CASE a = "score"
  <2> DEFINE F == Optional(NotNegative(LaxFloat(x)))
  <2>1. x = Text("") => F = {}
    BY NoNumber DEF Optional, NotNegative
  <2> HIDE DEF F
  <2>2. CliArgument(a, x) = IF x = Absent THEN {<<>>} ELSE F
    BY <1>10 DEF CliArgument, Or, F
  <2>3. Meaning(a, x) = IF Empty(x) \/ x = Text("") THEN {<<>>} ELSE F
    BY <1>10 DEF Meaning, F
  <2> QED BY <1>1, <1>4, <2>1, <2>2, <2>3
<1>11. CASE a \in {"fields", "excluded"}
  <2>1. SplitValues(x) = CollectStrings(x)
    <3>1. CASE Type(x) = "list"
      <4>1. x[2] \in Seq(STRING)
        BY <3>1, Kinds
      <4>2. PartsOf(x[2]) = x[2]
        BY <1>11, <3>1, <4>1, NothingSplit
      <4> QED BY <3>1, <4>2 DEF SplitValues, CollectStrings
    <3>2. CASE Type(x) # "list"
      BY <3>2 DEF SplitValues
    <3> QED BY <3>1, <3>2
  <2>2. CASE a = "fields"
    BY <1>1, <1>4, <2>1, <2>2 DEF CliArgument, Meaning, OptionalStrings
  <2>3. CASE a = "excluded"
    BY <2>1, <2>3 DEF CliArgument, Meaning
  <2> QED BY <1>11, <2>2, <2>3
<1>12. CASE a = "variants"
  BY <1>4, <1>12 DEF CliArgument, Meaning, Or
<1>13. CASE a \in {"query", "sections"}
  BY <1>13, Zenon DEF CliArgument, Meaning
<1>14. a \in {"limit", "snippet", "chars", "mode", "score", "variants", "drafts", "fields", "excluded",
              "query", "sections", "links"}
  BY <1>4 DEF ArgumentsOf, Tools, Searches
<1> QED BY <1>5, <1>6, <1>7, <1>8, <1>9, <1>10, <1>11, <1>12, <1>13, <1>14

\* A message asks for what an argument that is not given means
LEMMA A2aMeans ==
    ASSUME NEW x, IsValue(x), NEW op \in Tools, NEW a \in ArgumentsOf(op), CanWrite("a2a", op, a, x)
    PROVE  A2aArgument(a) \subseteq Meaning(a, x)
<1>1. op = "context" /\ x = Absent
  BY DEF CanWrite
<1>2. Empty(x) /\ MeantInt(x) = {} /\ Type(x) = "absent"
  BY <1>1, NoNumber, Kinds
<1>3. CASE a = "limit"
  BY <1>2, <1>3 DEF A2aArgument, Meaning
<1>4. CASE a = "drafts"
  <2>1. Switched(x) = FALSE
    BY <1>2, SwitchMeans
  <2>2. Meaning(a, x) = {NetworkIncludeDrafts(Switched(x))}
    BY <1>4, Zenon DEF Meaning
  <2>3. NetworkIncludeDrafts(FALSE) = FALSE
    BY Zenon DEF NetworkIncludeDrafts
  <2>4. A2aArgument(a) = {FALSE}
    BY <1>4, Zenon DEF A2aArgument
  <2> QED BY <2>1, <2>2, <2>3, <2>4, Zenon
<1>5. CASE a = "mode"
  BY <1>2, <1>5 DEF A2aArgument, Meaning, Falsy
<1>6. CASE a \in {"snippet", "score"}
  BY <1>2, <1>6 DEF A2aArgument, Meaning
<1>7. CASE a = "fields"
  BY <1>2, <1>7 DEF A2aArgument, Meaning, OptionalStrings
<1>8. CASE a = "excluded"
  BY <1>2, <1>8 DEF A2aArgument, Meaning, CollectStrings
<1>9. CASE a = "variants"
  BY <1>1, <1>9 DEF A2aArgument, Meaning, Or
<1>10. a \in {"limit", "drafts", "mode", "fields", "snippet", "score", "excluded", "variants"}
  BY <1>1 DEF ArgumentsOf, Searches
<1> QED BY <1>3, <1>4, <1>5, <1>6, <1>7, <1>8, <1>9, <1>10

\* That a side may take an argument for something else
AmbiguousAt(a, x, side) ==
    \/ /\ a \in Numeric /\ side = "rpc"
       /\ x \in {Text(t) : t \in DOMAIN LaxTexts \ DOMAIN IntTexts}
    \/ /\ a \in {"drafts", "links"} /\ side = "rpc"
       /\ x \in {Text(t) : t \in YesTexts \ TrueTexts}
    \/ /\ a \in {"seeds", "relations"} /\ side = "http"
       /\ \/ Type(x) = "text" /\ x[2] # "" /\ SplitText(x[2]) # <<x[2]>>
          \/ Type(x) = "list" /\ Deduplicated(x[2]) # NonEmpty(x[2])
    \/ /\ a \in {"fields", "excluded"} /\ side = "cli" /\ Type(x) = "list"
       /\ \E t \in ToSet(x[2]) : SplitText(t) # <<t>>

LEMMA NotAmbiguous ==
    ASSUME NEW w, NEW s, NEW t, ~Ambiguous(w, {s, t}), NEW a \in DOMAIN w.given
    PROVE  ~AmbiguousAt(a, w.given[a], s) /\ ~AmbiguousAt(a, w.given[a], t)
<1> DEFINE x == w.given[a]
<1>0. a \in Numeric /\ "rpc" \in {s, t} =>
        x \notin {Text(u) : u \in DOMAIN LaxTexts \ DOMAIN IntTexts}
  BY DEF Ambiguous
<1>1. a \in {"drafts", "links"} /\ "rpc" \in {s, t} =>
        x \notin {Text(u) : u \in YesTexts \ TrueTexts}
  BY DEF Ambiguous
<1>2. a \in {"seeds", "relations"} /\ "http" \in {s, t} =>
        ~ \/ Type(x) = "text" /\ x[2] # "" /\ SplitText(x[2]) # <<x[2]>>
          \/ Type(x) = "list" /\ Deduplicated(x[2]) # NonEmpty(x[2])
  BY DEF Ambiguous
<1>3. a \in {"fields", "excluded"} /\ "cli" \in {s, t} =>
        ~(Type(x) = "list" /\ \E u \in ToSet(x[2]) : SplitText(u) # <<u>>)
  BY DEF Ambiguous
<1> HIDE DEF x
<1>4. ~AmbiguousAt(a, x, s) /\ ~AmbiguousAt(a, x, t)
  BY <1>0, <1>1, <1>2, <1>3 DEF AmbiguousAt
<1> QED BY <1>4 DEF x

\* Each side takes an argument that is sent as it is for what it means, or refuses it
LEMMA PlainMeans ==
    ASSUME NEW side \in Sides, AppInBounds, NEW x, IsValue(x), NEW op \in Tools,
           NEW a \in ArgumentsOf(op), CanWrite(side, op, a, x),
           side = "cli" => WithoutOptions, ~AmbiguousAt(a, x, side)
    PROVE  Argument(side, a, x) \subseteq Meaning(a, x)
<1>0. a \in Arguments
  BY DEF Arguments
<1>1. CASE side = "http"
  <2>1. a \in {"seeds", "relations"} =>
              /\ Type(x) = "text" /\ x[2] # "" => SplitText(x[2]) = <<x[2]>>
              /\ Type(x) = "list" => Deduplicated(x[2]) = NonEmpty(x[2])
    BY <1>1 DEF AmbiguousAt
  <2>2. HttpArgument(a, x) \subseteq Meaning(a, x)
    BY <1>0, <2>1, HttpMeans
  <2> QED BY <1>1, <2>2 DEF Argument
<1>2. CASE side = "rpc"
  <2>1. a \in {"drafts", "links"} => x \notin {Text(t) : t \in YesTexts \ TrueTexts}
    BY <1>2 DEF AmbiguousAt
  <2>3. a \in Numeric => x \notin {Text(t) : t \in DOMAIN LaxTexts \ DOMAIN IntTexts}
    BY <1>2 DEF AmbiguousAt
  <2>2. RpcArgument(a, x) \subseteq Meaning(a, x)
    BY <1>0, <2>1, <2>3, RpcMeans
  <2> QED BY <1>2, <2>2 DEF Argument
<1>3. CASE side = "stream"
  BY <1>0, <1>3, StreamMeans DEF Argument
<1>4. CASE side = "cli"
  <2>1. a \in {"fields", "excluded"} /\ Type(x) = "list" =>
              \A t \in ToSet(x[2]) : SplitText(t) = <<t>>
    BY <1>4 DEF AmbiguousAt
  <2>2. CliArgument(a, x) \subseteq Meaning(a, x)
    BY <1>4, <2>1, CliMeans
  <2> QED BY <1>4, <2>2 DEF Argument
<1>5. CASE side = "a2a"
  BY <1>5, A2aMeans DEF Argument
<1> QED BY <1>1, <1>2, <1>3, <1>4, <1>5 DEF Sides

\* A number as the text it is sent as
Spelled(x) == Text(Spelling[x])

LEMMA SpelledReads ==
    ASSUME NEW x \in DOMAIN Spelling
    PROVE  /\ IsNumber(x) /\ Type(x) \notin {"absent", "null", "text", "list", "flag"}
           /\ IsValue(Spelled(x)) /\ Type(Spelled(x)) = "text" /\ Spelled(x)[2] = Spelling[x]
           /\ Spelling[x] \in STRING /\ Spelling[x] # ""
           /\ LaxInt(Spelled(x)) = LaxInt(x) /\ PyInt(Spelled(x)) = LaxInt(x)
           /\ LaxFloat(Spelled(x)) = LaxFloat(x)
           /\ Spelling[x] \in YesTexts <=> x = Number(1)
           /\ Spelling[x] \in NoTexts <=> x = Number(0)
           /\ Spelling[x] \notin Modes \cup Directions \cup DOMAIN Parts
<1> DEFINE t == Spelling[x]
<1>1. IsNumber(x) /\ Spells(t, x)
  BY CallsAssumption
<1> HIDE DEF t
<1>2. Type(Text(t)) = "text" /\ Text(t)[2] = t /\ Text(t) # Infinite
  BY DEF Type, Text, Infinite
<1>3. t \in STRING
  BY <1>1 DEF Spells
<1>4. IsValue(Text(t))
  BY <1>2, <1>3 DEF IsValue
<1>5. /\ LaxInt(Text(t)) = ReadBy(LaxTexts, Text(t))
      /\ PyInt(Text(t)) = ReadBy(IntTexts, Text(t))
      /\ LaxFloat(Text(t)) = ReadBy(FloatTexts, Text(t))
  BY <1>2 DEF LaxInt, PyInt, LaxFloat
<1>6. Type(x) \notin {"absent", "null", "text", "list", "flag"}
  BY <1>1 DEF IsNumber
<1>7. Spelled(x) = Text(t)
  BY DEF Spelled, t
<1>8. /\ ReadBy(LaxTexts, Text(t)) = LaxInt(x)
      /\ ReadBy(IntTexts, Text(t)) = LaxInt(x)
      /\ ReadBy(FloatTexts, Text(t)) = LaxFloat(x)
  BY <1>1, Zenon DEF Spells
<1>9. /\ t # ""
      /\ t \in YesTexts <=> x = Number(1)
      /\ t \in NoTexts <=> x = Number(0)
      /\ t \notin Modes \cup Directions \cup DOMAIN Parts
  BY <1>1, Zenon DEF Spells
<1> QED BY <1>1, <1>2, <1>3, <1>4, <1>5, <1>6, <1>7, <1>8, <1>9 DEF t

\* and it stands for the number, except where texts are wanted
LEMMA SpelledSame ==
    ASSUME NEW x \in DOMAIN Spelling, IsValue(x), NEW a \in Arguments \ Textual
    PROVE  /\ HttpArgument(a, Spelled(x)) = HttpArgument(a, x)
           /\ a \notin {"graphLimit", "neighborLimit", "depth", "direction"} =>
                CliArgument(a, Spelled(x)) \subseteq CliArgument(a, x)
<1> DEFINE y == Spelled(x)
<1>1. IsValue(y) /\ Type(y) = "text" /\ y[2] = Spelling[x]
      /\ LaxInt(y) = LaxInt(x) /\ PyInt(y) = LaxInt(x) /\ LaxFloat(y) = LaxFloat(x)
  BY SpelledReads
<1>2. ~Empty(x) /\ ~Empty(y) /\ x # Absent /\ y # Absent
  BY <1>1, SpelledReads, Kinds
<1>3. LaxBool(y) = LaxBool(x)
  <2>1. LaxBool(y) = IF Spelling[x] \in YesTexts THEN {TRUE}
                     ELSE IF Spelling[x] \in NoTexts THEN {FALSE} ELSE {}
    <3>1. YesTexts \cap NoTexts = {}
      BY CallsAssumption
    <3> HIDE DEF y
    <3> QED BY <1>1, <3>1 DEF LaxBool
  <2>2. CASE x = Number(1)
    <3>1. LaxBool(x) = {(1 = 1)}
      BY <2>2 DEF LaxBool, Number, Type
    <3>2. (1 = 1) = TRUE
      OBVIOUS
    <3>3. Spelling[x] \in YesTexts
      BY <2>2, SpelledReads
    <3> QED BY <2>1, <3>1, <3>2, <3>3, Zenon
  <2>3. CASE x = Number(0)
    <3>1. LaxBool(x) = {(0 = 1)}
      BY <2>3 DEF LaxBool, Number, Type
    <3>2. (0 = 1) = FALSE
      OBVIOUS
    <3>4. Number(0) # Number(1)
      BY DEF Number
    <3>3. Spelling[x] \notin YesTexts /\ Spelling[x] \in NoTexts
      BY <2>3, <3>4, SpelledReads
    <3> QED BY <2>1, <3>1, <3>2, <3>3, Zenon
  <2>4. CASE x \notin {Number(0), Number(1)}
    <3>1. ~(Type(x) = "number" /\ x[2] \in {0, 1})
      <4>1. Type(x) = "number" => x = Number(x[2])
        BY Kinds DEF Number
      <4> QED BY <2>4, <4>1
    <3>2. LaxBool(x) = {}
      BY <3>1, SpelledReads DEF LaxBool
    <3>3. Spelling[x] \notin YesTexts /\ Spelling[x] \notin NoTexts
      BY <2>4, SpelledReads
    <3> QED BY <2>1, <3>2, <3>3, Zenon
  <2> QED BY <2>2, <2>3, <2>4
<1>4. OneOf(Modes, y) = OneOf(Modes, x) /\ OneOf(Directions, y) = OneOf(Directions, x)
  <2>1. OneOf(Modes, x) = {} /\ OneOf(Directions, x) = {}
    BY SpelledReads, NoText
  <2>2. ASSUME NEW S \in {Modes, Directions}
        PROVE  OneOf(S, y) = {}
    <3>1. ASSUME NEW t \in OneOf(S, y)
          PROVE  FALSE
      <4>1. y[2] = t /\ t \in S
        BY <1>1, ChosenText DEF OneOf
      <4> QED BY <1>1, <4>1, SpelledReads
    <3> QED BY <3>1
  <2> QED BY <2>1, <2>2
<1>5. Variants(y) = Variants(x)
  BY <1>1, SpelledReads DEF Variants
<1>6. LaxInt(x) \subseteq PyInt(x)
  BY SpelledReads, Kinds DEF PyInt, LaxInt, ReadBy
<1> HIDE DEF y
<1>7. HttpArgument(a, y) = HttpArgument(a, x)
  <2>1. CASE a \in {"limit", "graphLimit", "neighborLimit", "depth", "snippet", "score", "chars"}
    BY <1>1, <1>2, <2>1 DEF HttpArgument, Or, OrNull
  <2>2. CASE a = "drafts"
    <3>1. HttpArgument(a, y) = Drafts(y) /\ HttpArgument(a, x) = Drafts(x)
      BY <2>2, Zenon DEF HttpArgument
    <3>2. Or(FALSE, y, LaxBool(y)) = Or(FALSE, x, LaxBool(x))
      BY <1>2, <1>3, Zenon DEF Or
    <3> QED BY <3>1, <3>2, Zenon DEF Drafts
  <2>3. CASE a = "links"
    <3>1. /\ HttpArgument(a, y) = OrNull(<<>>, y, Optional(LaxBool(y)))
          /\ HttpArgument(a, x) = OrNull(<<>>, x, Optional(LaxBool(x)))
      BY <2>3, Zenon DEF HttpArgument
    <3> QED BY <1>2, <1>3, <3>1, Zenon DEF OrNull
  <2>4. CASE a \in {"mode", "direction", "variants"}
    BY <1>2, <1>4, <1>5, <2>4 DEF HttpArgument, Or
  <2> QED BY <2>1, <2>2, <2>3, <2>4 DEF Arguments, ArgumentsOf, Textual
<1>8. ASSUME a \notin {"graphLimit", "neighborLimit", "depth", "direction"}
      PROVE  CliArgument(a, y) \subseteq CliArgument(a, x)
  <2>1. CASE a \in {"limit", "snippet", "chars"}
    BY <1>1, <1>2, <1>6, <2>1 DEF CliArgument, Or, Optional
  <2>2. CASE a = "score"
    BY <1>1, <1>2, <2>2 DEF CliArgument, Or
  <2>3. CASE a = "links"
    <3>1. /\ CliArgument(a, y) = Or(<<>>, y, Optional(LaxBool(y)))
          /\ CliArgument(a, x) = Or(<<>>, x, Optional(LaxBool(x)))
      BY <2>3, Zenon DEF CliArgument
    <3> QED BY <1>2, <1>3, <3>1, Zenon DEF Or
  <2>4. CASE a = "mode"
    BY <1>2, <1>4, <2>4 DEF CliArgument, Or
  <2>5. CASE a \in {"drafts", "variants"}
    BY <2>5, Zenon DEF CliArgument
  <2> QED BY <1>8, <2>1, <2>2, <2>3, <2>4, <2>5 DEF Arguments, ArgumentsOf, Textual
<1> QED BY <1>7, <1>8 DEF y

\* What can be written can be sent
LEMMA CanSend ==
    ASSUME NEW side \in Sides, NEW x, IsValue(x), NEW op \in Tools,
           NEW a \in ArgumentsOf(op), CanWrite(side, op, a, x)
    PROVE  /\ IsValue(Sent(side, op, x)) /\ CanWrite(side, op, a, Sent(side, op, x))
           /\ Sent(side, op, x) # x =>
                /\ x \in DOMAIN Spelling /\ Sent(side, op, x) = Spelled(x)
                /\ side \in {"http", "cli"}
<1>1. CASE Sent(side, op, x) = x
  BY <1>1
<1>2. CASE Sent(side, op, x) # x
  <2> DEFINE y == Sent(side, op, x)
  <2>1. TextOnly(side, op) /\ x \in DOMAIN Spelling /\ y = Spelled(x)
    BY <1>2 DEF Sent, Spelled
  <2>2. IsValue(y) /\ Type(y) = "text"
    BY <2>1, SpelledReads
  <2>3. /\ y # NoValue /\ y # Absent /\ x # Absent
    BY <2>1, <2>2, SpelledReads, Kinds
  <2>4. Type(x) # "flag" /\ Type(x) # "absent"
    BY <2>1, SpelledReads
  <2> HIDE DEF y
  <2>5. ASSUME side = "http" /\ op \notin Searches
        PROVE  CanWrite(side, op, a, y)
    BY <2>2, <2>3, <2>5 DEF CanWrite
  <2>6. ASSUME side = "cli"
        PROVE  CanWrite(side, op, a, y)
    <3>1. op \notin {"graph", "neighbors"} /\ a \notin {"drafts", "variants", "links"}
      BY <2>3, <2>4, <2>6 DEF CanWrite
    <3> QED BY <2>2, <2>3, <2>6, <3>1 DEF CanWrite
  <2>7. CanWrite(side, op, a, y) /\ side \in {"http", "cli"}
    BY <2>1, <2>5, <2>6 DEF TextOnly
  <2> QED BY <2>1, <2>2, <2>7 DEF y
<1> QED BY <1>1, <1>2

\* Where texts are wanted a side hears the text that was sent, elsewhere what it stands for
Heard(side, op, a, x) == IF a \in Textual THEN Sent(side, op, x) ELSE x

\* Each side takes an argument for what it means there, or refuses it
LEMMA SideMeans ==
    ASSUME NEW side \in Sides, AppInBounds, NEW x, IsValue(x), NEW op \in Tools,
           NEW a \in ArgumentsOf(op), CanWrite(side, op, a, x),
           side = "cli" => WithoutOptions, ~AmbiguousAt(a, x, side)
    PROVE  /\ IsValue(Heard(side, op, a, x))
           /\ Argument(side, a, Sent(side, op, x)) \subseteq Meaning(a, Heard(side, op, a, x))
<1> DEFINE y == Sent(side, op, x)
<1>1. IsValue(y) /\ CanWrite(side, op, a, y)
  BY CanSend
<1>2. CASE y = x
  <2>1. Heard(side, op, a, x) = x
    BY <1>2 DEF Heard
  <2> QED BY <1>2, <2>1, PlainMeans
<1>3. CASE y # x
  <2>1. x \in DOMAIN Spelling /\ y = Spelled(x) /\ side \in {"http", "cli"} /\ a \in Arguments
    BY <1>3, CanSend DEF Arguments
  <2>2. CASE a \in Textual
    <3>1. /\ Type(y) = "text" /\ y[2] \notin DOMAIN Parts
      BY <2>1, SpelledReads
    <3>2. SplitText(y[2]) = <<y[2]>>
      BY <3>1 DEF SplitText
    <3>3. a \notin {"drafts", "links"} /\ a \notin Numeric
      BY <2>2 DEF Textual, Numeric
    <3> HIDE DEF y
    <3>4. ~AmbiguousAt(a, y, side)
      BY <3>1, <3>2, <3>3 DEF AmbiguousAt
    <3>5. Argument(side, a, y) \subseteq Meaning(a, y)
      BY <1>1, <3>4, PlainMeans
    <3>6. Heard(side, op, a, x) = y
      BY <2>2 DEF Heard, y
    <3> QED BY <1>1, <3>5, <3>6 DEF y
  <2>3. CASE a \notin Textual
    <3>1. Argument(side, a, x) \subseteq Meaning(a, x)
      BY PlainMeans
    <3>4. side = "cli" => a \notin {"graphLimit", "neighborLimit", "depth", "direction"}
      BY DEF CanWrite, ArgumentsOf, Tools, Searches
    <3>2. Argument(side, a, y) \subseteq Argument(side, a, x)
      BY <2>1, <2>3, <3>4, SpelledSame DEF Argument
    <3>3. Heard(side, op, a, x) = x
      BY <2>3 DEF Heard
    <3> QED BY <3>1, <3>2, <3>3
  <2> QED BY <2>2, <2>3
<1> QED BY <1>2, <1>3

\* Two sides hear the same, unless that is ambiguous
LEMMA HeardAlike ==
    ASSUME NEW w, NEW s, NEW t, ~Ambiguous(w, {s, t}), NEW a \in DOMAIN w.given
    PROVE  Heard(s, w.operation, a, w.given[a]) = Heard(t, w.operation, a, w.given[a])
<1> DEFINE x == w.given[a]
<1>1. a \in Textual /\ IsNumber(x) => (TextOnly(s, w.operation) <=> TextOnly(t, w.operation))
  BY DEF Ambiguous
<1>2. ~IsNumber(x) => x \notin DOMAIN Spelling
  BY SpelledReads
<1> HIDE DEF x
<1>3. Heard(s, w.operation, a, x) = Heard(t, w.operation, a, x)
  BY <1>1, <1>2 DEF Heard, Sent
<1> QED BY <1>3 DEF x

\* What is meant is within the bounds
LEMMA MeantInBounds ==
    ASSUME AppInBounds, NEW x, IsValue(x)
    PROVE  /\ \A a \in Counts : Meaning(a, x) \subseteq InBounds(a)
           /\ \A a \in {"snippet", "chars"} :
                Meaning(a, x) \subseteq Optional(InBounds(a)) \cup {<<>>}
<1>1. \A a \in Numeric : Clamped(MeantInt(x), a) \subseteq InBounds(a)
  <2> SUFFICES ASSUME NEW a \in Numeric, NEW n \in MeantInt(x)
               PROVE  Clamp(n, a) \in InBounds(a)
    BY DEF Clamped
  <2>1. n \in Int
    BY Ints
  <2> QED BY <2>1, Clamping
<1>2. \A S, T : S \subseteq T => Optional(S) \subseteq Optional(T)
  BY DEF Optional
<1>3. Meaning("limit", x) \subseteq InBounds("limit")
  BY <1>1 DEF Meaning, Numeric, AppInBounds
<1>4. Meaning("graphLimit", x) \subseteq InBounds("graphLimit")
  BY <1>1 DEF Meaning, Numeric, AppInBounds
<1>5. Meaning("neighborLimit", x) \subseteq InBounds("neighborLimit")
  BY <1>1, CallsAssumption DEF Meaning, Numeric
<1>6. Meaning("depth", x) \subseteq InBounds("depth")
  BY <1>1, CallsAssumption DEF Meaning, Numeric
<1>7. Meaning("snippet", x) \subseteq Optional(InBounds("snippet")) \cup {<<>>}
  BY <1>1, <1>2 DEF Meaning, Numeric
<1>8. Meaning("chars", x) \subseteq Optional(InBounds("chars")) \cup {<<>>}
  BY <1>1, <1>2 DEF Meaning, Numeric, AppInBounds
<1> QED BY <1>3, <1>4, <1>5, <1>6, <1>7, <1>8 DEF Counts

\* /mcp brings a number within its bounds, whatever it makes of it
LEMMA RpcInBounds ==
    ASSUME AppInBounds, NEW x, IsValue(x)
    PROVE  /\ \A a \in Counts : RpcArgument(a, x) \subseteq InBounds(a)
           /\ \A a \in {"snippet", "chars"} :
                RpcArgument(a, x) \subseteq Optional(InBounds(a)) \cup {<<>>}
<1>1. \A a \in Numeric : \A n \in PyInt(x) : Clamp(n, a) \in InBounds(a)
  <2>1. PyInt(x) \subseteq Int
    BY Ints DEF MeantInt
  <2> QED BY <2>1, Clamping
<1>2. \A a \in Numeric : \A default \in InBounds(a) : ClampInt(x, a, default) \subseteq InBounds(a)
  <2> SUFFICES ASSUME NEW a \in Numeric, NEW default \in InBounds(a)
               PROVE  ClampInt(x, a, default) \subseteq InBounds(a)
    OBVIOUS
  <2>1. ClampInt(x, a, default) \subseteq IF PyInt(x) = {} THEN {default} ELSE Clamped(PyInt(x), a)
    BY ClampIntMeans
  <2> QED BY <1>1, <2>1 DEF Clamped
<1>3. \A a \in Numeric : OptionalClamped(x, a) \subseteq Optional(InBounds(a)) \cup {<<>>}
  BY <1>1 DEF OptionalClamped, Optional
<1>4. RpcArgument("limit", x) \subseteq InBounds("limit")
  BY <1>2 DEF RpcArgument, Numeric, AppInBounds
<1>5. RpcArgument("graphLimit", x) \subseteq InBounds("graphLimit")
  BY <1>2 DEF RpcArgument, Numeric, AppInBounds
<1>6. RpcArgument("neighborLimit", x) \subseteq InBounds("neighborLimit")
  BY <1>2, CallsAssumption DEF RpcArgument, Numeric
<1>7. RpcArgument("depth", x) \subseteq InBounds("depth")
  BY <1>2, CallsAssumption DEF RpcArgument, Numeric
<1>8. RpcArgument("snippet", x) \subseteq Optional(InBounds("snippet")) \cup {<<>>}
  BY <1>3 DEF RpcArgument, Numeric
<1>9. RpcArgument("chars", x) \subseteq Optional(InBounds("chars")) \cup {<<>>}
  <2>1. \A c \in OptionalClamped(x, "chars") : c \in Optional(InBounds("chars")) \cup {<<>>}
    BY <1>3 DEF Numeric
  <2> QED BY <2>1 DEF RpcArgument, OrDefault, AppInBounds
<1> QED BY <1>4, <1>5, <1>6, <1>7, <1>8, <1>9 DEF Counts

\* Whatever the options, numbers are within their bounds and drafts only where they are allowed
LEMMA ArgumentInBounds ==
    ASSUME NEW side \in Sides, AppInBounds, NEW x, IsValue(x), NEW op \in Tools,
           NEW a \in ArgumentsOf(op), CanWrite(side, op, a, x), NEW v \in Argument(side, a, x)
    PROVE  /\ a \in Counts => v \in InBounds(a)
           /\ a \in {"snippet", "chars"} => v \in Optional(InBounds(a)) \cup {<<>>}
           /\ a = "drafts" => (v => app.allowDrafts)
<1>1. ASSUME a \in Counts \cup {"snippet", "chars"}, side \notin {"cli", "rpc"}
      PROVE  v \in Meaning(a, x)
  BY <1>1, PlainMeans DEF AmbiguousAt, Counts
<1>2. CASE a \in Counts
  <2>1. CASE side = "cli"
    <3>1. a = "limit"
      BY <1>2, <2>1 DEF CanWrite, ArgumentsOf, Tools, Searches, Counts
    <3>2. v = ContextLimit \/ v \in InBounds(a)
      BY <2>1, <3>1 DEF Argument, CliArgument, Or
    <3> QED BY <1>2, <3>1, <3>2, CallsAssumption DEF Counts
  <2>2. CASE side \notin {"cli", "rpc"}
    <3>1. v \in InBounds(a)
      BY <1>1, <1>2, <2>2, MeantInBounds
    <3> QED BY <1>2, <3>1 DEF Counts
  <2>3. CASE side = "rpc"
    <3>1. v \in InBounds(a)
      BY <1>2, <2>3, RpcInBounds DEF Argument
    <3> QED BY <1>2, <3>1 DEF Counts
  <2> QED BY <2>1, <2>2, <2>3
<1>3. CASE a \in {"snippet", "chars"}
  <2>1. CASE side = "cli"
    <3>1. v \in Optional(InBounds(a)) \cup {<<>>}
      BY <1>3, <2>1 DEF Argument, CliArgument, Or, Optional
    <3> QED BY <1>3, <3>1 DEF Counts
  <2>2. CASE side \notin {"cli", "rpc"}
    <3>1. v \in Optional(InBounds(a)) \cup {<<>>}
      BY <1>1, <1>3, <2>2, MeantInBounds
    <3> QED BY <1>3, <3>1 DEF Counts
  <2>3. CASE side = "rpc"
    <3>1. v \in Optional(InBounds(a)) \cup {<<>>}
      BY <1>3, <2>3, RpcInBounds DEF Argument
    <3> QED BY <1>3, <3>1 DEF Counts
  <2> QED BY <2>1, <2>2, <2>3
<1>4. CASE a = "drafts"
  <2>1. v => app.allowDrafts
    <3>1. CASE side = "http"
      <4>1. v \in Drafts(x)
        BY <1>4, <3>1, Zenon DEF Argument, HttpArgument
      <4> QED BY <4>1, Zenon DEF Drafts, NetworkIncludeDrafts
    <3>2. CASE side = "rpc"
      <4>1. v \in {NetworkIncludeDrafts(BoolArg(x))}
        BY <1>4, <3>2, Zenon DEF Argument, RpcArgument
      <4> QED BY <4>1, Zenon DEF NetworkIncludeDrafts
    <3>3. CASE side = "stream"
      <4>1. v \in Drafts(x)
        BY <1>4, <3>3, Zenon DEF Argument, StreamArgument
      <4> QED BY <4>1, Zenon DEF Drafts, NetworkIncludeDrafts
    <3>4. CASE side = "cli"
      BY <1>4, <3>4, Zenon DEF Argument, CliArgument
    <3>5. CASE side = "a2a"
      BY <1>4, <3>5, Zenon DEF Argument, A2aArgument
    <3> QED BY <3>1, <3>2, <3>3, <3>4, <3>5 DEF Sides
  <2> QED BY <1>4, <2>1 DEF Counts
<1> QED BY <1>2, <1>3, <1>4

-----------------------------------------------------------------------------
\* The calls of a side are those with what the arguments it hears mean
Meant(heard) == [a \in DOMAIN heard |-> CHOOSE v \in Meaning(a, heard[a]) : TRUE]
Parsed(side, w) ==
    [a \in DOMAIN w.given |-> Argument(side, a, Sent(side, w.operation, w.given[a]))]

LEMMA CallsMean ==
    ASSUME NEW side, NEW w, NEW heard, DOMAIN heard = DOMAIN w.given,
           DOMAIN w.given \subseteq Arguments,
           \A a \in DOMAIN w.given : /\ IsValue(heard[a])
                                    /\ Parsed(side, w)[a] \subseteq Meaning(a, heard[a]),
           CallsFrom(side, w) # {}
    PROVE  CallsFrom(side, w) = {Meant(heard)}
<1> DEFINE parsed == Parsed(side, w)
<1>1. CallsFrom(side, w) = IF \E a \in DOMAIN parsed : parsed[a] = {} THEN {}
                           ELSE {[a \in DOMAIN parsed |-> CHOOSE v \in parsed[a] : TRUE]}
  BY DEF CallsFrom, Parsed
<1>2. DOMAIN parsed = DOMAIN w.given
  BY DEF Parsed
<1>3. ASSUME NEW a \in DOMAIN w.given
      PROVE  parsed[a] = Meaning(a, heard[a])
  <2>1. parsed[a] \subseteq Meaning(a, heard[a])
    OBVIOUS
  <2>2. parsed[a] # {}
    BY <1>1, <1>2
  <2>3. \A u, v \in Meaning(a, heard[a]) : u = v
    BY OneMeaning
  <2> HIDE DEF parsed
  <2> QED BY <2>1, <2>2, <2>3
<1> HIDE DEF parsed
<1>4. [a \in DOMAIN parsed |-> CHOOSE v \in parsed[a] : TRUE] = Meant(heard)
  <2>1. \A a \in DOMAIN w.given :
          (CHOOSE v \in parsed[a] : TRUE) = CHOOSE v \in Meaning(a, heard[a]) : TRUE
    BY <1>3
  <2> QED BY <1>2, <2>1 DEF Meant
<1>5. CallsFrom(side, w) = {[a \in DOMAIN parsed |-> CHOOSE v \in parsed[a] : TRUE]}
  BY <1>1, Zenon
<1> QED BY <1>4, <1>5

\* and they are made of what the side parses
LEMMA CallsParsed ==
    ASSUME NEW side, NEW w, NEW call \in CallsFrom(side, w)
    PROVE  /\ DOMAIN call = DOMAIN w.given
           /\ \A a \in DOMAIN w.given : call[a] \in Argument(side, a, Sent(side, w.operation, w.given[a]))
<1> DEFINE parsed == Parsed(side, w)
<1>1. CallsFrom(side, w) = IF \E a \in DOMAIN parsed : parsed[a] = {} THEN {}
                           ELSE {[a \in DOMAIN parsed |-> CHOOSE v \in parsed[a] : TRUE]}
  BY DEF CallsFrom, Parsed
<1>2. DOMAIN parsed = DOMAIN w.given /\ \A a \in DOMAIN parsed : parsed[a] # {}
  BY <1>1 DEF Parsed
<1>3. \A a \in DOMAIN w.given :
        parsed[a] = Argument(side, a, Sent(side, w.operation, w.given[a]))
  BY DEF Parsed
<1>4. call = [a \in DOMAIN parsed |-> CHOOSE v \in parsed[a] : TRUE]
  BY <1>1
<1> HIDE DEF parsed
<1>5. \A a \in DOMAIN parsed : (CHOOSE v \in parsed[a] : TRUE) \in parsed[a]
  BY <1>2
<1> QED BY <1>2, <1>3, <1>4, <1>5

-----------------------------------------------------------------------------
\* What is asked of the calls of two sides
Agreed(s, t, w, c, d) ==
    /\ ~Ambiguous(w, {s, t}) /\ ("cli" \in {s, t} => WithoutOptions) => c = d
    /\ \A call \in c :
        /\ call.drafts => app.allowDrafts
        /\ \A a \in DOMAIN call \cap Counts : call[a] \in InBounds(a)
        /\ \A a \in DOMAIN call \cap {"snippet", "chars"} :
              call[a] \in Optional(InBounds(a)) \cup {<<>>}

LEMMA GivenValues ==
    ASSUME NEW op \in Tools, NEW given \in Writes[op]
    PROVE  DOMAIN given = ArgumentsOf(op) /\ \A a \in DOMAIN given : IsValue(given[a])
BY WritesAssumption

LEMMA CallsOfRequest ==
    ASSUME NEW s \in Sides, NEW t \in Sides, AppInBounds,
           NEW w, w.operation \in Tools, w.given \in Writes[w.operation],
           \A a \in DOMAIN w.given : /\ CanWrite(s, w.operation, a, w.given[a])
                                    /\ CanWrite(t, w.operation, a, w.given[a]),
           CallsFrom(s, w) # {}, CallsFrom(t, w) # {}
    PROVE  Agreed(s, t, w, CallsFrom(s, w), CallsFrom(t, w))
<1> DEFINE op == w.operation
           given == w.given
<1>1. /\ AppInBounds /\ op \in Tools /\ given \in Writes[op]
      /\ \A a \in DOMAIN given : CanWrite(s, op, a, given[a]) /\ CanWrite(t, op, a, given[a])
  OBVIOUS
<1>2. DOMAIN given = ArgumentsOf(op) /\ \A a \in DOMAIN given : IsValue(given[a])
  <2> HIDE DEF op, given
  <2> QED BY <1>1, GivenValues
<1>3. DOMAIN given \subseteq Arguments
  BY <1>1, <1>2 DEF Arguments
<1>4. ASSUME ~Ambiguous(w, {s, t}), "cli" \in {s, t} => WithoutOptions
      PROVE  CallsFrom(s, w) = CallsFrom(t, w)
  <2> DEFINE heard == [a \in DOMAIN given |-> Heard(s, op, a, given[a])]
  <2>1. ASSUME NEW a \in DOMAIN given
        PROVE  /\ IsValue(heard[a])
               /\ Parsed(s, w)[a] \subseteq Meaning(a, heard[a])
               /\ Parsed(t, w)[a] \subseteq Meaning(a, heard[a])
    <3>1. ~AmbiguousAt(a, given[a], s) /\ ~AmbiguousAt(a, given[a], t)
          /\ Heard(s, op, a, given[a]) = Heard(t, op, a, given[a])
      BY <1>4, NotAmbiguous, HeardAlike
    <3>2. a \in ArgumentsOf(op) /\ IsValue(given[a])
          /\ CanWrite(s, op, a, given[a]) /\ CanWrite(t, op, a, given[a])
      BY <1>1, <1>2
    <3>3. (s = "cli" => WithoutOptions) /\ (t = "cli" => WithoutOptions)
      BY <1>4
    <3>6. /\ heard[a] = Heard(s, op, a, given[a])
          /\ Parsed(s, w)[a] = Argument(s, a, Sent(s, op, given[a]))
          /\ Parsed(t, w)[a] = Argument(t, a, Sent(t, op, given[a]))
      BY DEF Parsed
    <3> HIDE DEF op, given, heard
    <3>4. /\ IsValue(Heard(s, op, a, given[a]))
          /\ Argument(s, a, Sent(s, op, given[a])) \subseteq Meaning(a, Heard(s, op, a, given[a]))
      BY <1>1, <3>1, <3>2, <3>3, SideMeans
    <3>5. Argument(t, a, Sent(t, op, given[a])) \subseteq Meaning(a, Heard(t, op, a, given[a]))
      BY <1>1, <3>1, <3>2, <3>3, SideMeans
    <3> QED BY <3>1, <3>4, <3>5, <3>6
  <2>4. DOMAIN heard = DOMAIN w.given
    OBVIOUS
  <2> HIDE DEF heard
  <2>2. CallsFrom(s, w) = {Meant(heard)}
    BY <1>1, <1>2, <1>3, <2>1, <2>4, CallsMean
  <2>3. CallsFrom(t, w) = {Meant(heard)}
    BY <1>1, <1>2, <1>3, <2>1, <2>4, CallsMean
  <2> QED BY <1>1, <2>2, <2>3
<1>5. ASSUME NEW call \in CallsFrom(s, w)
      PROVE  /\ call.drafts => app.allowDrafts
             /\ \A a \in DOMAIN call \cap Counts : call[a] \in InBounds(a)
             /\ \A a \in DOMAIN call \cap {"snippet", "chars"} :
                   call[a] \in Optional(InBounds(a)) \cup {<<>>}
  <2>1. DOMAIN call = DOMAIN given
        /\ \A a \in DOMAIN given : call[a] \in Argument(s, a, Sent(s, op, given[a]))
    BY <1>1, CallsParsed
  <2>2. "drafts" \in DOMAIN given
    BY <1>1, <1>2 DEF ArgumentsOf, Tools, Searches
  <2> HIDE DEF op, given
  <2>3. \A a \in DOMAIN given :
          /\ a \in Counts => call[a] \in InBounds(a)
          /\ a \in {"snippet", "chars"} => call[a] \in Optional(InBounds(a)) \cup {<<>>}
          /\ a = "drafts" => (call[a] => app.allowDrafts)
    <3> SUFFICES ASSUME NEW a \in DOMAIN given
                 PROVE  /\ a \in Counts => call[a] \in InBounds(a)
                        /\ a \in {"snippet", "chars"} =>
                             call[a] \in Optional(InBounds(a)) \cup {<<>>}
                        /\ a = "drafts" => (call[a] => app.allowDrafts)
      OBVIOUS
    <3>1. a \in ArgumentsOf(op) /\ IsValue(given[a]) /\ CanWrite(s, op, a, given[a])
          /\ call[a] \in Argument(s, a, Sent(s, op, given[a]))
      BY <1>1, <1>2, <2>1
    <3>2. /\ IsValue(Sent(s, op, given[a])) /\ CanWrite(s, op, a, Sent(s, op, given[a]))
      BY <1>1, <3>1, CanSend
    <3> QED BY <1>1, <3>1, <3>2, ArgumentInBounds
  <2>4. call["drafts"] => app.allowDrafts
    BY <2>2, <2>3, Zenon
  <2>5. call.drafts => app.allowDrafts
    BY <2>4, Zenon
  <2> QED BY <2>1, <2>3, <2>5
<1> QED BY <1>4, <1>5 DEF Agreed

\* The defaults of a server are within their bounds, and its sides agree
AgreeInv ==
    /\ ~Started => \A side \in Sides : answers[side].calls = {}
    /\ Started => AppInBounds
    /\ CallsAgree

LEMMA AgreeInit == CallsInit => AgreeInv
<1> SUFFICES ASSUME CallsInit PROVE AgreeInv
  OBVIOUS
<1>1. ~Started
  BY DEF CallsInit, CallsAtRest, Started
<1>2. \A side \in Sides : answers[side].calls = {}
  BY DEF CallsInit, CallsAtRest, Response
<1> QED BY <1>1, <1>2 DEF AgreeInv, CallsAgree

\* What is resolved is within the bounds
LEMMA ResolvedInBounds ==
    ASSUME NEW r \in Resolved
    PROVE  /\ r.limit \in InBounds("limit") /\ r.graphLimit \in InBounds("graphLimit")
           /\ r.chars \in Optional(InBounds("chars")) \cup {<<>>}
<1>1. \A option, env, a : ResolvedInt(option, env, a) \subseteq Optional(InBounds(a)) \cup {<<>>}
  BY DEF ResolvedInt, Optional
<1>2. \A a, l : \A d \in InBounds(a) :
        l \in Optional(InBounds(a)) \cup {<<>>} => The(d, l) \in InBounds(a)
  BY DEF The, Optional
<1>3. \E l \in Optional(InBounds("limit")) \cup {<<>>},
        g \in Optional(InBounds("graphLimit")) \cup {<<>>},
        c \in Optional(InBounds("chars")) \cup {<<>>} :
         r.limit = The(ContextLimit, l) /\ r.graphLimit = The(GraphLimit, g) /\ r.chars = c
  <2>1. PICK l, g, c, on :
          /\ l \in ResolvedInt(settings.limit, IF settings.way = "serve" THEN settings.limitEnv
                                               ELSE Absent, "limit")
          /\ g \in ResolvedInt(settings.graphLimit,
                               IF settings.way = "serve" THEN settings.graphLimitEnv ELSE Absent,
                               "graphLimit")
          /\ c \in ResolvedInt(settings.chars, IF settings.way = "serve" THEN settings.charsEnv
                                               ELSE Absent, "chars")
          /\ r = [tools |-> on, limit |-> The(ContextLimit, l),
                  graphLimit |-> The(GraphLimit, g), chars |-> c,
                  allowDrafts |-> settings.allowDrafts]
    BY DEF Resolved
  <2> QED BY <1>1, <2>1
<1>4. PICK l \in Optional(InBounds("limit")) \cup {<<>>},
           g \in Optional(InBounds("graphLimit")) \cup {<<>>},
           c \in Optional(InBounds("chars")) \cup {<<>>} :
         r.limit = The(ContextLimit, l) /\ r.graphLimit = The(GraphLimit, g) /\ r.chars = c
  BY <1>3
<1>5. ContextLimit \in InBounds("limit") /\ GraphLimit \in InBounds("graphLimit")
  BY CallsAssumption
<1>6. The(ContextLimit, l) \in InBounds("limit")
  BY <1>2, <1>5
<1>7. The(GraphLimit, g) \in InBounds("graphLimit")
  BY <1>2, <1>5
<1> QED BY <1>4, <1>6, <1>7

LEMMA AgreeStep == AgreeInv /\ [CallsNext]_callVars => AgreeInv'
<1> SUFFICES ASSUME AgreeInv, [CallsNext]_callVars PROVE AgreeInv'
  OBVIOUS
<1>1. CASE StartServer
  <2>1. ~Started /\ answers' = answers
    BY <1>1 DEF StartServer, Started
  <2>2. \A side \in Sides : answers'[side].calls = {}
    BY <2>1 DEF AgreeInv
  <2>3. CallsAgree'
    BY <2>2 DEF CallsAgree
  <2>4. CASE app' = Refused
    BY <2>2, <2>3, <2>4 DEF AgreeInv, Started
  <2>5. CASE \E r \in Resolved : app' = r
    BY <2>2, <2>3, <2>5, ResolvedInBounds DEF AgreeInv, AppInBounds
  <2> QED BY <1>1, <2>4, <2>5 DEF StartServer
<1>2. CASE Retitle \/ UNCHANGED callVars
  <2>1. app' = app /\ wanted' = wanted /\ answers' = answers
    BY <1>2 DEF Retitle, callVars
  <2>2. (Started' <=> Started) /\ (AppInBounds' <=> AppInBounds)
        /\ (WithoutOptions' <=> WithoutOptions)
    BY <2>1 DEF Started, AppInBounds, WithoutOptions
  <2>3. CallsAgree' <=> CallsAgree
    BY <2>1, <2>2, Zenon DEF CallsAgree
  <2> QED BY <2>1, <2>2, <2>3 DEF AgreeInv
<1>3. CASE Ask
  <2>1. app' = app /\ Started
    BY <1>3 DEF Ask
  <2>2. Started' /\ AppInBounds /\ AppInBounds' /\ (WithoutOptions' <=> WithoutOptions)
    BY <2>1 DEF Started, AppInBounds, AgreeInv, WithoutOptions
  <2>3. PICK w : /\ wanted' = w /\ w.operation \in Tools /\ w.given \in Writes[w.operation]
                 /\ answers' = [side \in Sides |->
                      IF \E a \in DOMAIN w.given : ~CanWrite(side, w.operation, a, w.given[a])
                      THEN Response("nothing", {})
                      ELSE IF IsDisabled(side, w.operation) THEN Response("refuses", {})
                      ELSE Response("parses", CallsFrom(side, w))]
    BY <1>3 DEF Ask
  <2>4. ASSUME NEW side \in Sides, answers'[side].calls # {}
        PROVE  /\ \A a \in DOMAIN w.given : CanWrite(side, w.operation, a, w.given[a])
               /\ answers'[side].calls = CallsFrom(side, w)
    <3> DEFINE unwritten == \E a \in DOMAIN w.given :
                               ~CanWrite(side, w.operation, a, w.given[a])
               calls == CallsFrom(side, w)
    <3>1. answers'[side] = IF unwritten THEN Response("nothing", {})
                           ELSE IF IsDisabled(side, w.operation) THEN Response("refuses", {})
                           ELSE Response("parses", calls)
      BY <2>3
    <3>2. ~unwritten /\ answers'[side].calls = calls
      <4> HIDE DEF unwritten, calls
      <4>1. \A does, c : Response(does, c).calls = c
        BY DEF Response
      <4> QED BY <2>4, <3>1, <4>1
    <3> QED BY <3>2
  <2>5. ASSUME NEW s \in Sides, NEW t \in Sides,
               answers'[s].calls # {}, answers'[t].calls # {}
        PROVE  Agreed(s, t, w, answers'[s].calls, answers'[t].calls)
    <3>1. /\ \A a \in DOMAIN w.given : /\ CanWrite(s, w.operation, a, w.given[a])
                                       /\ CanWrite(t, w.operation, a, w.given[a])
          /\ answers'[s].calls = CallsFrom(s, w) /\ answers'[t].calls = CallsFrom(t, w)
      BY <2>4, <2>5
    <3> QED BY <2>2, <2>3, <2>5, <3>1, CallsOfRequest
  <2>6. CallsAgree'
    <3> SUFFICES ASSUME NEW s \in Sides, NEW t \in Sides,
                        answers'[s].calls # {}, answers'[t].calls # {}
                 PROVE  /\ ~Ambiguous(wanted', {s, t}) /\ ("cli" \in {s, t} => WithoutOptions')
                             => answers'[s].calls = answers'[t].calls
                        /\ \A call \in answers'[s].calls :
                            /\ call.drafts => app'.allowDrafts
                            /\ \A a \in DOMAIN call
                                      \cap {"limit", "graphLimit", "neighborLimit", "depth"} :
                                  call[a] \in InBounds(a)
                            /\ \A a \in DOMAIN call \cap {"snippet", "chars"} :
                                  call[a] \in Optional(InBounds(a)) \cup {<<>>}
      BY Zenon DEF CallsAgree
    <3>1. Agreed(s, t, w, answers'[s].calls, answers'[t].calls)
      BY <2>5
    <3>2. wanted' = w /\ app' = app /\ (WithoutOptions' <=> WithoutOptions)
      BY <2>1, <2>2, <2>3
    <3> QED BY <3>1, <3>2, Zenon DEF Agreed, Counts
  <2> QED BY <2>2, <2>6 DEF AgreeInv
<1> QED BY <1>1, <1>2, <1>3 DEF CallsNext

\* Whatever the bounds, options and values, the sides that do not refuse a request call the
\* service alike, with numbers within their bounds and drafts where they are allowed (CallsAgree).
THEOREM SidesAgree == CallsSpec => []CallsAgree
<1>1. AgreeInv => CallsAgree
  BY DEF AgreeInv
<1> QED BY <1>1, AgreeInit, AgreeStep, PTL DEF CallsSpec
=============================================================================
