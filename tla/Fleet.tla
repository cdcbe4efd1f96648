-------------------------------- MODULE Fleet --------------------------------
(***************************************************************************)
(* AgentForge (core/forge.ts) and SystemSentinel (core/sentinel.ts) over   *)
(* the registry, its write-through rows, the agent files and the statuses  *)
(* the executor sets.  A restart loads the rows and syncs the files; what  *)
(* the forge and the sentinel remember is in memory only.                  *)
(***************************************************************************)
EXTENDS Naturals, FiniteSets

CONSTANTS
    Crew,            \* agent ids
    Monitors,        \* those of the tier with the capability system_monitor
    MaxAgents        \* of the other tier

VARIABLES
    registered,      \* id -> status in the registry, or absent
    agentRow,        \* id -> status in the table agents, or absent
    agentFiles,      \* ids whose file exists
    ephemeral,       \* ephemeralAgents of the forge
    paused,          \* of the sentinel
    working,         \* ids an execution is running on
    spawned,         \* history: spawned by this process
    restarted

fleetVars == <<registered, agentRow, agentFiles, ephemeral, paused, working, spawned, restarted>>

Statuses == {"absent", "idle", "busy", "error", "offline"}
Crewed == {i \in Crew : registered[i] # "absent"}

FleetTypeOK ==
    /\ registered \in [Crew -> Statuses] /\ agentRow \in [Crew -> Statuses]
    /\ agentFiles \subseteq Crew /\ ephemeral \subseteq Crew /\ working \subseteq Crew /\ spawned \subseteq Crew
    /\ paused \in BOOLEAN /\ restarted \in BOOLEAN

FleetInit ==
    /\ agentFiles \in SUBSET Crew /\ Cardinality(agentFiles \ Monitors) <= MaxAgents
    /\ registered = [i \in Crew |-> IF i \in agentFiles THEN "idle" ELSE "absent"]
    /\ agentRow = registered
    /\ ephemeral = {} /\ paused = FALSE /\ working = {} /\ spawned = {} /\ restarted = FALSE

-----------------------------------------------------------------------------

SetsInMemory(S, status) ==                             \* seeded fault: no write-through
    /\ registered' = [i \in Crew |-> IF i \in S THEN status ELSE registered[i]]
    /\ UNCHANGED agentRow
\* The registry writes through: updateStatus(), register(), unregister().
Sets(S, status) ==
    /\ registered' = [i \in Crew |-> IF i \in S THEN status ELSE registered[i]]
    /\ agentRow' = [i \in Crew |-> IF i \in S THEN status ELSE agentRow[i]]

TierHasRoom == Cardinality(Crewed \ Monitors) < MaxAgents

\* The file, the registration and its row, then the note that it is ephemeral.
SpawnAgent(i, brief) ==
    /\ registered[i] = "absent" /\ i \notin Monitors /\ TierHasRoom
    /\ agentFiles' = agentFiles \cup {i} /\ Sets({i}, "idle")
    /\ ephemeral' = IF brief THEN ephemeral \cup {i} ELSE ephemeral
    /\ spawned' = spawned \cup {i}
    /\ UNCHANGED <<paused, working, restarted>>

RetireAgent(i, deleteFile) ==
    /\ registered[i] # "absent" /\ i \notin Monitors
    /\ Sets({i}, "absent")
    /\ agentFiles' = IF deleteFile THEN agentFiles \ {i} ELSE agentFiles
    /\ ephemeral' = ephemeral \ {i} /\ spawned' = spawned \ {i}
    /\ UNCHANGED <<paused, working, restarted>>

RetireEphemeralAgents ==
    LET gone == {i \in ephemeral : registered[i] # "absent"} IN
    /\ gone # {}
    /\ Sets(gone, "absent") /\ agentFiles' = agentFiles \ gone
    /\ ephemeral' = ephemeral \ gone /\ spawned' = spawned \ gone
    /\ UNCHANGED <<paused, working, restarted>>

\* executeInternal() finds its agent whatever its status, and marks it busy.
StartsWork(i) ==
    /\ registered[i] # "absent" /\ i \notin working
    /\ Sets({i}, "busy") /\ working' = working \cup {i}
    /\ UNCHANGED <<agentFiles, ephemeral, paused, spawned, restarted>>

\* releaseAgent(): idle, if it is still there.
EndsWork(i) ==
    /\ i \in working /\ working' = working \ {i}
    /\ IF registered[i] = "absent" THEN UNCHANGED <<registered, agentRow>> ELSE Sets({i}, "idle")
    /\ UNCHANGED <<agentFiles, ephemeral, paused, spawned, restarted>>

ForceKillAgent(i) ==
    /\ registered[i] # "absent" /\ Sets({i}, "error")
    /\ UNCHANGED <<agentFiles, ephemeral, paused, working, spawned, restarted>>

PauseAll ==                                            \* seeded fault: the sentinel as well
    /\ ~paused /\ paused' = TRUE
    /\ Sets(Crewed, "offline")
    /\ UNCHANGED <<agentFiles, ephemeral, working, spawned, restarted>>
PauseSwarm ==
    /\ ~paused /\ paused' = TRUE
    /\ Sets(Crewed \ Monitors, "offline")
    /\ UNCHANGED <<agentFiles, ephemeral, working, spawned, restarted>>

ResumeSwarm ==
    /\ paused /\ paused' = FALSE
    /\ Sets({i \in Crew : registered[i] = "offline"}, "idle")
    /\ UNCHANGED <<agentFiles, ephemeral, working, spawned, restarted>>

\* The process ends, perhaps after spawnAgent() wrote a file, and starts again.
RestartsFleet ==
    \E written \in {{}} \cup {{i} : i \in Crew \ Monitors} :
        /\ agentFiles' = agentFiles \cup written
        /\ registered' = [i \in Crew |-> IF i \notin agentFiles' THEN "absent"
                                         ELSE IF agentRow[i] = "absent" THEN "idle" ELSE agentRow[i]]
        /\ agentRow' = registered'
        /\ ephemeral' = {} /\ paused' = FALSE /\ working' = {} /\ spawned' = {} /\ restarted' = TRUE

FleetNext ==
    \/ PauseSwarm \/ ResumeSwarm \/ RetireEphemeralAgents \/ RestartsFleet
    \/ \E i \in Crew :
         \/ StartsWork(i) \/ EndsWork(i) \/ ForceKillAgent(i)
         \/ \E b \in BOOLEAN : SpawnAgent(i, b) \/ RetireAgent(i, b)

-----------------------------------------------------------------------------
(* Properties *)

\* Rows, files and registry agree in whatever order agents are spawned, retired,
\* killed, paused and released by executions that outlive them: a restart brings back
\* exactly what was registered, and what was retired without its file.
FleetAgrees ==
    /\ agentRow = registered /\ Crewed \subseteq agentFiles
    /\ ephemeral \subseteq spawned /\ spawned \subseteq Crewed

\* The forge alone keeps its tier within maxAgents, pausing spares the monitors, and
\* as long as the process lives whoever is offline will be resumed.
FleetBounded ==
    ~restarted =>
        /\ Cardinality(Crewed \ Monitors) <= MaxAgents
        /\ \A i \in Crew : registered[i] = "offline" => paused /\ i \notin Monitors

\* An agent that is offline can be resumed.
OfflineIsPaused == \A i \in Crew : registered[i] = "offline" => paused
=============================================================================
