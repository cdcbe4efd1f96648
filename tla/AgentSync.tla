------------------------------ MODULE AgentSync ------------------------------
(***************************************************************************)
(* The agents between disk, store and memory: smartSyncAgents() of         *)
(* core/runtime.ts over the registry of core/registry.ts and the agents    *)
(* table.  A file is its modification time, and its content is the version *)
(* of that time, with a capability of its own.                             *)
(***************************************************************************)
EXTENDS Naturals, FiniteSets

CONSTANTS
    Files, Ids,
    IdOf,          \* the agent id a file declares
    Missing,
    MaxTime        \* bound: writes of files

VARIABLES
    clock,         \* of the last write: modification times grow
    disk,          \* path -> mtime, or Missing
    registered,    \* agents: id -> its file and version
    index,         \* capabilityIndex, and likewise sections and tiers
    table,         \* the agents table, with the mtime of the last sync
    sync, diskFiles, storedByPath, todo, \* a running smartSyncAgents()
    file, parsed,                      \* the file it is at, and what it read
    dirty,         \* history: ids whose files changed since the last sync began,
    displaced      \* and ids whose file had been moved by then

syncVars == <<clock, disk, registered, index, table, sync, diskFiles, storedByPath, todo, file, parsed, dirty, displaced>>

Times == 1..MaxTime
Steps == {"down", "loading", "files", "reading", "saving", "done"}
NoSync == [f \in Files |-> Missing]

SyncTypeOK ==
    /\ clock \in Times
    /\ disk \in [Files -> Times \cup {Missing}]
    /\ registered \in [Ids -> [file : Files, ver : Times] \cup {Missing}]
    /\ index \subseteq Times \X Ids
    /\ table \in [Ids -> [file : Files, ver : Times, mtime : 0..MaxTime] \cup {Missing}]
    /\ sync \in Steps /\ diskFiles \in [Files -> Times \cup {Missing}]
    /\ storedByPath \in [Files -> 0..MaxTime \cup {Missing}]
    /\ todo \subseteq Files /\ file \in Files \cup {Missing} /\ parsed \in 0..MaxTime /\ dirty \subseteq Ids /\ displaced \subseteq Ids

SyncInit ==
    /\ clock = 1
    /\ disk \in [Files -> {1, Missing}]
    /\ \A f, g \in Files : disk[f] # Missing /\ disk[g] # Missing /\ IdOf[f] = IdOf[g] => f = g
    /\ registered = [i \in Ids |-> Missing] /\ index = {} /\ table = [i \in Ids |-> Missing]
    /\ sync = "down" /\ diskFiles = NoSync /\ storedByPath = NoSync
    /\ todo = {} /\ file = Missing /\ parsed = 0 /\ dirty = {} /\ displaced = {}

-----------------------------------------------------------------------------
(* The registry *)

Forgotten(i) == {e \in index : e[2] = i /\ registered[i] # Missing /\ e[1] = registered[i].ver}
\* unregister(): the store is told only of an agent that was there.
Unregister(S) ==
    /\ registered' = [i \in Ids |-> IF i \in S THEN Missing ELSE registered[i]]
    /\ index' = index \ UNION {Forgotten(i) : i \in S}
    /\ table' = [i \in Ids |-> IF i \in S /\ registered[i] # Missing THEN Missing ELSE table[i]]

\* register(): saveAgent() replaces the row, and with it the stored mtime.
Register(i, f, ver) ==
    /\ registered' = [registered EXCEPT ![i] = [file |-> f, ver |-> ver]]
    /\ index' = index \cup {<<ver, i>>}
    /\ table' = [table EXCEPT ![i] = [file |-> f, ver |-> ver, mtime |-> 0]]

-----------------------------------------------------------------------------
(* smartSyncAgents() *)

\* loadFromStore() clears the registry and awaits.
SyncStart ==
    /\ sync \in {"down", "done"}
    /\ sync' = "loading" /\ dirty' = {} /\ displaced' = {}
    /\ registered' = [i \in Ids |-> Missing] /\ index' = {}
    /\ UNCHANGED <<clock, disk, table, diskFiles, storedByPath, todo, file, parsed>>

\* getAllAgentFileMtimes()
StoredMtime(f) ==
    IF table[IdOf[f]] # Missing /\ table[IdOf[f]].file = f THEN table[IdOf[f]].mtime ELSE Missing

\* The rows are indexed; then the files and the rows are listed at once.
Loaded ==
    /\ sync = "loading" /\ sync' = "files"
    /\ registered' = [i \in Ids |-> IF table[i] = Missing THEN Missing
                                    ELSE [file |-> table[i].file, ver |-> table[i].ver]]
    /\ index' = {<<table[i].ver, i>> : i \in {j \in Ids : table[j] # Missing}}
    /\ diskFiles' = disk
    /\ storedByPath' = [f \in Files |-> StoredMtime(f)]
    /\ todo' = {f \in Files : disk[f] # Missing /\ disk[f] # StoredMtime(f)}
    /\ displaced' = {IdOf[f] : f \in {g \in Files : disk[g] # Missing /\ table[IdOf[g]] # Missing
                                                      /\ table[IdOf[g]].file # g}}
    /\ UNCHANGED <<clock, disk, table, file, parsed, dirty>>

\* A changed file: its old agent is unregistered before the file is read.
Reparse(f) ==
    /\ sync = "files" /\ f \in todo
    /\ sync' = "reading" /\ file' = f /\ todo' = todo \ {f}
    /\ Unregister(IF storedByPath[f] = Missing THEN {} ELSE {IdOf[f]})
    /\ UNCHANGED <<clock, disk, diskFiles, storedByPath, parsed, dirty, displaced>>

\* registerAgentFromFile(): the file may be gone by now, and register() throws
\* for an id that is registered; the sync goes on with the next file.
RegisterFile ==
    /\ sync = "reading"
    /\ IF disk[file] = Missing \/ registered[IdOf[file]] # Missing
       THEN /\ sync' = "files"
            /\ UNCHANGED <<registered, index, table, parsed>>
       ELSE /\ Register(IdOf[file], file, disk[file])
            /\ parsed' = disk[file] /\ sync' = "saving"
    /\ UNCHANGED <<clock, disk, diskFiles, storedByPath, todo, file, dirty, displaced>>

MtimeNow(f) == IF disk[f] = Missing THEN 0 ELSE disk[f]   \* seeded fault: asked after the read
MtimeSeen(f) == diskFiles[f]

\* saveAgentWithMtime(), after the agent was indexed for retrieval.
SaveWithMtime ==
    /\ sync = "saving" /\ sync' = "files"
    /\ table' = [table EXCEPT ![IdOf[file]] = [file |-> file, ver |-> parsed, mtime |-> MtimeSeen(file)]]
    /\ UNCHANGED <<clock, disk, registered, index, diskFiles, storedByPath, todo, file, parsed, dirty, displaced>>

\* Agents of files that were gone at the start are removed last.
RemoveGone ==
    /\ sync = "files" /\ todo = {}
    /\ LET gone == {IdOf[f] : f \in {g \in Files : storedByPath[g] # Missing /\ diskFiles[g] = Missing}} IN
         /\ registered' = [i \in Ids |-> IF i \in gone THEN Missing ELSE registered[i]]
         /\ index' = index \ UNION {Forgotten(i) : i \in gone}
         /\ table' = [i \in Ids |-> IF i \in gone THEN Missing ELSE table[i]]
    /\ sync' = "done" /\ diskFiles' = NoSync /\ storedByPath' = NoSync /\ file' = Missing /\ parsed' = 0
    /\ UNCHANGED <<clock, disk, todo, dirty, displaced>>

Crash ==
    /\ sync # "down" /\ sync' = "down"
    /\ registered' = [i \in Ids |-> Missing] /\ index' = {}
    /\ diskFiles' = NoSync /\ storedByPath' = NoSync /\ todo' = {} /\ file' = Missing /\ parsed' = 0
    /\ UNCHANGED <<clock, disk, table, dirty, displaced>>

-----------------------------------------------------------------------------
(* The files *)

OnlyDisk(i) ==
    /\ dirty' = dirty \cup {i}
    /\ UNCHANGED <<registered, index, table, sync, diskFiles, storedByPath, todo, file, parsed, displaced>>

\* A file is written, but no two of one id.
WriteFile(f) ==
    /\ clock < MaxTime
    /\ \A g \in Files \ {f} : IdOf[g] = IdOf[f] => disk[g] = Missing
    /\ clock' = clock + 1 /\ disk' = [disk EXCEPT ![f] = clock + 1]
    /\ OnlyDisk(IdOf[f])

DeleteFile(f) ==
    /\ disk[f] # Missing /\ disk' = [disk EXCEPT ![f] = Missing]
    /\ OnlyDisk(IdOf[f]) /\ UNCHANGED clock

\* A file is moved with its modification time.
MoveFile(f, g) ==
    /\ disk[f] # Missing /\ disk[g] = Missing /\ IdOf[f] = IdOf[g]
    /\ disk' = [disk EXCEPT ![g] = disk[f], ![f] = Missing]
    /\ OnlyDisk(IdOf[f]) /\ UNCHANGED clock

SyncNext ==
    \/ SyncStart \/ Loaded \/ RegisterFile \/ SaveWithMtime \/ RemoveGone \/ Crash
    \/ \E f \in Files : Reparse(f) \/ WriteFile(f) \/ DeleteFile(f)
    \/ \E f, g \in Files : MoveFile(f, g)

SyncSpec == SyncInit /\ [][SyncNext]_syncVars
-----------------------------------------------------------------------------
(* Properties *)

\* The capability index finds exactly the registered agents.
IndexAgrees == index = {<<registered[i].ver, i>> : i \in {j \in Ids : registered[j] # Missing}}

Settled(f) ==
    IF disk[f] # Missing
    THEN /\ registered[IdOf[f]] = [file |-> f, ver |-> disk[f]]
         /\ table[IdOf[f]] # Missing /\ table[IdOf[f]].ver = disk[f]
    ELSE \A r \in {registered[IdOf[f]], table[IdOf[f]]} : r = Missing \/ r.file # f

\* A sync leaves exactly the agents of the files on disk in memory and in the
\* store, in their last version, whatever crashes and changes during earlier syncs
\* left behind; except those of files that changed meanwhile or were moved.
SyncComplete == sync = "done" => \A f \in Files : IdOf[f] \notin dirty \cup displaced => Settled(f)

\* The same for a file that was moved: a sync "removes agents whose files no
\* longer exist on disk" (runtime.ts:802).
SyncKeepsMoved == sync = "done" => \A f \in Files : disk[f] # Missing /\ IdOf[f] \notin dirty => Settled(f)
=============================================================================
