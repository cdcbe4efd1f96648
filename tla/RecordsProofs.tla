---------------------------- MODULE RecordsProofs ----------------------------
(***************************************************************************)
(* Proofs about the components of ServicesRecords.tla for any files, ids,  *)
(* entries, lines, requests and tasks: what a sync leaves in memory and in *)
(* the table, that sessions, logs and requests are accounted for; and for  *)
(* any messages, events, graphs and tiers, that what loops is found or     *)
(* ends.                                                                   *)
(***************************************************************************)
EXTENDS ServicesRecords, FiniteSetTheorems, SequenceTheorems, TLAPS

-----------------------------------------------------------------------------
(* The sync of the agent files *)

Syncing == sync \in {"files", "reading", "saving"}
OnDisk(f) == disk[f] # Missing

\* One file per id is on disk, its times only grow, and a row knows no time that is later
\* than the version it holds: equal times are equal contents.
TimesGrow ==
    /\ \A f, g \in Files : OnDisk(f) /\ OnDisk(g) /\ IdOf[f] = IdOf[g] => f = g
    /\ \A f \in Files : OnDisk(f) => disk[f] <= clock
    /\ \A i \in Ids : table[i] # Missing =>
         /\ IdOf[table[i].file] = i /\ table[i].mtime <= table[i].ver /\ table[i].ver <= clock
         /\ \A f \in Files : OnDisk(f) /\ IdOf[f] = i => table[i].ver <= disk[f]
    /\ \A f \in Files : diskFiles[f] # Missing =>
         /\ diskFiles[f] <= clock
         /\ \A g \in Files : OnDisk(g) /\ IdOf[g] = IdOf[f] => diskFiles[f] <= disk[g]

\* A running sync is at a file it has taken from its list, and has read it.
AtFile ==
    /\ Syncing => \A f \in todo : diskFiles[f] # Missing
    /\ sync \in {"reading", "saving"} => file \in Files \ todo /\ diskFiles[file] # Missing
    /\ sync = "saving" => /\ parsed \in 1..LastWrite /\ diskFiles[file] <= parsed /\ parsed <= clock
                          /\ \A f \in Files : OnDisk(f) /\ IdOf[f] = IdOf[file] => parsed <= disk[f]

\* An id none of whose files changed or was moved.
Clean(i) == i \notin dirty \cup displaced

\* How far the sync is with a clean id, whose file is f,
Current(f) == sync \in {"reading", "saving"} /\ file = f
FileSynced(f) ==
    LET i == IdOf[f] IN
    /\ \A g \in Files \ {f} : IdOf[g] = i => storedByPath[g] = Missing
    /\ f \in todo => IF storedByPath[f] = Missing THEN registered[i] = Missing ELSE TRUE
    /\ f \notin todo =>
         IF Current(f)
         THEN IF sync = "reading" THEN registered[i] = Missing
              ELSE /\ parsed = disk[f] /\ registered[i] = [file |-> f, ver |-> disk[f]]
                   /\ table[i] # Missing /\ table[i].ver = disk[f]
         ELSE Sync!Settled(f)
\* or which has no file.
GoneSynced(i) ==
    /\ (registered[i] = Missing) <=> (table[i] = Missing)
    /\ table[i] # Missing => storedByPath[table[i].file] # Missing

\* The table has a row of every registered agent, of the same file.
RowsBehind ==
    /\ \A i \in Ids : registered[i] # Missing => table[i] # Missing /\ table[i].file = registered[i].file
    /\ sync = "saving" => registered[IdOf[file]] # Missing /\ registered[IdOf[file]].file = file

SyncInv ==
    /\ Sync!SyncTypeOK /\ TimesGrow /\ AtFile /\ Sync!IndexAgrees /\ RowsBehind
    /\ Syncing => \A f \in Files : Clean(IdOf[f]) => disk[f] = diskFiles[f]
    /\ Syncing => \A f \in Files : Clean(IdOf[f]) /\ OnDisk(f) => FileSynced(f)
    /\ Syncing => \A i \in Ids : Clean(i) /\ (\A f \in Files : IdOf[f] = i => ~OnDisk(f)) => GoneSynced(i)
    /\ Sync!SyncComplete

\* What the assumptions and types say of one file or id.
LEMMA FileFacts ==
    /\ LastWrite \in Nat /\ LastWrite > 0 /\ Missing \notin Files /\ \A f \in Files : IdOf[f] \in Ids
    /\ \A t \in 0..LastWrite : Missing # t
    /\ \A f \in Files, v \in 1..LastWrite : /\ Missing # [file |-> f, ver |-> v]
                                            /\ \A m \in 0..LastWrite : Missing # [file |-> f, ver |-> v, mtime |-> m]
  BY RecordsAssumption

LEMMA SyncTypes ==
    ASSUME Sync!SyncTypeOK
    PROVE  /\ clock \in Nat /\ clock > 0 /\ clock <= LastWrite
           /\ disk \in [Files -> 1..LastWrite \cup {Missing}] /\ diskFiles \in [Files -> 1..LastWrite \cup {Missing}]
           /\ storedByPath \in [Files -> 0..LastWrite \cup {Missing}] /\ todo \subseteq Files
           /\ registered \in [Ids -> [file : Files, ver : 1..LastWrite] \cup {Missing}]
           /\ table \in [Ids -> [file : Files, ver : 1..LastWrite, mtime : 0..LastWrite] \cup {Missing}]
           /\ \A f \in Files : IdOf[f] \in Ids
           /\ \A f \in Files : disk[f] # Missing => disk[f] \in 1..LastWrite
           /\ \A f \in Files : diskFiles[f] # Missing => diskFiles[f] \in 1..LastWrite
           /\ \A i \in Ids : registered[i] # Missing => registered[i].file \in Files /\ registered[i].ver \in 1..LastWrite
           /\ \A i \in Ids : table[i] # Missing =>
                table[i].file \in Files /\ table[i].ver \in 1..LastWrite /\ table[i].mtime \in 0..LastWrite
  BY FileFacts DEF Sync!SyncTypeOK, Sync!Times

LEMMA SyncInitInv == Sync!SyncInit => SyncInv
<1> SUFFICES ASSUME Sync!SyncInit PROVE SyncInv
  OBVIOUS
<1>1. Sync!SyncTypeOK
  BY FileFacts DEF Sync!SyncInit, Sync!SyncTypeOK, Sync!Times, Sync!Steps, Sync!NoSync
<1>2. TimesGrow
  BY <1>1, SyncTypes DEF Sync!SyncInit, TimesGrow, OnDisk, Sync!NoSync
<1> QED BY <1>1, <1>2 DEF Sync!SyncInit, SyncInv, AtFile, Syncing, Sync!IndexAgrees, RowsBehind, Sync!SyncComplete

\* A change on disk makes the id of its files dirty, and nothing else changes.
Moved(i) ==
    /\ Sync!OnlyDisk(i) /\ i \in Ids /\ clock <= clock' /\ clock' <= LastWrite /\ clock' \in Nat
    /\ disk' \in [Files -> 1..LastWrite \cup {Missing}]
    /\ \A f \in Files : IdOf[f] # i => disk'[f] = disk[f]
    /\ \A f \in Files : disk'[f] # Missing /\ IdOf[f] = i =>
         \/ disk'[f] = clock' /\ clock' > clock
         \/ \E g \in Files : OnDisk(g) /\ IdOf[g] = i /\ disk'[f] = disk[g]
    /\ \A f, g \in Files : disk'[f] # Missing /\ disk'[g] # Missing /\ IdOf[f] = i /\ IdOf[g] = i => f = g

LEMMA DiskMoves ==
    ASSUME Sync!SyncTypeOK, TimesGrow,
           \/ \E f \in Files : Sync!WriteFile(f) \/ Sync!DeleteFile(f)
           \/ \E f, g \in Files : Sync!MoveFile(f, g)
    PROVE  \E i \in Ids : Moved(i)
<1>1. ASSUME NEW f \in Files, Sync!WriteFile(f) PROVE Moved(IdOf[f])
  <2>1. clock + 1 \in 1..LastWrite
    BY <1>1, SyncTypes, FileFacts DEF Sync!WriteFile
  <2>2. \A g \in Files : IdOf[g] = IdOf[f] => disk'[g] = IF g = f THEN clock + 1 ELSE Missing
    BY <1>1, SyncTypes DEF Sync!WriteFile
  <2> QED BY <1>1, <2>1, <2>2, SyncTypes, FileFacts DEF Sync!WriteFile, Moved, OnDisk
<1>2. ASSUME NEW f \in Files, Sync!DeleteFile(f) PROVE Moved(IdOf[f])
  <2>1. \A g \in Files : disk'[g] = IF g = f THEN Missing ELSE disk[g]
    BY <1>2, SyncTypes DEF Sync!DeleteFile
  <2> QED BY <1>2, <2>1, SyncTypes, FileFacts DEF Sync!DeleteFile, Moved, OnDisk, TimesGrow
<1>3. ASSUME NEW f \in Files, NEW g \in Files, Sync!MoveFile(f, g) PROVE Moved(IdOf[f])
  <2>1. f # g /\ IdOf[g] = IdOf[f] /\ OnDisk(f)
    BY <1>3 DEF Sync!MoveFile, OnDisk
  <2>2. \A h \in Files : disk'[h] = IF h = f THEN Missing ELSE IF h = g THEN disk[f] ELSE disk[h]
    BY <1>3, <2>1, SyncTypes DEF Sync!MoveFile
  <2>3. \A h \in Files : IdOf[h] = IdOf[f] => disk'[h] = IF h = g THEN disk[f] ELSE Missing
    BY <2>1, <2>2 DEF TimesGrow, OnDisk
  <2>4. disk' \in [Files -> 1..LastWrite \cup {Missing}]
    BY <1>3, SyncTypes DEF Sync!MoveFile
  <2> QED BY <1>3, <2>1, <2>2, <2>3, <2>4, SyncTypes, FileFacts DEF Sync!MoveFile, Moved, OnDisk
<1> QED BY <1>1, <1>2, <1>3, FileFacts

LEMMA SyncTypeStep == ASSUME SyncInv, Sync!SyncNext PROVE Sync!SyncTypeOK'
<1> USE FileFacts DEF SyncInv, Sync!SyncTypeOK, Sync!Times, Sync!Steps, Sync!NoSync
<1>1. CASE Sync!SyncStart
  BY <1>1 DEF Sync!SyncStart
<1>2. CASE Sync!Loaded
  <2>1. \A f \in Files : Sync!StoredMtime(f) \in 0..LastWrite \cup {Missing}
    BY DEF Sync!StoredMtime
  <2> QED BY <1>2, <2>1, SyncTypes DEF Sync!Loaded
<1>3. CASE Sync!RegisterFile
  BY <1>3, SyncTypes DEF Sync!RegisterFile, Sync!Register, AtFile
<1>4. CASE Sync!SaveWithMtime
  BY <1>4, SyncTypes DEF Sync!SaveWithMtime, Sync!MtimeSeen, AtFile
<1>5. CASE Sync!RemoveGone
  BY <1>5, SyncTypes DEF Sync!RemoveGone, Sync!Forgotten
<1>6. CASE Sync!Crash
  BY <1>6 DEF Sync!Crash
<1>7. ASSUME NEW f \in Files, Sync!Reparse(f) PROVE Sync!SyncTypeOK'
  BY <1>7, SyncTypes DEF Sync!Reparse, Sync!Unregister, Sync!Forgotten
<1>8. ASSUME NEW i \in Ids, Moved(i) PROVE Sync!SyncTypeOK'
  BY <1>8, SyncTypes DEF Moved, Sync!OnlyDisk
<1> QED BY <1>1, <1>2, <1>3, <1>4, <1>5, <1>6, <1>7, <1>8, DiskMoves DEF Sync!SyncNext

\* Rows that stay, or go, and listed files that stay, or go, keep the times in order.
LEMMA TimesStay ==
    ASSUME SyncInv, UNCHANGED <<clock, disk>>,
           \A i \in Ids : table'[i] = table[i] \/ table'[i] = Missing,
           \A f \in Files : diskFiles'[f] = diskFiles[f] \/ diskFiles'[f] = Missing
    PROVE  TimesGrow'
  BY SyncTypes DEF SyncInv, TimesGrow, OnDisk

LEMMA TimesStep == ASSUME SyncInv, Sync!SyncNext PROVE TimesGrow'
<1> USE DEF SyncInv
<1>1. CASE Sync!SyncStart
  BY <1>1, TimesStay DEF Sync!SyncStart
<1>2. CASE Sync!Loaded
  BY <1>2, SyncTypes DEF Sync!Loaded, TimesGrow, OnDisk
<1>3. CASE Sync!RegisterFile
  <2>1. CASE UNCHANGED table
    BY <1>3, <2>1, TimesStay DEF Sync!RegisterFile
  <2>2. CASE OnDisk(file) /\ Sync!Register(IdOf[file], file, disk[file])
    <3>1. file \in Files /\ IdOf[file] \in Ids
      BY <1>3, FileFacts DEF Sync!RegisterFile, AtFile
    <3>2. table' = [table EXCEPT ![IdOf[file]] = [file |-> file, ver |-> disk[file], mtime |-> 0]]
      BY <2>2 DEF Sync!Register
    <3>3. \A i \in Ids : i # IdOf[file] => table'[i] = table[i]
      BY <3>2, SyncTypes
    <3>4. table'[IdOf[file]] = [file |-> file, ver |-> disk[file], mtime |-> 0]
      BY <3>1, <3>2, SyncTypes
    <3>5. \A f \in Files : OnDisk(f) /\ IdOf[f] = IdOf[file] => f = file
      BY <2>2, <3>1 DEF TimesGrow
    <3>6. disk[file] \in 1..LastWrite /\ disk[file] <= clock
      BY <2>2, <3>1, SyncTypes DEF TimesGrow, OnDisk
    <3> QED BY <1>3, <3>1, <3>3, <3>4, <3>5, <3>6 DEF Sync!RegisterFile, TimesGrow, OnDisk
  <2> QED BY <1>3, <2>1, <2>2 DEF Sync!RegisterFile, OnDisk
<1>4. CASE Sync!SaveWithMtime
  <2>1. /\ file \in Files /\ IdOf[file] \in Ids /\ diskFiles[file] # Missing /\ diskFiles[file] \in 1..LastWrite
        /\ parsed \in 1..LastWrite /\ diskFiles[file] <= parsed /\ parsed <= clock
        /\ \A f \in Files : OnDisk(f) /\ IdOf[f] = IdOf[file] => parsed <= disk[f]
    BY <1>4, FileFacts, SyncTypes DEF Sync!SaveWithMtime, AtFile, Syncing
  <2>2. /\ \A i \in Ids : i # IdOf[file] => table'[i] = table[i]
        /\ table'[IdOf[file]] = [file |-> file, ver |-> parsed, mtime |-> diskFiles[file]]
    BY <1>4, <2>1, SyncTypes DEF Sync!SaveWithMtime, Sync!MtimeSeen
  <2> QED BY <1>4, <2>1, <2>2 DEF Sync!SaveWithMtime, TimesGrow, OnDisk
<1>5. CASE Sync!RemoveGone
  BY <1>5, TimesStay DEF Sync!RemoveGone, Sync!NoSync
<1>6. CASE Sync!Crash
  BY <1>6, TimesStay DEF Sync!Crash, Sync!NoSync
<1>7. ASSUME NEW f \in Files, Sync!Reparse(f) PROVE TimesGrow'
  BY <1>7, TimesStay DEF Sync!Reparse, Sync!Unregister
<1>8. ASSUME NEW i \in Ids, Moved(i) PROVE TimesGrow'
  <2>1. /\ clock <= clock' /\ clock' \in Nat /\ UNCHANGED <<table, diskFiles>>
        /\ \A f \in Files : IdOf[f] # i => disk'[f] = disk[f]
    BY <1>8 DEF Moved, Sync!OnlyDisk
  <2>2. \A f \in Files : disk'[f] # Missing => disk'[f] <= clock'
    BY <1>8, <2>1, SyncTypes DEF Moved, TimesGrow, OnDisk
  <2>3. \A f, g \in Files : disk'[f] # Missing /\ disk'[g] # Missing /\ IdOf[f] = IdOf[g] => f = g
    BY <1>8, <2>1 DEF Moved, TimesGrow, OnDisk
  <2>4. \A f \in Files : disk'[f] # Missing /\ IdOf[f] = i =>
          \/ disk'[f] = clock' /\ clock' > clock
          \/ \E g \in Files : OnDisk(g) /\ IdOf[g] = i /\ disk'[f] = disk[g]
    BY <1>8 DEF Moved
  <2>5. ASSUME NEW j \in Ids, table[j] # Missing PROVE
          /\ IdOf[table[j].file] = j /\ table[j].mtime <= table[j].ver /\ table[j].ver <= clock'
          /\ \A f \in Files : disk'[f] # Missing /\ IdOf[f] = j => table[j].ver <= disk'[f]
    BY <2>1, <2>4, <2>5, SyncTypes DEF TimesGrow, OnDisk
  <2>6. ASSUME NEW f \in Files, diskFiles[f] # Missing PROVE
          /\ diskFiles[f] <= clock'
          /\ \A g \in Files : disk'[g] # Missing /\ IdOf[g] = IdOf[f] => diskFiles[f] <= disk'[g]
    BY <2>1, <2>4, <2>6, SyncTypes DEF TimesGrow, OnDisk
  <2> QED BY <2>1, <2>2, <2>3, <2>5, <2>6 DEF TimesGrow, OnDisk
<1> QED BY <1>1, <1>2, <1>3, <1>4, <1>5, <1>6, <1>7, <1>8, DiskMoves DEF Sync!SyncNext

LEMMA AtFileStep == ASSUME SyncInv, Sync!SyncNext PROVE AtFile'
<1> USE DEF SyncInv, AtFile, Syncing
<1>1. CASE Sync!SyncStart
  BY <1>1 DEF Sync!SyncStart
<1>2. CASE Sync!Loaded
  BY <1>2, SyncTypes DEF Sync!Loaded
<1>3. CASE Sync!RegisterFile
  BY <1>3, SyncTypes DEF Sync!RegisterFile, Sync!Register, TimesGrow, OnDisk
<1>4. CASE Sync!SaveWithMtime
  BY <1>4 DEF Sync!SaveWithMtime
<1>5. CASE Sync!RemoveGone \/ Sync!Crash
  BY <1>5 DEF Sync!RemoveGone, Sync!Crash
<1>6. ASSUME NEW f \in Files, Sync!Reparse(f) PROVE AtFile'
  BY <1>6, SyncTypes DEF Sync!Reparse
<1>7. ASSUME NEW i \in Ids, Moved(i) PROVE AtFile'
  <2>1. /\ UNCHANGED <<sync, todo, diskFiles, file, parsed>> /\ clock <= clock' /\ clock' \in Nat
        /\ \A f \in Files : IdOf[f] # i => disk'[f] = disk[f]
    BY <1>7 DEF Moved, Sync!OnlyDisk
  <2>2. \A f \in Files : disk'[f] # Missing /\ IdOf[f] = i =>
          \/ disk'[f] = clock' /\ clock' > clock
          \/ \E g \in Files : OnDisk(g) /\ IdOf[g] = i /\ disk'[f] = disk[g]
    BY <1>7 DEF Moved
  <2> QED BY <2>1, <2>2, SyncTypes DEF OnDisk
<1> QED BY <1>1, <1>2, <1>3, <1>4, <1>5, <1>6, <1>7, DiskMoves DEF Sync!SyncNext

LEMMA IndexStep == ASSUME SyncInv, Sync!SyncNext PROVE Sync!IndexAgrees'
<1> USE DEF SyncInv, Sync!IndexAgrees
<1>1. CASE Sync!SyncStart \/ Sync!Crash
  BY <1>1 DEF Sync!SyncStart, Sync!Crash
<1>2. CASE Sync!Loaded
  <2>1. \A i \in Ids : /\ (registered'[i] = Missing) <=> (table[i] = Missing)
                       /\ registered'[i] # Missing => registered'[i].ver = table[i].ver
    BY <1>2, FileFacts, SyncTypes DEF Sync!Loaded
  <2> QED BY <1>2, <2>1 DEF Sync!Loaded
<1>3. CASE Sync!RegisterFile
  <2>1. CASE UNCHANGED <<registered, index>>
    BY <2>1
  <2>2. CASE OnDisk(file) /\ registered[IdOf[file]] = Missing /\ Sync!Register(IdOf[file], file, disk[file])
    <3>1. IdOf[file] \in Ids /\ disk[file] \in 1..LastWrite /\ Missing # [file |-> file, ver |-> disk[file]]
      BY <1>3, <2>2, FileFacts, SyncTypes DEF Sync!RegisterFile, AtFile, OnDisk
    <3>2. \A i \in Ids : registered'[i] = IF i = IdOf[file] THEN [file |-> file, ver |-> disk[file]] ELSE registered[i]
      BY <2>2, <3>1, SyncTypes DEF Sync!Register
    <3>3. index' = index \cup {<<disk[file], IdOf[file]>>}
      BY <2>2 DEF Sync!Register
    <3> QED BY <2>2, <3>1, <3>2, <3>3
  <2> QED BY <1>3, <2>1, <2>2 DEF Sync!RegisterFile, OnDisk
<1>4. CASE Sync!SaveWithMtime
  BY <1>4 DEF Sync!SaveWithMtime
<1>5. ASSUME NEW S \in SUBSET Ids, registered' = [i \in Ids |-> IF i \in S THEN Missing ELSE registered[i]],
             index' = index \ UNION {Sync!Forgotten(i) : i \in S}
      PROVE  Sync!IndexAgrees'
  BY <1>5 DEF Sync!Forgotten
<1>6. CASE Sync!RemoveGone
  <2> DEFINE gone == {IdOf[f] : f \in {g \in Files : storedByPath[g] # Missing /\ diskFiles[g] = Missing}}
  <2>1. gone \in SUBSET Ids
    BY FileFacts
  <2>2. /\ registered' = [i \in Ids |-> IF i \in gone THEN Missing ELSE registered[i]]
        /\ index' = index \ UNION {Sync!Forgotten(i) : i \in gone}
    BY <1>6 DEF Sync!RemoveGone
  <2> HIDE DEF gone
  <2> QED BY <1>5, <2>1, <2>2
<1>7. ASSUME NEW f \in Files, Sync!Reparse(f) PROVE Sync!IndexAgrees'
  <2> DEFINE S == IF storedByPath[f] = Missing THEN {} ELSE {IdOf[f]}
  <2>1. S \in SUBSET Ids
    BY FileFacts
  <2>2. /\ registered' = [i \in Ids |-> IF i \in S THEN Missing ELSE registered[i]]
        /\ index' = index \ UNION {Sync!Forgotten(i) : i \in S}
    BY <1>7 DEF Sync!Reparse, Sync!Unregister
  <2> HIDE DEF S
  <2> QED BY <1>5, <2>1, <2>2
<1>8. ASSUME NEW i \in Ids, Moved(i) PROVE Sync!IndexAgrees'
  BY <1>8 DEF Moved, Sync!OnlyDisk
<1> QED BY <1>1, <1>2, <1>3, <1>4, <1>6, <1>7, <1>8, DiskMoves DEF Sync!SyncNext

LEMMA RowsStep == ASSUME SyncInv, Sync!SyncNext PROVE RowsBehind'
<1> USE DEF SyncInv, RowsBehind
<1>1. CASE Sync!SyncStart \/ Sync!Crash
  BY <1>1, FileFacts DEF Sync!SyncStart, Sync!Crash
<1>2. CASE Sync!Loaded
  BY <1>2, FileFacts, SyncTypes DEF Sync!Loaded
<1>3. CASE Sync!RegisterFile
  <2>1. CASE UNCHANGED <<registered, table>> /\ sync' # "saving"
    BY <2>1
  <2>2. CASE OnDisk(file) /\ Sync!Register(IdOf[file], file, disk[file])
    <3>1. file \in Files /\ IdOf[file] \in Ids /\ disk[file] \in 1..LastWrite
      BY <1>3, <2>2, FileFacts, SyncTypes DEF Sync!RegisterFile, AtFile, OnDisk
    <3>2. /\ \A i \in Ids : i # IdOf[file] => table'[i] = table[i] /\ registered'[i] = registered[i]
          /\ registered'[IdOf[file]] = [file |-> file, ver |-> disk[file]]
          /\ table'[IdOf[file]] = [file |-> file, ver |-> disk[file], mtime |-> 0]
          /\ table'[IdOf[file]] # Missing /\ registered'[IdOf[file]] # Missing
      BY <2>2, <3>1, FileFacts, SyncTypes DEF Sync!Register
    <3> QED BY <1>3, <3>1, <3>2 DEF Sync!RegisterFile
  <2> QED BY <1>3, <2>1, <2>2 DEF Sync!RegisterFile, OnDisk
<1>4. CASE Sync!SaveWithMtime
  <2>1. /\ file \in Files /\ IdOf[file] \in Ids /\ parsed \in 1..LastWrite /\ diskFiles[file] \in 1..LastWrite
    BY <1>4, FileFacts, SyncTypes DEF Sync!SaveWithMtime, AtFile, Syncing
  <2>2. /\ \A i \in Ids : i # IdOf[file] => table'[i] = table[i]
        /\ table'[IdOf[file]] = [file |-> file, ver |-> parsed, mtime |-> diskFiles[file]]
    BY <1>4, <2>1, SyncTypes DEF Sync!SaveWithMtime, Sync!MtimeSeen
  <2>3. Missing # [file |-> file, ver |-> parsed, mtime |-> diskFiles[file]]
    BY <2>1, FileFacts
  <2> QED BY <1>4, <2>1, <2>2, <2>3 DEF Sync!SaveWithMtime
<1>5. CASE Sync!RemoveGone
  BY <1>5 DEF Sync!RemoveGone
<1>6. ASSUME NEW f \in Files, Sync!Reparse(f) PROVE RowsBehind'
  BY <1>6 DEF Sync!Reparse, Sync!Unregister
<1>7. ASSUME NEW i \in Ids, Moved(i) PROVE RowsBehind'
  BY <1>7 DEF Moved, Sync!OnlyDisk
<1> QED BY <1>1, <1>2, <1>3, <1>4, <1>5, <1>6, <1>7, DiskMoves DEF Sync!SyncNext

\* The listing of a clean id's files stays true,
LEMMA ListingStep ==
    ASSUME SyncInv, Sync!SyncNext, Syncing', NEW f \in Files, Clean(IdOf[f])'
    PROVE  disk'[f] = diskFiles'[f]
<1>1. CASE Sync!Loaded
  BY <1>1 DEF Sync!Loaded
<1>2. CASE Sync!RegisterFile \/ Sync!SaveWithMtime \/ \E h \in Files : Sync!Reparse(h)
  BY <1>2 DEF Sync!RegisterFile, Sync!SaveWithMtime, Sync!Reparse, SyncInv, Syncing, Clean
<1>3. ASSUME NEW i \in Ids, Moved(i) PROVE disk'[f] = diskFiles'[f]
  <2>1. Syncing /\ Clean(IdOf[f]) /\ IdOf[f] # i
    BY <1>3 DEF Moved, Sync!OnlyDisk, Syncing, Clean
  <2> QED BY <1>3, <2>1 DEF Moved, Sync!OnlyDisk, SyncInv
<1>4. ~(Sync!SyncStart \/ Sync!RemoveGone \/ Sync!Crash)
  BY DEF Sync!SyncStart, Sync!RemoveGone, Sync!Crash, Syncing
<1> QED BY <1>1, <1>2, <1>3, <1>4, DiskMoves DEF Sync!SyncNext, SyncInv

\* and what a sync does for a file concerns no other file, and no clean id without one.
LEMMA OwnFile ==
    ASSUME SyncInv, Syncing, NEW h \in Files, diskFiles[h] # Missing, Clean(IdOf[h])
    PROVE  OnDisk(h) /\ \A f \in Files : OnDisk(f) /\ IdOf[f] = IdOf[h] => f = h
  BY DEF SyncInv, OnDisk, TimesGrow

\* What one step does to an id it is not about.
Aside(f) ==
    /\ registered'[IdOf[f]] = registered[IdOf[f]] /\ table'[IdOf[f]] = table[IdOf[f]]
    /\ disk'[f] = disk[f] /\ storedByPath' = storedByPath
    /\ (f \in todo) <=> (f \in todo')
    /\ ~Current(f) /\ ~Current(f)'

LEMMA AsideStays ==
    ASSUME NEW f \in Files, FileSynced(f), Aside(f)
    PROVE  FileSynced(f)'
  BY DEF Aside, FileSynced, Sync!Settled, Current

LEMMA FileSyncedStep ==
    ASSUME SyncInv, Sync!SyncNext, Syncing', NEW f \in Files, Clean(IdOf[f])', OnDisk(f)'
    PROVE  FileSynced(f)'
<1>0. /\ SyncInv /\ IdOf[f] \in Ids /\ f \in Files /\ disk'[f] # Missing
      /\ Syncing => diskFiles[file] # Missing \/ sync = "files"
  BY FileFacts DEF OnDisk, SyncInv, AtFile, Syncing
<1>1. CASE Sync!Loaded
  <2>1. /\ disk[f] # Missing /\ disk' = disk /\ sync' = "files" /\ todo' = {g \in Files : disk[g] # Missing /\ disk[g] # Sync!StoredMtime(g)}
        /\ storedByPath' = [g \in Files |-> Sync!StoredMtime(g)] /\ table' = table
    BY <1>0, <1>1 DEF Sync!Loaded
  <2>2. table[IdOf[f]] = Missing \/ table[IdOf[f]].file = f
    BY <1>1, <2>1 DEF Sync!Loaded, Clean
  <2>3. \A g \in Files \ {f} : IdOf[g] = IdOf[f] => storedByPath'[g] = Missing
    BY <2>1, <2>2 DEF Sync!StoredMtime
  <2>4. registered'[IdOf[f]] = IF table[IdOf[f]] = Missing THEN Missing ELSE [file |-> table[IdOf[f]].file, ver |-> table[IdOf[f]].ver]
    BY <1>0, <1>1 DEF Sync!Loaded
  <2>5. storedByPath'[f] = IF table[IdOf[f]] = Missing THEN Missing ELSE table[IdOf[f]].mtime
    BY <2>1, <2>2 DEF Sync!StoredMtime
  <2>6. table[IdOf[f]] # Missing => /\ table[IdOf[f]].mtime # Missing /\ table[IdOf[f]].mtime \in Nat /\ table[IdOf[f]].ver \in Nat
                                    /\ table[IdOf[f]].mtime <= table[IdOf[f]].ver /\ table[IdOf[f]].ver <= disk[f] /\ disk[f] \in Nat
    BY <1>0, <2>1, SyncTypes, FileFacts DEF SyncInv, TimesGrow, OnDisk
  <2>7. f \notin todo' => table[IdOf[f]] # Missing /\ table[IdOf[f]].ver = disk[f]
    BY <2>1, <2>2, <2>5, <2>6
  <2> QED BY <2>1, <2>2, <2>3, <2>4, <2>5, <2>6, <2>7 DEF FileSynced, Sync!Settled, Current
<1>2. ASSUME NEW h \in Files, Sync!Reparse(h) PROVE FileSynced(f)'
  <2>1. /\ Syncing /\ Clean(IdOf[f]) /\ OnDisk(f) /\ FileSynced(f) /\ diskFiles[h] # Missing /\ sync = "files" /\ sync' = "reading"
        /\ file' = h /\ h \in todo /\ todo' = todo \ {h} /\ UNCHANGED <<disk, storedByPath>>
    BY <1>0, <1>2 DEF Sync!Reparse, SyncInv, AtFile, Syncing, Clean, OnDisk
  <2>2. CASE IdOf[h] # IdOf[f]
    <3>1. registered'[IdOf[f]] = registered[IdOf[f]] /\ table'[IdOf[f]] = table[IdOf[f]]
      BY <1>0, <1>2, <2>2 DEF Sync!Reparse, Sync!Unregister
    <3> QED BY <2>1, <2>2, <3>1, AsideStays DEF Aside, Current
  <2>3. CASE IdOf[h] = IdOf[f]
    <3>1. h = f
      BY <1>0, <2>1, <2>3, OwnFile DEF Clean
    <3>2. registered'[IdOf[f]] = Missing
      BY <1>0, <1>2, <2>1, <3>1 DEF Sync!Reparse, Sync!Unregister, FileSynced
    <3> QED BY <2>1, <3>1, <3>2 DEF FileSynced, Current
  <2> QED BY <2>2, <2>3
<1>3. CASE Sync!RegisterFile
  <2>1. /\ Syncing /\ Clean(IdOf[f]) /\ OnDisk(f) /\ FileSynced(f) /\ file \in Files /\ file \notin todo /\ diskFiles[file] # Missing
        /\ sync = "reading" /\ sync' \in {"files", "saving"} /\ UNCHANGED <<disk, storedByPath, todo, file>>
    BY <1>0, <1>3 DEF Sync!RegisterFile, SyncInv, AtFile, Syncing, Clean, OnDisk
  <2>2. CASE IdOf[file] # IdOf[f]
    <3>1. registered'[IdOf[f]] = registered[IdOf[f]] /\ table'[IdOf[f]] = table[IdOf[f]]
      BY <1>0, <1>3, <2>2, SyncTypes DEF Sync!RegisterFile, Sync!Register, SyncInv
    <3> QED BY <2>1, <2>2, <3>1, AsideStays DEF Aside, Current
  <2>3. CASE IdOf[file] = IdOf[f]
    <3>1. file = f
      BY <1>0, <2>1, <2>3, OwnFile DEF Clean
    <3>2. registered[IdOf[f]] = Missing
      BY <2>1, <3>1 DEF FileSynced, Current
    <3>3. sync' = "saving" /\ parsed' = disk[f] /\ Sync!Register(IdOf[f], f, disk[f])
      BY <1>3, <2>1, <3>1, <3>2 DEF Sync!RegisterFile, OnDisk
    <3>4. disk[f] \in 1..LastWrite
      BY <1>0, <2>1, SyncTypes DEF OnDisk, SyncInv
    <3>5. /\ registered'[IdOf[f]] = [file |-> f, ver |-> disk[f]]
          /\ table'[IdOf[f]] = [file |-> f, ver |-> disk[f], mtime |-> 0]
      BY <1>0, <3>3, SyncTypes DEF Sync!Register, SyncInv
    <3>6. table'[IdOf[f]] # Missing
      BY <3>4, <3>5, FileFacts
    <3> QED BY <2>1, <3>1, <3>3, <3>5, <3>6 DEF FileSynced, Current
  <2> QED BY <2>2, <2>3
<1>4. CASE Sync!SaveWithMtime
  <2>1. /\ Syncing /\ Clean(IdOf[f]) /\ OnDisk(f) /\ FileSynced(f) /\ file \in Files /\ file \notin todo /\ diskFiles[file] # Missing
        /\ sync = "saving" /\ sync' = "files" /\ UNCHANGED <<disk, registered, storedByPath, todo, file>>
    BY <1>0, <1>4 DEF Sync!SaveWithMtime, SyncInv, AtFile, Syncing, Clean, OnDisk
  <2>2. CASE IdOf[file] # IdOf[f]
    <3>1. table'[IdOf[f]] = table[IdOf[f]]
      BY <1>0, <1>4, <2>2, SyncTypes DEF Sync!SaveWithMtime, SyncInv
    <3> QED BY <2>1, <2>2, <3>1, AsideStays DEF Aside, Current
  <2>3. CASE IdOf[file] = IdOf[f]
    <3>1. file = f
      BY <1>0, <2>1, <2>3, OwnFile DEF Clean
    <3>2. parsed = disk[f] /\ registered[IdOf[f]] = [file |-> f, ver |-> disk[f]]
      BY <2>1, <3>1 DEF FileSynced, Current
    <3>3. disk[f] \in 1..LastWrite /\ diskFiles[f] \in 1..LastWrite
      BY <1>0, <2>1, <3>1, SyncTypes DEF OnDisk, SyncInv
    <3>4. table'[IdOf[f]] = [file |-> f, ver |-> disk[f], mtime |-> diskFiles[f]]
      BY <1>0, <1>4, <3>1, <3>2, SyncTypes DEF Sync!SaveWithMtime, Sync!MtimeSeen, SyncInv
    <3>5. table'[IdOf[f]] # Missing
      BY <3>3, <3>4, FileFacts
    <3> QED BY <2>1, <3>1, <3>2, <3>4, <3>5 DEF FileSynced, Current, Sync!Settled, OnDisk
  <2> QED BY <2>2, <2>3
<1>5. ASSUME NEW i \in Ids, Moved(i) PROVE FileSynced(f)'
  <2>1. Syncing /\ Clean(IdOf[f]) /\ IdOf[f] # i
    BY <1>5 DEF Moved, Sync!OnlyDisk, Syncing, Clean
  <2>2. disk'[f] = disk[f]
    BY <1>5, <2>1 DEF Moved
  <2>3. FileSynced(f)
    BY <1>0, <2>1, <2>2 DEF SyncInv, OnDisk
  <2> QED BY <1>5, <2>2, <2>3 DEF Moved, Sync!OnlyDisk, FileSynced, Sync!Settled, Current
<1>6. ~(Sync!SyncStart \/ Sync!RemoveGone \/ Sync!Crash)
  BY DEF Sync!SyncStart, Sync!RemoveGone, Sync!Crash, Syncing
<1> QED BY <1>0, <1>1, <1>2, <1>3, <1>4, <1>5, <1>6, DiskMoves DEF Sync!SyncNext, SyncInv

LEMMA GoneSyncedStep ==
    ASSUME SyncInv, Sync!SyncNext, Syncing', NEW i \in Ids, Clean(i)', \A f \in Files : IdOf[f] = i => ~OnDisk(f)'
    PROVE  GoneSynced(i)'
<1>1. CASE Sync!Loaded
  <2>1. table' = table /\ registered'[i] = IF table[i] = Missing THEN Missing ELSE [file |-> table[i].file, ver |-> table[i].ver]
    BY <1>1 DEF Sync!Loaded
  <2>2. table[i] # Missing => /\ table[i].file \in Files /\ IdOf[table[i].file] = i /\ table[i].ver \in 1..LastWrite
                              /\ table[i].mtime # Missing
    BY SyncTypes, FileFacts DEF SyncInv, TimesGrow
  <2>3. table[i] # Missing => storedByPath'[table[i].file] # Missing
    BY <1>1, <2>2 DEF Sync!Loaded, Sync!StoredMtime
  <2> QED BY <2>1, <2>2, <2>3, FileFacts DEF GoneSynced
<1>2. ASSUME Syncing, Clean(i), UNCHANGED storedByPath, disk' = disk,
             registered'[i] = registered[i], table'[i] = table[i]
      PROVE  GoneSynced(i)'
  BY <1>2 DEF SyncInv, OnDisk, GoneSynced
<1>3. \A f \in Files : Syncing /\ Clean(i) /\ disk' = disk /\ diskFiles[f] # Missing => IdOf[f] # i
  BY DEF SyncInv, OnDisk
<1>4. ASSUME NEW h \in Files, Sync!Reparse(h) PROVE GoneSynced(i)'
  <2>1. Syncing /\ Clean(i) /\ diskFiles[h] # Missing /\ UNCHANGED <<storedByPath, disk>>
    BY <1>4 DEF Sync!Reparse, SyncInv, AtFile, Syncing, Clean
  <2>2. registered'[i] = registered[i] /\ table'[i] = table[i]
    BY <1>3, <1>4, <2>1 DEF Sync!Reparse, Sync!Unregister
  <2> QED BY <1>2, <2>1, <2>2
<1>5. CASE Sync!RegisterFile
  <2>1. Syncing /\ Clean(i) /\ diskFiles[file] # Missing /\ file \in Files /\ UNCHANGED <<storedByPath, disk>>
    BY <1>5 DEF Sync!RegisterFile, SyncInv, AtFile, Syncing, Clean
  <2>2. IdOf[file] # i
    BY <1>3, <2>1
  <2>3. registered'[i] = registered[i] /\ table'[i] = table[i]
    BY <1>5, <2>2, SyncTypes DEF Sync!RegisterFile, Sync!Register, SyncInv
  <2> QED BY <1>2, <2>1, <2>3
<1>6. CASE Sync!SaveWithMtime
  <2>1. Syncing /\ Clean(i) /\ diskFiles[file] # Missing /\ file \in Files /\ UNCHANGED <<storedByPath, disk, registered>>
    BY <1>6 DEF Sync!SaveWithMtime, SyncInv, AtFile, Syncing, Clean
  <2>2. IdOf[file] # i
    BY <1>3, <2>1
  <2>3. registered'[i] = registered[i] /\ table'[i] = table[i]
    BY <1>6, <2>1, <2>2, SyncTypes DEF Sync!SaveWithMtime, SyncInv
  <2> QED BY <1>2, <2>1, <2>3
<1>7. ASSUME NEW j \in Ids, Moved(j) PROVE GoneSynced(i)'
  <2>1. Syncing /\ Clean(i) /\ i # j /\ UNCHANGED <<registered, table, storedByPath>>
    BY <1>7 DEF Moved, Sync!OnlyDisk, Syncing, Clean
  <2>2. \A f \in Files : IdOf[f] = i => ~OnDisk(f)
    BY <1>7, <2>1 DEF Moved, OnDisk
  <2> QED BY <2>1, <2>2 DEF SyncInv, GoneSynced
<1>8. ~(Sync!SyncStart \/ Sync!RemoveGone \/ Sync!Crash)
  BY DEF Sync!SyncStart, Sync!RemoveGone, Sync!Crash, Syncing
<1> QED BY <1>1, <1>4, <1>5, <1>6, <1>7, <1>8, DiskMoves DEF Sync!SyncNext, SyncInv

\* The last step of a sync settles what was synced, and removes what is gone.
LEMMA FileDone ==
    ASSUME SyncInv, Sync!RemoveGone, NEW f \in Files, Clean(IdOf[f])
    PROVE  Sync!Settled(f)'
<1> DEFINE i == IdOf[f]
           gone == {IdOf[g] : g \in {h \in Files : storedByPath[h] # Missing /\ diskFiles[h] = Missing}}
<1>1. /\ i \in Ids /\ sync = "files" /\ todo = {} /\ Syncing /\ disk' = disk
      /\ registered' = [j \in Ids |-> IF j \in gone THEN Missing ELSE registered[j]]
      /\ table' = [j \in Ids |-> IF j \in gone THEN Missing ELSE table[j]]
      /\ \A g \in Files : IdOf[g] = i => disk[g] = diskFiles[g]
  BY FileFacts DEF Sync!RemoveGone, Syncing, SyncInv, Clean
<1>2. i \in gone <=> \E g \in Files : IdOf[g] = i /\ storedByPath[g] # Missing /\ diskFiles[g] = Missing
  OBVIOUS
<1> HIDE DEF gone
<1>3. ASSUME NEW h \in Files, IdOf[h] = i, OnDisk(h) PROVE Sync!Settled(f)'
  <2>1. FileSynced(h) /\ h \notin todo /\ ~Current(h)
    BY <1>1, <1>3 DEF SyncInv, Current, Clean
  <2>2. Sync!Settled(h) /\ \A g \in Files \ {h} : IdOf[g] = i => storedByPath[g] = Missing
    BY <1>3, <2>1 DEF FileSynced
  <2>3. i \notin gone
    BY <1>1, <1>2, <1>3, <2>2 DEF OnDisk
  <2>4. registered'[i] = registered[i] /\ table'[i] = table[i]
    BY <1>1, <2>3
  <2>5. registered[i] = [file |-> h, ver |-> disk[h]] /\ table[i] # Missing /\ registered[i] # Missing /\ table[i].ver = disk[h]
    BY <1>1, <1>3, <2>2, SyncTypes, FileFacts DEF Sync!Settled, OnDisk, SyncInv
  <2>6. table[i].file = h
    BY <1>1, <2>5 DEF SyncInv, RowsBehind
  <2>7. f # h => ~OnDisk(f)
    BY <1>3 DEF SyncInv, TimesGrow
  <2> QED BY <1>1, <1>3, <2>4, <2>5, <2>6, <2>7 DEF Sync!Settled, OnDisk
<1>4. ASSUME \A h \in Files : IdOf[h] = i => ~OnDisk(h) PROVE Sync!Settled(f)'
  <2>1. GoneSynced(i)
    BY <1>1, <1>4 DEF SyncInv, Clean
  <2>2. table[i] # Missing => i \in gone
    BY <1>1, <1>2, <1>4, <2>1, SyncTypes DEF GoneSynced, SyncInv, TimesGrow, OnDisk
  <2>3. registered'[i] = Missing /\ table'[i] = Missing
    BY <1>1, <2>1, <2>2 DEF GoneSynced
  <2> QED BY <1>1, <1>4, <2>3 DEF Sync!Settled, OnDisk
<1> QED BY <1>3, <1>4

LEMMA CompleteStep == ASSUME SyncInv, Sync!SyncNext PROVE Sync!SyncComplete'
<1>1. CASE Sync!RemoveGone
  <2>1. dirty' = dirty /\ displaced' = displaced
    BY <1>1 DEF Sync!RemoveGone
  <2> QED BY <1>1, <2>1, FileDone DEF Sync!SyncComplete, Clean
<1>2. ASSUME NEW i \in Ids, Moved(i) PROVE Sync!SyncComplete'
  <2> SUFFICES ASSUME sync' = "done", NEW f \in Files, IdOf[f] \notin dirty' \cup displaced'
               PROVE  Sync!Settled(f)'
    BY DEF Sync!SyncComplete
  <2>1. sync = "done" /\ IdOf[f] # i /\ IdOf[f] \notin dirty \cup displaced /\ UNCHANGED <<registered, table>>
    BY <1>2 DEF Moved, Sync!OnlyDisk
  <2>2. Sync!Settled(f) /\ disk'[f] = disk[f]
    BY <1>2, <2>1 DEF Moved, SyncInv, Sync!SyncComplete
  <2> QED BY <2>1, <2>2 DEF Sync!Settled
<1>3. CASE Sync!SyncStart \/ Sync!Loaded \/ Sync!RegisterFile \/ Sync!SaveWithMtime \/ Sync!Crash \/ \E f \in Files : Sync!Reparse(f)
  BY <1>3 DEF Sync!SyncStart, Sync!Loaded, Sync!RegisterFile, Sync!SaveWithMtime, Sync!Crash, Sync!Reparse, Sync!SyncComplete
<1> QED BY <1>1, <1>2, <1>3, DiskMoves DEF Sync!SyncNext, SyncInv

LEMMA SyncStep == ASSUME SyncInv, [Sync!SyncNext]_syncVars PROVE SyncInv'
<1>1. CASE Sync!SyncNext
  <2>1. /\ Sync!SyncTypeOK' /\ TimesGrow' /\ AtFile' /\ Sync!IndexAgrees' /\ RowsBehind' /\ Sync!SyncComplete'
    BY <1>1, SyncTypeStep, TimesStep, AtFileStep, IndexStep, RowsStep, CompleteStep
  <2>2. Syncing' => \A f \in Files : Clean(IdOf[f])' => disk'[f] = diskFiles'[f]
    BY <1>1, ListingStep
  <2>3. Syncing' => \A f \in Files : Clean(IdOf[f])' /\ OnDisk(f)' => FileSynced(f)'
    BY <1>1, FileSyncedStep
  <2>4. Syncing' => \A i \in Ids : Clean(i)' /\ (\A f \in Files : IdOf[f] = i => ~OnDisk(f)') => GoneSynced(i)'
    BY <1>1, GoneSyncedStep
  <2> QED BY <2>1, <2>2, <2>3, <2>4 DEF SyncInv
<1>2. CASE UNCHANGED syncVars
  BY <1>2 DEF syncVars, SyncInv, Sync!SyncTypeOK, TimesGrow, AtFile, Sync!IndexAgrees, RowsBehind, Sync!SyncComplete,
              Syncing, Clean, OnDisk, FileSynced, Current, GoneSynced, Sync!Settled
<1> QED BY <1>1, <1>2

-----------------------------------------------------------------------------
(* The session *)

Pairs == Nat \X Nat

\* Versions and counts come from the calls so far, a session that is not there has no
\* transitions, and the row follows.
SharedInv ==
    /\ session \in {Absent} \cup Shared!States /\ row \in {Absent} \cup Shared!Rows
    /\ counts \in [Edges -> 0..MaxUpdates] /\ steps \in 0..MaxUpdates /\ missed \in BOOLEAN
    /\ session # Absent => session.version <= steps
    /\ \A e \in Edges : counts[e] <= steps
    /\ row # Absent => row.version <= steps /\ \A e \in Edges : row.counts[e] <= steps
    /\ history \in Seq(Pairs)
    /\ session = Absent => history = <<>>
    /\ Shared!RowFollowsSession

\* A chain of transitions leads from each to the next.
Chain(h) == \A i \in 1..Len(h) - 1 : h[i + 1][1] = h[i][2]

LEMMA SharedFacts ==
    /\ MaxUpdates \in Nat /\ MaxTransitions \in Nat
    /\ \A s \in Shared!States : s # Absent
    /\ \A r \in Shared!Rows : r # Absent
  BY RecordsAssumption DEF Shared!States, Shared!Rows

\* The newest transitions are transitions,
LEMMA NewestSeq == ASSUME NEW h \in Seq(Pairs) PROVE Shared!Newest(h) \in Seq(Pairs)
<1>1. CASE Len(h) <= MaxTransitions
  BY <1>1, SharedFacts, LenProperties DEF Shared!Newest
<1>2. CASE Len(h) > MaxTransitions
  <2> DEFINE k == Len(h) - MaxTransitions
  <2>1. Len(h) \in Nat /\ k \in Nat /\ Shared!Newest(h) = SubSeq(h, k + 1, Len(h))
    BY <1>2, SharedFacts, LenProperties DEF Shared!Newest
  <2>2. \A i \in k + 1 .. Len(h) : h[i] \in Pairs
    BY <2>1, ElementOfSeq
  <2> HIDE DEF k
  <2> QED BY <2>1, <2>2, SubSeqProperties
<1> QED BY <1>1, <1>2, SharedFacts, LenProperties

\* and those of a chain are a chain to the same version.
LEMMA NewestChain ==
    ASSUME NEW h \in Seq(Pairs), Chain(h)
    PROVE  /\ Shared!Newest(h) \in Seq(Pairs) /\ Chain(Shared!Newest(h))
           /\ Shared!Newest(h) # <<>> => h # <<>> /\ Shared!Last(Shared!Newest(h)) = Shared!Last(h)
<1>1. CASE Len(h) <= MaxTransitions
  BY <1>1, SharedFacts DEF Shared!Newest
<1>2. CASE Len(h) > MaxTransitions
  <2> DEFINE k == Len(h) - MaxTransitions
             n == SubSeq(h, k + 1, Len(h))
  <2>1. Len(h) \in Nat /\ k \in Nat /\ k >= 1 /\ k <= Len(h) /\ Shared!Newest(h) = n
    BY <1>2, SharedFacts, LenProperties DEF Shared!Newest
  <2>2. \A i \in k + 1 .. Len(h) : h[i] \in Pairs
    BY <2>1, ElementOfSeq
  <2>3. /\ n \in Seq(Pairs) /\ Len(n) = Len(h) - k
        /\ \A i \in 1..Len(h) - k : n[i] = h[k + i]
    BY <2>1, <2>2, SubSeqProperties
  <2> HIDE DEF k, n
  <2>4. Chain(n)
    <3>1. ASSUME NEW i \in 1..Len(n) - 1 PROVE n[i + 1][1] = n[i][2]
      <4>1. i \in 1..Len(h) - k /\ i + 1 \in 1..Len(h) - k /\ k + i \in 1..Len(h) - 1 /\ k + (i + 1) = (k + i) + 1
        BY <2>1, <2>3
      <4>2. n[i] = h[k + i] /\ n[i + 1] = h[k + (i + 1)]
        BY <2>3, <4>1
      <4> QED BY <4>1, <4>2 DEF Chain
    <3> QED BY <3>1 DEF Chain
  <2>5. n # <<>> => Shared!Last(n) = Shared!Last(h)
    <3> SUFFICES ASSUME n # <<>> PROVE Shared!Last(n) = Shared!Last(h)
      OBVIOUS
    <3>1. Len(n) \in 1..Len(h) - k /\ k + Len(n) = Len(h)
      BY <2>1, <2>3, EmptySeq
    <3> QED BY <2>3, <3>1 DEF Shared!Last
  <2>6. h # <<>>
    BY <1>2, SharedFacts
  <2> QED BY <2>1, <2>3, <2>4, <2>5, <2>6
<1> QED BY <1>1, <1>2, SharedFacts, LenProperties

LEMMA SharedInitInv == Shared!SharedInit => SharedInv
<1> SUFFICES ASSUME Shared!SharedInit PROVE SharedInv
  OBVIOUS
<1>1. counts \in [Edges -> 0..MaxUpdates] /\ \A e \in Edges : counts[e] = 0
  BY SharedFacts DEF Shared!SharedInit, Shared!NoCounts
<1>2. history \in Seq(Pairs)
  BY EmptySeq DEF Shared!SharedInit
<1>3. session = Absent /\ row = Absent /\ history = <<>> /\ missed = FALSE /\ steps = 0
  BY DEF Shared!SharedInit
<1>4. steps \in 0..MaxUpdates /\ \A e \in Edges : counts[e] <= steps
  BY <1>1, <1>3, SharedFacts
<1> QED BY <1>1, <1>2, <1>3, <1>4 DEF SharedInv, Shared!RowFollowsSession

\* What a write leaves in the row, if it succeeds.
LEMMA RowWritten ==
    ASSUME NEW s \in Shared!States, NEW c \in [Edges -> 0..MaxUpdates]
    PROVE  /\ Shared!Row(s, c) \in Shared!Rows /\ Shared!Row(s, c) # Absent /\ s # Absent
           /\ Shared!Row(s, c).version = s.version /\ Shared!Row(s, c).counts = c
  BY SharedFacts DEF Shared!Row, Shared!Rows, Shared!States

LEMMA UpdateInv ==
    ASSUME SharedInv, NEW es \in SUBSET Edges, Shared!Update(es)
    PROVE  SharedInv'
<1>1. /\ session # Absent /\ session \in Shared!States /\ steps \in Nat /\ steps + 1 <= MaxUpdates /\ steps' = steps + 1
      /\ session.version \in Nat /\ session.edges \subseteq Edges /\ session.version <= steps
  BY SharedFacts DEF SharedInv, Shared!Update, Shared!States
<1>2. /\ session' = [version |-> session.version + 1, edges |-> session.edges \cup es]
      /\ session' \in Shared!States /\ session' # Absent /\ session'.version = session.version + 1
  BY <1>1, SharedFacts DEF Shared!Update, Shared!States
<1>3. /\ counts' \in [Edges -> 0..MaxUpdates]
      /\ \A e \in Edges : counts[e] <= counts'[e] /\ counts'[e] <= steps'
  <2>1. counts' = [e \in Edges |-> IF e \in es THEN counts[e] + 1 ELSE counts[e]]
    BY DEF Shared!Update
  <2>2. \A e \in Edges : counts[e] \in 0..MaxUpdates /\ counts[e] <= steps
    BY DEF SharedInv
  <2>3. \A e \in Edges : counts'[e] \in 0..MaxUpdates /\ counts[e] <= counts'[e] /\ counts'[e] <= steps'
    BY <1>1, <2>1, <2>2, SharedFacts
  <2> QED BY <2>1, <2>3
<1>4. /\ \/ row' = Shared!Row(session', counts') /\ (missed => missed')
         \/ row' = row /\ missed'
         \/ row' = row /\ ~Persists /\ missed' = missed
      /\ missed' \in BOOLEAN
  BY <1>1 DEF Shared!Update, Shared!SavesUpdate, Shared!Saves, SharedInv
<1>5. /\ row' \in {Absent} \cup Shared!Rows
      /\ row' # Absent => row'.version <= steps' /\ \A e \in Edges : row'.counts[e] <= steps'
  <2>1. CASE row' = row
    <3>1. row # Absent => row.version \in Nat /\ \A e \in Edges : row.counts[e] \in Nat
      BY DEF SharedInv, Shared!Rows
    <3> QED BY <1>1, <2>1, <3>1 DEF SharedInv
  <2>2. CASE row' = Shared!Row(session', counts')
    <3>1. row' \in Shared!Rows /\ row'.version = session.version + 1 /\ row'.counts = counts'
      BY <1>2, <1>3, <2>2, RowWritten
    <3> QED BY <1>1, <1>3, <3>1
  <2> QED BY <1>4, <2>1, <2>2
<1>6. history' \in Seq(Pairs)
  <2>1. Append(history, <<session.version, session.version + 1>>) \in Seq(Pairs)
    BY <1>1, AppendProperties DEF SharedInv, Pairs
  <2> QED BY <2>1, NewestSeq DEF Shared!Update
<1>7. ASSUME Persists, ~missed' PROVE Shared!RowFollowsSession'
  <2>1. ~missed /\ row' = Shared!Row(session', counts')
    BY <1>4, <1>7
  <2>2. row' # Absent /\ row'.version = session'.version /\ row'.counts = counts'
    BY <1>2, <1>3, <2>1, RowWritten
  <2> DEFINE h == Append(history, <<session.version, session.version + 1>>)
  <2>3. /\ history \in Seq(Pairs) /\ Chain(history) /\ (history # <<>> => Shared!Last(history)[2] = session.version)
    BY <1>1, <1>7, <2>1 DEF SharedInv, Shared!RowFollowsSession, Chain
  <2>4. /\ h \in Seq(Pairs) /\ Len(h) = Len(history) + 1 /\ Len(history) \in Nat
        /\ h[Len(h)] = <<session.version, session.version + 1>>
        /\ \A i \in 1..Len(history) : h[i] = history[i]
    BY <1>1, <2>3, AppendProperties, LenProperties DEF Pairs
  <2>5. history' = Shared!Newest(h)
    BY DEF Shared!Update
  <2> HIDE DEF h
  <2>6. Chain(h)
    <3>1. ASSUME NEW i \in 1..Len(h) - 1 PROVE h[i + 1][1] = h[i][2]
      <4>1. i \in 1..Len(history) /\ h[i] = history[i]
        BY <2>4
      <4>2. CASE i < Len(history)
        <5>1. i \in 1..Len(history) - 1 /\ i + 1 \in 1..Len(history)
          BY <2>4, <4>1, <4>2
        <5> QED BY <2>3, <2>4, <4>1, <5>1 DEF Chain
      <4>3. CASE i = Len(history)
        <5>1. history # <<>> /\ i + 1 = Len(h)
          BY <2>4, <4>1, <4>3
        <5> QED BY <2>3, <2>4, <4>1, <4>3, <5>1 DEF Shared!Last
      <4> QED BY <2>4, <4>1, <4>2, <4>3
    <3> QED BY <3>1 DEF Chain
  <2>7. Shared!Last(h)[2] = session'.version
    BY <1>2, <2>4 DEF Shared!Last
  <2>8. /\ Chain(history') /\ (history' # <<>> => Shared!Last(history')[2] = session'.version)
    BY <2>4, <2>5, <2>6, <2>7, NewestChain
  <2>9. \A e \in Edges : row'.counts[e] <= counts'[e]
    BY <1>3, <2>2
  <2> QED BY <2>2, <2>8, <2>9 DEF Shared!RowFollowsSession, Chain
<1> QED BY <1>1, <1>2, <1>3, <1>4, <1>5, <1>6, <1>7 DEF SharedInv, Shared!RowFollowsSession

LEMMA SharedStep == ASSUME SharedInv, [Shared!SharedNext]_busVars PROVE SharedInv'
<1> USE SharedFacts DEF SharedInv
<1>1. CASE Shared!CreateSession
  <2>0. missed' \in BOOLEAN
    BY <1>1 DEF Shared!CreateSession, Shared!SavesUpdate, Shared!Saves
  <2>1. /\ session' = [version |-> 0, edges |-> {}] /\ session' \in Shared!States /\ session'.version = 0
        /\ counts' = [e \in Edges |-> 0] /\ history' = <<>> /\ steps' = steps
    BY <1>1 DEF Shared!CreateSession, Shared!States, Shared!NoCounts
  <2>2. counts' \in [Edges -> 0..MaxUpdates] /\ \A e \in Edges : counts'[e] = 0
    BY <2>1
  <2>3. session' # Absent
    BY <2>1
  <2>4. \/ row' = Shared!Row(session', counts')
        \/ row' = row /\ (missed' \/ ~Persists)
    BY <1>1 DEF Shared!CreateSession, Shared!SavesUpdate, Shared!Saves
  <2>5. CASE row' = Shared!Row(session', counts')
    <3>1. /\ row' \in Shared!Rows /\ row' # Absent /\ row'.version = 0 /\ row'.counts = counts'
      BY <2>1, <2>2, <2>5, RowWritten
    <3>2. history' \in Seq(Pairs)
      BY <2>1, EmptySeq
    <3>3. Shared!RowFollowsSession'
      BY <2>1, <2>2, <3>1 DEF Shared!RowFollowsSession
    <3> QED BY <2>0, <2>1, <2>2, <2>3, <3>1, <3>2, <3>3
  <2>6. CASE row' = row /\ (missed' \/ ~Persists)
    BY <2>0, <2>1, <2>2, <2>3, <2>6 DEF Shared!RowFollowsSession
  <2> QED BY <2>4, <2>5, <2>6
<1>2. CASE Shared!CloseSession \/ Shared!ProcessRestarts
  <2>1. /\ session' = Absent /\ history' = <<>> /\ counts' = [e \in Edges |-> 0] /\ row' \in {Absent, row}
        /\ steps' = steps /\ missed' = missed
    BY <1>2 DEF Shared!CloseSession, Shared!ProcessRestarts, Shared!NoCounts
  <2>2. counts' \in [Edges -> 0..MaxUpdates] /\ \A e \in Edges : counts'[e] = 0
    BY <2>1
  <2> QED BY <2>1, <2>2 DEF Shared!RowFollowsSession
<1>3. CASE Shared!PersistSession
  <2>1. session \in Shared!States /\ UNCHANGED <<session, counts, history, steps>>
    BY <1>3 DEF Shared!PersistSession
  <2>2. /\ \/ row' = Shared!Row(session, counts) /\ (missed => missed')
           \/ row' = row /\ missed'
        /\ missed' \in BOOLEAN
    BY <1>3 DEF Shared!PersistSession, Shared!Saves
  <2>3. CASE row' = Shared!Row(session, counts) /\ (missed => missed')
    BY <2>1, <2>2, <2>3, RowWritten DEF Shared!RowFollowsSession
  <2>4. CASE row' = row /\ missed'
    BY <2>1, <2>2, <2>4 DEF Shared!RowFollowsSession
  <2> QED BY <2>2, <2>3, <2>4
<1>4. CASE Shared!LoadSession
  <2>1. /\ row # Absent /\ row \in Shared!Rows /\ row.version \in 0..MaxUpdates /\ row.edges \subseteq Edges
        /\ row.counts \in [Edges -> 0..MaxUpdates]
    BY <1>4 DEF Shared!LoadSession, Shared!Rows
  <2>2. /\ session' \in Shared!States /\ session'.version = row.version /\ counts' = row.counts
        /\ UNCHANGED <<row, steps>> /\ (session = Absent => history' = <<>>) /\ (session # Absent => history' = history)
        /\ missed' = (missed /\ session # Absent) /\ missed' \in BOOLEAN
    BY <1>4, <2>1 DEF Shared!LoadSession, Shared!States
  <2>3. \A e \in Edges : row.counts[e] \in Nat
    BY <2>1
  <2>4. Shared!RowFollowsSession'
    <3>1. CASE session = Absent
      BY <2>1, <2>2, <2>3, <3>1 DEF Shared!RowFollowsSession
    <3>2. CASE session # Absent
      <4>1. missed' = missed
        BY <2>2, <3>2
      <4> QED BY <2>1, <2>2, <2>3, <3>2, <4>1 DEF Shared!RowFollowsSession
    <3> QED BY <3>1, <3>2
  <2> QED BY <2>1, <2>2, <2>4
<1>5. ASSUME NEW e \in Edges, Shared!RecordEdge(e) PROVE SharedInv'
  <2>1. /\ session # Absent /\ session \in Shared!States /\ steps + 1 <= MaxUpdates /\ steps' = steps + 1
        /\ UNCHANGED <<row, history, missed>>
    BY <1>5 DEF Shared!RecordEdge
  <2>2. session' \in Shared!States /\ session'.version = session.version
    BY <1>5, <2>1 DEF Shared!RecordEdge, Shared!States
  <2>3. /\ counts' \in [Edges -> 0..MaxUpdates]
        /\ \A d \in Edges : counts[d] <= counts'[d] /\ counts'[d] <= steps'
    BY <1>5, <2>1 DEF Shared!RecordEdge, Shared!Counted
  <2>4. row # Absent => row.version \in Nat /\ \A d \in Edges : row.counts[d] \in Nat
    BY DEF Shared!Rows
  <2>5. \A d \in Edges : counts[d] \in Nat /\ counts'[d] \in Nat
    BY <2>3
  <2>6. ASSUME row # Absent, \A d \in Edges : row.counts[d] <= counts[d]
        PROVE  \A d \in Edges : row.counts[d] <= counts'[d]
    BY <2>3, <2>4, <2>5, <2>6
  <2>7. Shared!RowFollowsSession'
    BY <2>1, <2>2, <2>6 DEF Shared!RowFollowsSession
  <2> QED BY <2>1, <2>2, <2>3, <2>4, <2>5, <2>7 DEF Shared!States
<1>6. ASSUME NEW es \in SUBSET Edges, Shared!Update(es) PROVE SharedInv'
  BY <1>6, UpdateInv
<1>7. CASE UNCHANGED busVars
  BY <1>7 DEF busVars, Shared!RowFollowsSession
<1> QED BY <1>1, <1>2, <1>3, <1>4, <1>5, <1>6, <1>7 DEF Shared!SharedNext

-----------------------------------------------------------------------------
(* The loggers *)

Lines == 1..logged
Before(p, q) == \A i \in 1..Len(p), j \in 1..Len(q) : p[i] < q[j]
Covered == Logs!ToSet(logFile) \cup Logs!ToSet(stderr) \cup Logs!ToSet(flushed) \cup Logs!ToSet(buffer)

\* What was logged is in order: in the files before what is written, and that before what waits.
LinesInv ==
    /\ logFile \in Seq(Lines) /\ stderr \in Seq(Lines) /\ flushed \in Seq(Lines) /\ buffer \in Seq(Lines)
    /\ Logs!Ascending(logFile) /\ Logs!Ascending(stderr) /\ Logs!Ascending(flushed) /\ Logs!Ascending(buffer)
    /\ Before(logFile, flushed) /\ Before(stderr, flushed)
    /\ Before(logFile, buffer) /\ Before(stderr, buffer) /\ Before(flushed, buffer)
    /\ accepted \subseteq Lines /\ accepted = Covered
    /\ Cardinality(accepted) = Len(logFile) + Len(stderr) + Len(flushed) + Len(buffer)

\* A flush that a close() began has taken the whole buffer.
CloseInv ==
    /\ closing \in {"open", "flushing", "closed", "ended"}
    /\ closing = "flushing" => buffer = <<>> /\ ~behind
    /\ Logs!ClosedIsWritten

\* The file and the buffer of each stream, and what memory keeps: everything, or the last entries.
StreamInv ==
    /\ streamed \in [Logs!Streams -> SUBSET Lines]
    /\ streamFile \in [Logs!Streams -> Seq(Lines)] /\ streamBuffer \in [Logs!Streams -> Seq(Lines)]
    /\ DOMAIN streamLost = Logs!Streams
    /\ \A s \in Logs!Streams :
         /\ streamed[s] = Logs!ToSet(streamFile[s]) \cup Logs!ToSet(streamBuffer[s]) \cup streamLost[s]
         /\ Logs!Ascending(streamFile[s]) /\ Logs!Ascending(streamBuffer[s]) /\ Before(streamFile[s], streamBuffer[s])
         /\ streamClosed => streamBuffer[s] = <<>>
RetainedInv ==
    /\ retained \in Seq(Lines) /\ Logs!Ascending(retained) /\ Len(retained) <= MaxRetained
    /\ Logs!ToSet(retained) \subseteq streamed["structured"]
    /\ \A e \in streamed["structured"] \ Logs!ToSet(retained) :
         Len(retained) = MaxRetained /\ \A i \in 1..Len(retained) : e < retained[i]

LogsInv == logged \in Nat /\ LinesInv /\ CloseInv /\ StreamInv /\ RetainedInv

LEMMA LogFacts == MaxEntries \in Nat /\ MaxRetained \in Nat
  BY RecordsAssumption

\* The lines of sequences put one after another,
LEMMA ConcatLines ==
    ASSUME NEW S, S \subseteq Nat, NEW p \in Seq(S), NEW q \in Seq(S)
    PROVE  /\ p \o q \in Seq(S) /\ Len(p \o q) = Len(p) + Len(q)
           /\ Logs!ToSet(p \o q) = Logs!ToSet(p) \cup Logs!ToSet(q)
           /\ Logs!Ascending(p) /\ Logs!Ascending(q) /\ Before(p, q) => Logs!Ascending(p \o q)
<1>1. /\ p \o q \in Seq(S) /\ Len(p \o q) = Len(p) + Len(q)
      /\ \A i \in 1 .. Len(p) + Len(q) : (p \o q)[i] = IF i <= Len(p) THEN p[i] ELSE q[i - Len(p)]
  BY ConcatProperties
<1>2. /\ Len(p) \in Nat /\ DOMAIN p = 1..Len(p) /\ Len(q) \in Nat /\ DOMAIN q = 1..Len(q)
      /\ DOMAIN (p \o q) = 1..Len(p) + Len(q)
  BY <1>1, LenProperties
<1> DEFINE r == p \o q
<1>3. \A i \in 1..Len(p) + Len(q) : r[i] = IF i <= Len(p) THEN p[i] ELSE q[i - Len(p)]
  BY <1>1
<1>4. DOMAIN r = 1..Len(p) + Len(q)
  BY <1>2
<1> HIDE DEF r
<1>5. \A i \in 1..Len(p) : i \in 1..Len(p) + Len(q) /\ r[i] = p[i]
  BY <1>2, <1>3
<1>6. \A i \in 1..Len(q) : Len(p) + i \in 1..Len(p) + Len(q) /\ r[Len(p) + i] = q[i]
  <2>1. ASSUME NEW i \in 1..Len(q) PROVE Len(p) + i \in 1..Len(p) + Len(q) /\ r[Len(p) + i] = q[i]
    <3>1. Len(p) + i \in 1..Len(p) + Len(q) /\ ~(Len(p) + i <= Len(p)) /\ (Len(p) + i) - Len(p) = i
      BY <1>2
    <3> QED BY <1>3, <3>1
  <2> QED BY <2>1
<1>7. \A i \in 1..Len(p) + Len(q) : \/ i \in 1..Len(p) /\ r[i] = p[i]
                                    \/ i - Len(p) \in 1..Len(q) /\ r[i] = q[i - Len(p)]
  BY <1>2, <1>3
<1>8. Logs!ToSet(r) = Logs!ToSet(p) \cup Logs!ToSet(q)
  <2>1. \A x : x \in Logs!ToSet(r) <=> \E i \in 1..Len(p) + Len(q) : r[i] = x
    BY <1>4 DEF Logs!ToSet
  <2>2. \A x : x \in Logs!ToSet(p) <=> \E i \in 1..Len(p) : p[i] = x
    BY <1>2 DEF Logs!ToSet
  <2>3. \A x : x \in Logs!ToSet(q) <=> \E i \in 1..Len(q) : q[i] = x
    BY <1>2 DEF Logs!ToSet
  <2>4. \A x \in Logs!ToSet(r) : x \in Logs!ToSet(p) \/ x \in Logs!ToSet(q)
    BY <1>7, <2>1, <2>2, <2>3
  <2>5. \A x \in Logs!ToSet(p) : x \in Logs!ToSet(r)
    BY <1>5, <2>1, <2>2
  <2>6. \A x \in Logs!ToSet(q) : x \in Logs!ToSet(r)
    BY <1>6, <2>1, <2>3
  <2> QED BY <2>4, <2>5, <2>6
<1>9. ASSUME Logs!Ascending(p), Logs!Ascending(q), Before(p, q) PROVE Logs!Ascending(r)
  <2> SUFFICES ASSUME NEW i \in 1..Len(p) + Len(q), NEW j \in 1..Len(p) + Len(q), i < j PROVE r[i] < r[j]
    BY <1>4 DEF Logs!Ascending
  <2>1. CASE j <= Len(p)
    <3>1. i \in 1..Len(p) /\ j \in 1..Len(p) /\ r[i] = p[i] /\ r[j] = p[j]
      BY <1>2, <1>5, <2>1
    <3> QED BY <1>2, <1>9, <3>1 DEF Logs!Ascending
  <2>2. CASE i <= Len(p) /\ j > Len(p)
    <3>1. i \in 1..Len(p) /\ r[i] = p[i] /\ j - Len(p) \in 1..Len(q) /\ r[j] = q[j - Len(p)]
      BY <1>2, <1>3, <2>2
    <3> QED BY <1>9, <3>1 DEF Before
  <2>3. CASE i > Len(p)
    <3>1. /\ i - Len(p) \in 1..Len(q) /\ r[i] = q[i - Len(p)] /\ j - Len(p) \in 1..Len(q) /\ r[j] = q[j - Len(p)]
          /\ i - Len(p) < j - Len(p)
      BY <1>2, <1>3, <2>3
    <3> QED BY <1>2, <1>9, <3>1 DEF Logs!Ascending
  <2> QED BY <1>2, <2>1, <2>2, <2>3
<1> QED BY <1>1, <1>8, <1>9 DEF r

\* which hold theirs, and are in order when the one is before the other,
LEMMA ConcatHolds ==
    ASSUME NEW S, S \subseteq Nat, NEW p \in Seq(S), NEW q \in Seq(S)
    PROVE  p \o q \in Seq(S) /\ Len(p \o q) = Len(p) + Len(q) /\ Logs!ToSet(p \o q) = Logs!ToSet(p) \cup Logs!ToSet(q)
  BY ConcatLines, ZenonT(60)

LEMMA ConcatAscends ==
    ASSUME NEW S, S \subseteq Nat, NEW p \in Seq(S), NEW q \in Seq(S),
           Logs!Ascending(p), Logs!Ascending(q), Before(p, q)
    PROVE  Logs!Ascending(p \o q)
  BY ConcatLines, ZenonT(60)

\* a later line at the end of one,
LEMMA AppendLine ==
    ASSUME NEW S, S \subseteq Nat, NEW q \in Seq(S), NEW n \in S, \A x \in S \ {n} : x < n, n \notin Logs!ToSet(q)
    PROVE  /\ Append(q, n) \in Seq(S) /\ Len(Append(q, n)) = Len(q) + 1
           /\ Logs!ToSet(Append(q, n)) = Logs!ToSet(q) \cup {n}
           /\ Logs!Ascending(q) => Logs!Ascending(Append(q, n))
           /\ \A p \in Seq(S) : n \notin Logs!ToSet(p) /\ Before(p, q) => Before(p, Append(q, n))
<1>1. /\ Append(q, n) \in Seq(S) /\ Len(Append(q, n)) = Len(q) + 1 /\ Append(q, n)[Len(q) + 1] = n
      /\ \A i \in 1..Len(q) : Append(q, n)[i] = q[i]
      /\ Len(q) \in Nat /\ DOMAIN q = 1..Len(q) /\ DOMAIN Append(q, n) = 1..Len(q) + 1
  BY AppendProperties, LenProperties
<1>2. \A i \in 1..Len(q) + 1 : i \in 1..Len(q) \/ i = Len(q) + 1
  BY <1>1
<1>3. \A p \in Seq(S) : n \notin Logs!ToSet(p) => \A i \in 1..Len(p) : p[i] \in S /\ p[i] < n
  <2>1. ASSUME NEW p \in Seq(S), n \notin Logs!ToSet(p), NEW i \in 1..Len(p) PROVE p[i] \in S /\ p[i] < n
    <3>1. p[i] \in S /\ DOMAIN p = 1..Len(p)
      BY ElementOfSeq, LenProperties
    <3> QED BY <2>1, <3>1 DEF Logs!ToSet
  <2> QED BY <2>1
<1>4. \A i \in 1..Len(q) : q[i] < n
  BY <1>3
<1>5. ASSUME Logs!Ascending(q) PROVE Logs!Ascending(Append(q, n))
  <2> SUFFICES ASSUME NEW i \in 1..Len(q) + 1, NEW j \in 1..Len(q) + 1, i < j PROVE Append(q, n)[i] < Append(q, n)[j]
    BY <1>1 DEF Logs!Ascending
  <2>1. i \in 1..Len(q)
    BY <1>1
  <2>2. CASE j \in 1..Len(q)
    BY <1>1, <1>5, <2>1, <2>2 DEF Logs!Ascending
  <2>3. CASE j = Len(q) + 1
    BY <1>1, <1>4, <2>1, <2>3
  <2> QED BY <1>2, <2>2, <2>3
<1>6. ASSUME NEW p \in Seq(S), n \notin Logs!ToSet(p), Before(p, q) PROVE Before(p, Append(q, n))
  BY <1>1, <1>2, <1>3, <1>6 DEF Before
<1>7. Logs!ToSet(Append(q, n)) = Logs!ToSet(q) \cup {n}
  <2> DEFINE a == Append(q, n)
  <2>1. DOMAIN a = 1..Len(q) + 1 /\ a[Len(q) + 1] = n /\ \A i \in 1..Len(q) : a[i] = q[i]
    BY <1>1
  <2> HIDE DEF a
  <2>2. Logs!ToSet(a) = Logs!ToSet(q) \cup {n}
    <3>1. \A i \in 1..Len(q) : i \in 1..Len(q) + 1
      BY <1>1
    <3>2. Len(q) + 1 \in 1..Len(q) + 1
      BY <1>1
    <3> QED BY <1>1, <1>2, <2>1, <3>1, <3>2 DEF Logs!ToSet
  <2> QED BY <2>2 DEF a
<1> QED BY <1>1, <1>5, <1>6, <1>7

\* and how many the last of one are.
LEMMA LastLines ==
    ASSUME NEW q \in Seq(Nat), Logs!Ascending(q), NEW k \in 0..Len(q)
    PROVE  LET T == {q[j] : j \in k + 1 .. Len(q)} IN IsFiniteSet(T) /\ Cardinality(T) = Len(q) - k
<1> DEFINE T == {q[j] : j \in k + 1 .. Len(q)}
           f == [j \in k + 1 .. Len(q) |-> q[j]]
<1>1. Len(q) \in Nat /\ DOMAIN q = 1..Len(q) /\ \A j \in 1..Len(q) : q[j] \in Nat
  BY LenProperties, ElementOfSeq
<1>2. \A i, j \in k + 1 .. Len(q) : i # j => q[i] # q[j]
  <2>1. \A i, j \in 1..Len(q) : i < j => q[i] < q[j]
    BY <1>1 DEF Logs!Ascending
  <2>2. \A i, j \in 1..Len(q) : i # j => q[i] # q[j]
    BY <1>1, <2>1
  <2> QED BY <1>1, <2>2
<1>3. f \in Bijection(k + 1 .. Len(q), T)
  <2>1. f \in [k + 1 .. Len(q) -> T] /\ \A j \in k + 1 .. Len(q) : f[j] = q[j]
    OBVIOUS
  <2>2. IsInjective(f)
    BY <1>2, <2>1 DEF IsInjective
  <2>3. \A t \in T : \E j \in k + 1 .. Len(q) : f[j] = t
    BY <2>1
  <2> HIDE DEF f, T
  <2> QED BY <2>1, <2>2, <2>3 DEF Bijection, Injection, Surjection
<1>4. ExistsBijection(k + 1 .. Len(q), T)
  BY <1>3 DEF ExistsBijection
<1>5. IsFiniteSet(k + 1 .. Len(q)) /\ Cardinality(k + 1 .. Len(q)) = Len(q) - k
  <2> HIDE DEF f, T
  <2>1. k \in Nat /\ k <= Len(q) /\ k + 1 \in Int /\ Len(q) \in Int
    BY <1>1
  <2>2. /\ IsFiniteSet(k + 1 .. Len(q))
        /\ Cardinality(k + 1 .. Len(q)) = IF k + 1 > Len(q) THEN 0 ELSE Len(q) - (k + 1) + 1
    BY <2>1, FS_Interval
  <2> QED BY <2>1, <2>2
<1> HIDE DEF T
<1>6. IsFiniteSet(T) /\ Cardinality(T) = Len(q) - k
  BY <1>4, <1>5, FS_Bijection
<1> QED BY <1>6 DEF T

LEMMA ConcatBefore ==
    ASSUME NEW S, S \subseteq Nat, NEW p \in Seq(S), NEW q \in Seq(S), NEW r \in Seq(S), Before(p, r), Before(q, r)
    PROVE  Before(p \o q, r)
<1>1. /\ Len(p) \in Nat /\ Len(q) \in Nat /\ Len(p \o q) = Len(p) + Len(q)
      /\ \A i \in 1 .. Len(p) + Len(q) : (p \o q)[i] = IF i <= Len(p) THEN p[i] ELSE q[i - Len(p)]
  BY ConcatProperties, LenProperties
<1> SUFFICES ASSUME NEW i \in 1..Len(p) + Len(q), NEW j \in 1..Len(r) PROVE (p \o q)[i] < r[j]
  BY <1>1 DEF Before
<1>2. CASE i <= Len(p)
  <2>1. i \in 1..Len(p) /\ (p \o q)[i] = p[i]
    BY <1>1, <1>2
  <2> QED BY <2>1 DEF Before
<1>3. CASE i > Len(p)
  <2>1. i - Len(p) \in 1..Len(q) /\ (p \o q)[i] = q[i - Len(p)]
    BY <1>1, <1>3
  <2> QED BY <2>1 DEF Before
<1> QED BY <1>1, <1>2, <1>3

\* Nothing is before or after the empty sequence.
LEMMA NoLines ==
    /\ Len(<<>>) = 0 /\ Logs!ToSet(<<>>) = {} /\ Logs!Ascending(<<>>)
    /\ \A S : <<>> \in Seq(S)
    /\ \A q : Before(<<>>, q) /\ Before(q, <<>>)
<1>1. Len(<<>>) = 0 /\ DOMAIN <<>> = {} /\ 1..0 = {}
  OBVIOUS
<1>2. \A S : <<>> \in Seq(S)
  BY EmptySeq
<1>3. \A q : Before(<<>>, q) /\ Before(q, <<>>)
  BY <1>1 DEF Before
<1> QED BY <1>1, <1>2, <1>3 DEF Logs!ToSet, Logs!Ascending

\* A line that the logger takes, or does not.
LEMMA LineTaken ==
    ASSUME LogsInv, logged' = logged + 1, UNCHANGED <<logFile, stderr, flushed>>,
           \/ buffer' = Append(buffer, logged') /\ accepted' = accepted \cup {logged'}
           \/ UNCHANGED <<buffer, accepted>>
    PROVE  LinesInv'
<1>1. /\ logged \in Nat /\ Lines \subseteq Lines' /\ Lines' \subseteq Nat /\ logged' \in Lines' /\ logged' \notin Lines
      /\ \A x \in Lines' \ {logged'} : x < logged'
  BY DEF LogsInv, Lines
<1>2. /\ logFile \in Seq(Lines') /\ stderr \in Seq(Lines') /\ flushed \in Seq(Lines') /\ buffer \in Seq(Lines')
  BY <1>1, SeqMonotonic DEF LogsInv, LinesInv
<1>3. CASE UNCHANGED <<buffer, accepted>>
  BY <1>1, <1>2, <1>3 DEF LogsInv, LinesInv, Covered, Before
<1>4. CASE buffer' = Append(buffer, logged') /\ accepted' = accepted \cup {logged'}
  <2>1. logged' \notin accepted /\ accepted \subseteq Lines'
    BY <1>1 DEF LogsInv, LinesInv
  <2>2. /\ logged' \notin Logs!ToSet(logFile) /\ logged' \notin Logs!ToSet(stderr)
        /\ logged' \notin Logs!ToSet(flushed) /\ logged' \notin Logs!ToSet(buffer)
    BY <2>1 DEF LogsInv, LinesInv, Covered
  <2>3. /\ buffer' \in Seq(Lines') /\ Len(buffer') = Len(buffer) + 1
        /\ Logs!ToSet(buffer') = Logs!ToSet(buffer) \cup {logged'}
        /\ Logs!Ascending(buffer')
        /\ Before(logFile, buffer') /\ Before(stderr, buffer') /\ Before(flushed, buffer')
    <3> DEFINE S == Lines'
    <3>1. S \subseteq Nat /\ logged' \in S /\ \A x \in S \ {logged'} : x < logged'
      BY <1>1
    <3>2. logFile \in Seq(S) /\ stderr \in Seq(S) /\ flushed \in Seq(S) /\ buffer \in Seq(S)
      BY <1>2
    <3>3. /\ Logs!Ascending(buffer) /\ Before(logFile, buffer) /\ Before(stderr, buffer) /\ Before(flushed, buffer)
      BY DEF LogsInv, LinesInv
    <3> HIDE DEF S
    <3>4. /\ Append(buffer, logged') \in Seq(S) /\ Len(Append(buffer, logged')) = Len(buffer) + 1
          /\ Logs!ToSet(Append(buffer, logged')) = Logs!ToSet(buffer) \cup {logged'}
          /\ Logs!Ascending(buffer) => Logs!Ascending(Append(buffer, logged'))
          /\ \A p \in Seq(S) : logged' \notin Logs!ToSet(p) /\ Before(p, buffer) => Before(p, Append(buffer, logged'))
      BY <2>2, <3>1, <3>2, AppendLine
    <3>5. /\ Before(logFile, buffer') /\ Before(stderr, buffer') /\ Before(flushed, buffer')
      BY <1>4, <2>2, <3>2, <3>3, <3>4
    <3>6. /\ buffer' \in Seq(S) /\ Len(buffer') = Len(buffer) + 1
          /\ Logs!ToSet(buffer') = Logs!ToSet(buffer) \cup {logged'}
          /\ Logs!Ascending(buffer')
      BY <1>4, <3>3, <3>4
    <3> QED BY <3>5, <3>6 DEF S
  <2>4. Cardinality(accepted') = Cardinality(accepted) + 1
    <3>1. IsFiniteSet(Lines)
      BY <1>1, FS_Interval DEF Lines
    <3>2. IsFiniteSet(accepted)
      BY <3>1, FS_Subset DEF LogsInv, LinesInv
    <3> QED BY <1>4, <2>1, <3>2, FS_AddElement
  <2>5. accepted' = Covered'
    BY <1>4, <2>3 DEF LogsInv, LinesInv, Covered
  <2>6. Cardinality(accepted') = Len(logFile') + Len(stderr') + Len(flushed') + Len(buffer')
    BY <1>2, <2>3, <2>4, LenProperties DEF LogsInv, LinesInv
  <2>7. accepted' \subseteq Lines'
    BY <1>1, <1>4, <2>1
  <2>8. /\ logFile' \in Seq(Lines') /\ stderr' \in Seq(Lines') /\ flushed' \in Seq(Lines') /\ Logs!Ascending(logFile')
        /\ Logs!Ascending(stderr') /\ Logs!Ascending(flushed') /\ Before(logFile', flushed') /\ Before(stderr', flushed')
    BY <1>2 DEF LogsInv, LinesInv
  <2>9. Before(logFile', buffer') /\ Before(stderr', buffer') /\ Before(flushed', buffer')
    BY <2>3 DEF Before
  <2> QED BY <2>3, <2>5, <2>6, <2>7, <2>8, <2>9 DEF LinesInv
<1> QED BY <1>3, <1>4

\* The buffer becomes the flush in progress,
LEMMA LinesSwapped ==
    ASSUME LogsInv, flushed = <<>>, UNCHANGED <<logged, accepted, logFile, stderr>>, flushed' = buffer, buffer' = <<>>
    PROVE  LinesInv'
  BY NoLines, LenProperties DEF LogsInv, LinesInv, Covered, Lines, Before

\* and its lines go to the end of the file or of stderr.
LEMMA LinesWritten ==
    ASSUME LogsInv, UNCHANGED <<logged, accepted, buffer>>, flushed' = <<>>,
           \/ logFile' = logFile \o flushed /\ stderr' = stderr
           \/ stderr' = stderr \o flushed /\ logFile' = logFile
    PROVE  LinesInv'
<1>1. Lines \subseteq Nat /\ Lines' = Lines /\ buffer' = buffer /\ accepted' = accepted /\ flushed' = <<>>
  BY DEF LogsInv, Lines
<1>2. ASSUME NEW p, NEW q, p \in Seq(Lines), Logs!Ascending(p), Before(p, flushed), Before(p, buffer), q = p \o flushed
      PROVE  /\ q \in Seq(Lines) /\ Logs!Ascending(q) /\ Before(q, <<>>) /\ Before(q, buffer)
             /\ Len(q) = Len(p) + Len(flushed) /\ Logs!ToSet(q) = Logs!ToSet(p) \cup Logs!ToSet(flushed)
  <2>1. Lines \subseteq Nat /\ flushed \in Seq(Lines) /\ buffer \in Seq(Lines) /\ Logs!Ascending(flushed) /\ Before(flushed, buffer)
    BY <1>1 DEF LogsInv, LinesInv
  <2> HIDE DEF Lines
  <2>2. q \in Seq(Lines) /\ Len(q) = Len(p) + Len(flushed) /\ Logs!ToSet(q) = Logs!ToSet(p) \cup Logs!ToSet(flushed)
    <3>1. Lines \subseteq Nat /\ p \in Seq(Lines) /\ flushed \in Seq(Lines) /\ q = p \o flushed
      BY <1>2, <2>1
    <3> QED BY ONLY <3>1, ConcatHolds, ZenonT(60)
  <2>4. Logs!Ascending(q)
    <3>1. /\ Lines \subseteq Nat /\ p \in Seq(Lines) /\ flushed \in Seq(Lines) /\ q = p \o flushed
          /\ Logs!Ascending(p) /\ Logs!Ascending(flushed) /\ Before(p, flushed)
      BY <1>2, <2>1
    <3> QED BY ONLY <3>1, ConcatAscends, ZenonT(60)
  <2>3. Before(q, buffer)
    BY <1>2, <2>1, ConcatBefore
  <2> QED BY <2>2, <2>3, <2>4, NoLines
<1>3. CASE logFile' = logFile \o flushed /\ stderr' = stderr
  <2>1. /\ logFile' \in Seq(Lines) /\ Logs!Ascending(logFile') /\ Before(logFile', <<>>) /\ Before(logFile', buffer)
        /\ Len(logFile') = Len(logFile) + Len(flushed) /\ Logs!ToSet(logFile') = Logs!ToSet(logFile) \cup Logs!ToSet(flushed)
    BY <1>2, <1>3 DEF LogsInv, LinesInv
  <2> QED BY <1>1, <1>3, <2>1, NoLines, LenProperties DEF LogsInv, LinesInv, Covered, Before
<1>4. CASE stderr' = stderr \o flushed /\ logFile' = logFile
  <2>1. /\ stderr' \in Seq(Lines) /\ Logs!Ascending(stderr') /\ Before(stderr', <<>>) /\ Before(stderr', buffer)
        /\ Len(stderr') = Len(stderr) + Len(flushed) /\ Logs!ToSet(stderr') = Logs!ToSet(stderr) \cup Logs!ToSet(flushed)
    BY <1>2, <1>4 DEF LogsInv, LinesInv
  <2> QED BY <1>1, <1>4, <2>1, NoLines, LenProperties DEF LogsInv, LinesInv, Covered, Before
<1> QED BY <1>3, <1>4

\* What only the number of entries so far changes.
LEMMA LinesGrow ==
    ASSUME LogsInv, logged' \in {logged, logged + 1}
    PROVE  /\ logged' \in Nat /\ Lines \subseteq Lines' /\ Lines' \subseteq Nat /\ logged + 1 \notin Lines
           /\ \A q \in Seq(Lines) : q \in Seq(Lines')
<1>1. logged' \in Nat /\ Lines \subseteq Lines' /\ Lines' \subseteq Nat /\ logged + 1 \notin Lines
  BY DEF LogsInv, Lines
<1> QED BY <1>1, SeqMonotonic

LEMMA StreamsStay ==
    ASSUME LogsInv, logged' \in {logged, logged + 1}, UNCHANGED <<streamed, streamFile, streamBuffer, streamLost, streamClosed>>
    PROVE  StreamInv'
  BY LinesGrow DEF LogsInv, StreamInv, Before

LEMMA StreamTaken ==
    ASSUME LogsInv, NEW stream \in Logs!Streams, Logs!Streamed(stream), UNCHANGED <<streamFile, streamLost, streamClosed>>
    PROVE  StreamInv'
<1> DEFINE S == Lines'
<1>1. /\ logged' = logged + 1 /\ ~streamClosed /\ logged' \in S /\ S \subseteq Nat /\ \A x \in S \ {logged'} : x < logged'
      /\ Lines \subseteq S /\ \A q \in Seq(Lines) : q \in Seq(S)
  BY LinesGrow DEF Logs!Streamed, LogsInv, Lines
<1>2. /\ DOMAIN streamed = Logs!Streams /\ DOMAIN streamBuffer = Logs!Streams
      /\ streamed[stream] \subseteq Lines /\ streamFile[stream] \in Seq(Lines) /\ streamBuffer[stream] \in Seq(Lines)
      /\ streamed[stream] = Logs!ToSet(streamFile[stream]) \cup Logs!ToSet(streamBuffer[stream]) \cup streamLost[stream]
      /\ Logs!Ascending(streamBuffer[stream]) /\ Before(streamFile[stream], streamBuffer[stream])
  BY DEF LogsInv, StreamInv
<1>3. logged' \notin Logs!ToSet(streamFile[stream]) /\ logged' \notin Logs!ToSet(streamBuffer[stream])
  BY <1>1, <1>2, LinesGrow
<1>4. /\ Append(streamBuffer[stream], logged') \in Seq(S)
      /\ Logs!ToSet(Append(streamBuffer[stream], logged')) = Logs!ToSet(streamBuffer[stream]) \cup {logged'}
      /\ Logs!Ascending(Append(streamBuffer[stream], logged'))
      /\ Before(streamFile[stream], Append(streamBuffer[stream], logged'))
  <2>1. streamBuffer[stream] \in Seq(S) /\ streamFile[stream] \in Seq(S)
    BY <1>1, <1>2
  <2> HIDE DEF S
  <2>2. /\ Append(streamBuffer[stream], logged') \in Seq(S)
        /\ Logs!ToSet(Append(streamBuffer[stream], logged')) = Logs!ToSet(streamBuffer[stream]) \cup {logged'}
        /\ Logs!Ascending(streamBuffer[stream]) => Logs!Ascending(Append(streamBuffer[stream], logged'))
        /\ \A p \in Seq(S) : logged' \notin Logs!ToSet(p) /\ Before(p, streamBuffer[stream])
                                => Before(p, Append(streamBuffer[stream], logged'))
    BY <1>1, <1>3, <2>1, AppendLine
  <2> QED BY <1>2, <1>3, <2>1, <2>2
<1>5. /\ streamed' = [streamed EXCEPT ![stream] = @ \cup {logged'}]
      /\ streamBuffer' = [streamBuffer EXCEPT ![stream] = Append(@, logged')]
  BY DEF Logs!Streamed
<1>6. /\ streamed'[stream] = streamed[stream] \cup {logged'} /\ streamBuffer'[stream] = Append(streamBuffer[stream], logged')
      /\ \A s \in Logs!Streams \ {stream} : streamed'[s] = streamed[s] /\ streamBuffer'[s] = streamBuffer[s]
      /\ DOMAIN streamed' = Logs!Streams /\ DOMAIN streamBuffer' = Logs!Streams
  BY <1>2, <1>5
<1>7. streamed' \in [Logs!Streams -> SUBSET S]
  <2>1. \A s \in Logs!Streams : streamed'[s] \subseteq S
    <3>1. \A s \in Logs!Streams : streamed[s] \subseteq Lines
      BY DEF LogsInv, StreamInv
    <3> HIDE DEF S
    <3> QED BY <1>1, <1>6, <3>1
  <2> QED BY <1>5, <1>6, <2>1 DEF LogsInv, StreamInv
<1>8. streamBuffer' \in [Logs!Streams -> Seq(S)]
  <2>1. \A s \in Logs!Streams : streamBuffer'[s] \in Seq(S)
    BY <1>1, <1>4, <1>6 DEF LogsInv, StreamInv
  <2> HIDE DEF S
  <2> QED BY <1>5, <1>6, <2>1 DEF LogsInv, StreamInv
<1>9. streamFile' \in [Logs!Streams -> Seq(S)]
  BY <1>1 DEF LogsInv, StreamInv
<1>10. ASSUME NEW s \in Logs!Streams
       PROVE  /\ streamed'[s] = Logs!ToSet(streamFile[s]) \cup Logs!ToSet(streamBuffer'[s]) \cup streamLost[s]
              /\ Logs!Ascending(streamFile[s]) /\ Logs!Ascending(streamBuffer'[s]) /\ Before(streamFile[s], streamBuffer'[s])
  BY <1>2, <1>4, <1>6 DEF LogsInv, StreamInv
<1>11. ~streamClosed' /\ streamFile' = streamFile /\ streamLost' = streamLost
  BY <1>1
<1> QED BY <1>7, <1>8, <1>9, <1>10, <1>11 DEF StreamInv, LogsInv, Before

LEMMA StreamsWritten ==
    ASSUME LogsInv, Logs!WriteStreams, UNCHANGED <<logged, streamed>>
    PROVE  StreamInv'
<1>1. PICK written \in SUBSET Logs!Streams :
        /\ streamFile' = [s \in Logs!Streams |-> IF s \in written THEN streamFile[s] \o streamBuffer[s] ELSE streamFile[s]]
        /\ streamLost' = [s \in Logs!Streams |->
                            IF s \in written THEN streamLost[s] ELSE streamLost[s] \cup Logs!ToSet(streamBuffer[s])]
        /\ streamBuffer' = [s \in Logs!Streams |-> <<>>]
  BY DEF Logs!WriteStreams
<1>2. Lines' = Lines /\ Lines \subseteq Nat
  BY DEF Lines, LogsInv
<1>3. \A s \in Logs!Streams :
        /\ streamFile[s] \in Seq(Lines) /\ streamBuffer[s] \in Seq(Lines)
        /\ streamed[s] = Logs!ToSet(streamFile[s]) \cup Logs!ToSet(streamBuffer[s]) \cup streamLost[s]
        /\ Logs!Ascending(streamFile[s]) /\ Logs!Ascending(streamBuffer[s]) /\ Before(streamFile[s], streamBuffer[s])
  BY DEF LogsInv, StreamInv
<1> HIDE DEF Lines
<1>4. ASSUME NEW s \in Logs!Streams
      PROVE  /\ streamFile[s] \o streamBuffer[s] \in Seq(Lines) /\ Logs!Ascending(streamFile[s] \o streamBuffer[s])
             /\ Logs!ToSet(streamFile[s] \o streamBuffer[s]) = Logs!ToSet(streamFile[s]) \cup Logs!ToSet(streamBuffer[s])
  <2>1. /\ streamFile[s] \in Seq(Lines) /\ streamBuffer[s] \in Seq(Lines)
        /\ Logs!Ascending(streamFile[s]) /\ Logs!Ascending(streamBuffer[s]) /\ Before(streamFile[s], streamBuffer[s])
    BY <1>3
  <2> QED BY <1>2, <2>1, ConcatLines
<1>5. ASSUME NEW s \in Logs!Streams
      PROVE  /\ streamFile'[s] \in Seq(Lines) /\ streamBuffer'[s] = <<>> /\ Logs!Ascending(streamFile'[s])
             /\ streamed[s] = Logs!ToSet(streamFile'[s]) \cup streamLost'[s]
  <2>1. CASE s \in written
    BY <1>1, <1>3, <1>4, <2>1
  <2>2. CASE s \notin written
    BY <1>1, <1>3, <2>2
  <2> QED BY <2>1, <2>2
<1>6. /\ streamFile' \in [Logs!Streams -> Seq(Lines)] /\ streamBuffer' \in [Logs!Streams -> Seq(Lines)]
      /\ DOMAIN streamLost' = Logs!Streams
  BY <1>1, <1>5, NoLines
<1>7. ASSUME NEW s \in Logs!Streams
      PROVE  /\ streamed[s] = Logs!ToSet(streamFile'[s]) \cup Logs!ToSet(streamBuffer'[s]) \cup streamLost'[s]
             /\ Logs!Ascending(streamBuffer'[s]) /\ Before(streamFile'[s], streamBuffer'[s])
  BY <1>5, NoLines
<1> QED BY <1>2, <1>5, <1>6, <1>7 DEF StreamInv, LogsInv, Before

\* Memory takes an entry, and lets the oldest go when there are too many.
LEMMA EntryRetained ==
    ASSUME LogsInv, logged' = logged + 1, retained' = Logs!LastOnes(Append(retained, logged')),
           streamed'["structured"] = streamed["structured"] \cup {logged'}
    PROVE  RetainedInv'
<1> DEFINE S == Lines'
           q == Append(retained, logged')
<1>1. /\ logged' \in S /\ S \subseteq Nat /\ (\A x \in S \ {logged'} : x < logged') /\ logged' \notin Lines /\ Lines \subseteq Nat
      /\ retained \in Seq(S) /\ retained \in Seq(Lines) /\ Logs!Ascending(retained) /\ MaxRetained \in Nat
      /\ Logs!ToSet(retained) \subseteq streamed["structured"] /\ streamed["structured"] \subseteq Lines /\ Lines \subseteq S
      /\ Len(retained) \in Nat /\ Len(retained) <= MaxRetained
  BY LinesGrow, LogFacts, LenProperties DEF LogsInv, Lines, RetainedInv, StreamInv, Logs!Streams
<1>2. /\ q \in Seq(S) /\ Len(q) = Len(retained) + 1 /\ Logs!ToSet(q) = Logs!ToSet(retained) \cup {logged'} /\ Logs!Ascending(q)
  <2> HIDE DEF S
  <2> QED BY <1>1, AppendLine
<1>3. /\ \A i \in 1..Len(retained) : q[i] = retained[i] /\ q[i] \in Logs!ToSet(retained)
      /\ DOMAIN q = 1..Len(q) /\ DOMAIN retained = 1..Len(retained) /\ q # <<>> /\ q[Len(retained) + 1] = logged'
      /\ \A i \in 1..Len(q) : q[i] \in S
  <2>1. /\ DOMAIN q = 1..Len(q) /\ DOMAIN retained = 1..Len(retained) /\ \A i \in 1..Len(q) : q[i] \in S
    BY <1>1, <1>2, LenProperties, ElementOfSeq
  <2>2. q # <<>> /\ q[Len(retained) + 1] = logged' /\ \A i \in 1..Len(retained) : q[i] = retained[i]
    BY <1>1, AppendProperties
  <2> QED BY <2>1, <2>2 DEF Logs!ToSet
<1>4. \A e \in streamed["structured"] \ Logs!ToSet(retained) :
        Len(retained) = MaxRetained /\ \A i \in 1..Len(q) : e < q[i]
  <2>1. \A e \in streamed["structured"] : e < logged'
    BY <1>1
  <2>2. \A i \in 1..Len(q) : i \in 1..Len(retained) \/ i = Len(retained) + 1
    BY <1>1, <1>2
  <2> QED BY <1>3, <2>1, <2>2 DEF LogsInv, RetainedInv
<1> HIDE DEF q, S
<1>5. CASE Len(q) <= MaxRetained
  <2>1. retained' = q
    BY <1>1, <1>2, <1>5 DEF Logs!LastOnes, q
  <2>2. Logs!ToSet(q) \subseteq streamed'["structured"] /\ streamed'["structured"] \ Logs!ToSet(q) = {}
    <3>1. \A e \in streamed["structured"] : e \in Logs!ToSet(retained)
      BY <1>1, <1>2, <1>4, <1>5
    <3> QED BY <1>1, <1>2, <3>1
  <2>3. /\ q \in Seq(Lines') /\ Len(q) <= MaxRetained /\ Logs!Ascending(q)
    BY <1>2, <1>5 DEF S
  <2> QED BY <2>1, <2>2, <2>3 DEF RetainedInv
<1>6. CASE Len(q) > MaxRetained
  <2> DEFINE t == Tail(q)
  <2>1. retained' = t /\ Len(retained) = MaxRetained
    BY <1>1, <1>2, <1>6 DEF Logs!LastOnes, q
  <2>2. t \in Seq(S) /\ Len(t) = Len(retained) /\ (\A i \in 1..Len(t) : t[i] = q[i + 1]) /\ DOMAIN t = 1..Len(t)
    BY <1>1, <1>2, <1>3, HeadTailProperties, LenProperties
  <2> HIDE DEF t
  <2>3. \A i \in 1..Len(t) : i + 1 \in 1..Len(q) /\ 1 \in 1..Len(q) /\ q[1] < q[i + 1]
    <3>1. \A i \in 1..Len(t) : i + 1 \in 1..Len(q) /\ 1 \in 1..Len(q) /\ 1 < i + 1
      BY <1>1, <1>2, <2>2
    <3> QED BY <1>2, <1>3, <3>1 DEF Logs!Ascending
  <2>4. Logs!Ascending(t)
    <3> SUFFICES ASSUME NEW i \in 1..Len(t), NEW j \in 1..Len(t), i < j PROVE t[i] < t[j]
      BY <2>2 DEF Logs!Ascending
    <3>1. i + 1 \in DOMAIN q /\ j + 1 \in DOMAIN q /\ i + 1 < j + 1 /\ t[i] = q[i + 1] /\ t[j] = q[j + 1]
      BY <1>3, <2>2, <2>3
    <3> QED BY <1>2, <3>1 DEF Logs!Ascending
  <2>5. \A x : x \in Logs!ToSet(t) <=> \E i \in 1..Len(t) : x = q[i + 1]
    BY <2>2 DEF Logs!ToSet
  <2>6. \A x \in Logs!ToSet(q) : x = q[1] \/ x \in Logs!ToSet(t)
    <3>1. ASSUME NEW x \in Logs!ToSet(q), x # q[1] PROVE x \in Logs!ToSet(t)
      <4>1. PICK i \in 1..Len(q) : x = q[i]
        BY <1>3 DEF Logs!ToSet
      <4>2. i # 1 /\ i - 1 \in 1..Len(t) /\ (i - 1) + 1 = i
        BY <1>1, <1>2, <2>2, <3>1, <4>1
      <4> QED BY <2>5, <4>1, <4>2
    <3> QED BY <3>1
  <2>7. Logs!ToSet(t) \subseteq Logs!ToSet(q)
    BY <1>3, <2>3, <2>5 DEF Logs!ToSet
  <2>8. ASSUME NEW e \in streamed'["structured"] \ Logs!ToSet(t), NEW i \in 1..Len(t) PROVE e < t[i]
    <3>1. e = q[1] \/ e \in streamed["structured"] \ Logs!ToSet(retained)
      BY <1>1, <1>2, <2>6, <2>8
    <3>2. t[i] = q[i + 1] /\ i + 1 \in 1..Len(q) /\ q[1] < q[i + 1]
      BY <2>2, <2>3
    <3> QED BY <1>4, <3>1, <3>2
  <2>9. Logs!ToSet(t) \subseteq streamed'["structured"] /\ t \in Seq(Lines')
    BY <1>1, <1>2, <2>2, <2>7 DEF S
  <2> QED BY <1>1, <2>1, <2>2, <2>4, <2>8, <2>9 DEF RetainedInv
<1> QED BY <1>1, <1>2, <1>5, <1>6

LEMMA RetainedStays ==
    ASSUME LogsInv, logged' \in {logged, logged + 1}, retained' = retained,
           streamed'["structured"] = streamed["structured"]
    PROVE  RetainedInv'
  BY LinesGrow DEF LogsInv, RetainedInv

LEMMA LinesStay ==
    ASSUME LogsInv, logged' \in {logged, logged + 1}, UNCHANGED <<logFile, stderr, flushed, buffer, accepted>>
    PROVE  LinesInv'
  BY LinesGrow DEF LogsInv, LinesInv, Covered, Before

LEMMA LogsInitInv == Logs!LogsInit => LogsInv
<1> SUFFICES ASSUME Logs!LogsInit PROVE LogsInv
  OBVIOUS
<1>1. /\ logged = 0 /\ retained = <<>> /\ accepted = {} /\ buffer = <<>> /\ flushed = <<>> /\ logFile = <<>> /\ stderr = <<>>
      /\ streamed = [s \in Logs!Streams |-> {}] /\ streamLost = streamed /\ closing = "open"
      /\ streamBuffer = [s \in Logs!Streams |-> <<>>] /\ streamFile = streamBuffer
  BY DEF Logs!LogsInit
<1>2. LinesInv
  BY <1>1, NoLines, FS_EmptySet DEF LinesInv, Covered
<1>3. StreamInv
  BY <1>1, NoLines DEF StreamInv
<1>4. RetainedInv
  BY <1>1, NoLines, LogFacts DEF RetainedInv, Logs!Streams
<1>5. CloseInv
  BY <1>1 DEF CloseInv, Logs!ClosedIsWritten
<1> QED BY <1>1, <1>2, <1>3, <1>4, <1>5 DEF LogsInv

LEMMA LogsStep == ASSUME LogsInv, [Logs!LogsNext]_logVars PROVE LogsInv'
<1>0. logged \in Nat /\ "structured" \in Logs!Streams /\ "audit" \in Logs!Streams /\ "structured" # "audit"
      /\ DOMAIN streamed = Logs!Streams
  BY DEF LogsInv, StreamInv, Logs!Streams
<1>1. ASSUME NEW passes \in BOOLEAN, Logs!Log(passes) PROVE LogsInv'
  <2>1. /\ Logs!Streamed("structured") /\ retained' = Logs!LastOnes(Append(retained, logged')) /\ Logs!Takes(logged', passes)
        /\ UNCHANGED <<streamFile, streamLost, streamClosed, flushed, tries, logFile, stderr, closing, behind>>
    BY <1>1 DEF Logs!Log
  <2>2. logged' = logged + 1 /\ streamed'["structured"] = streamed["structured"] \cup {logged'}
    BY <1>0, <2>1 DEF Logs!Streamed
  <2>3. CASE passes /\ closing = "open"
    BY <1>0, <2>1, <2>2, <2>3, StreamTaken, EntryRetained, LineTaken DEF Logs!Takes, LogsInv, CloseInv, Logs!ClosedIsWritten
  <2>4. CASE ~(passes /\ closing = "open")
    BY <1>0, <2>1, <2>2, <2>4, StreamTaken, EntryRetained, LineTaken DEF Logs!Takes, LogsInv, CloseInv, Logs!ClosedIsWritten
  <2> QED BY <2>3, <2>4
<1>2. CASE Logs!AuditACPMessage
  <2>1. /\ Logs!Streamed("audit") /\ UNCHANGED <<retained, buffer, accepted>>
        /\ UNCHANGED <<streamFile, streamLost, streamClosed, flushed, tries, logFile, stderr, closing, behind>>
    BY <1>2 DEF Logs!AuditACPMessage
  <2>2. logged' = logged + 1 /\ streamed'["structured"] = streamed["structured"]
    BY <1>0, <2>1 DEF Logs!Streamed
  <2> QED BY <1>0, <2>1, <2>2, StreamTaken, RetainedStays, LinesStay DEF LogsInv, CloseInv, Logs!ClosedIsWritten
<1>3. CASE Logs!LogDirectly
  <2>1. /\ logged' = logged + 1 /\ Logs!Takes(logged', TRUE)
        /\ UNCHANGED <<streamed, retained, streamBuffer, streamFile, streamLost, streamClosed, flushed, tries, logFile, stderr,
                       closing, behind>>
    BY <1>3 DEF Logs!LogDirectly, Logs!structured
  <2>2. StreamInv' /\ RetainedInv'
    BY <1>0, <2>1, StreamsStay, RetainedStays
  <2>3. LinesInv' /\ CloseInv'
    BY <2>1, LineTaken DEF Logs!Takes, LogsInv, CloseInv, Logs!ClosedIsWritten
  <2> QED BY <1>0, <2>1, <2>2, <2>3 DEF LogsInv
<1>4. CASE Logs!FlushStreams \/ Logs!CloseStreams
  <2>1. /\ Logs!WriteStreams
        /\ UNCHANGED <<logged, streamed, retained, accepted, buffer, flushed, tries, logFile, stderr, closing, behind>>
    BY <1>4 DEF Logs!FlushStreams, Logs!CloseStreams
  <2> QED BY <2>1, StreamsWritten, RetainedStays, LinesStay DEF LogsInv, CloseInv, Logs!ClosedIsWritten
<1>5. ASSUME UNCHANGED <<logged, Logs!structured>> PROVE logged' \in Nat /\ StreamInv' /\ RetainedInv'
  BY <1>0, <1>5, StreamsStay, RetainedStays DEF Logs!structured
<1>6. CASE Logs!StartFlush
  <2>1. /\ UNCHANGED <<logged, Logs!structured>> /\ flushed = <<>> /\ flushed' = buffer /\ buffer' = <<>> /\ closing = "open"
        /\ UNCHANGED <<accepted, logFile, stderr, closing, behind>>
    BY <1>6 DEF Logs!StartFlush, Logs!Free, Logs!Swap
  <2> QED BY <1>5, <2>1, LinesSwapped DEF LogsInv, CloseInv, Logs!ClosedIsWritten
<1>7. CASE Logs!Close
  <2>1. /\ UNCHANGED <<logged, Logs!structured>> /\ closing = "open" /\ behind' = (flushed # <<>>)
        /\ UNCHANGED <<accepted, logFile, stderr>>
        /\ \/ /\ flushed = <<>> /\ flushed' = buffer /\ buffer' = <<>> /\ closing' = "flushing"
           \/ /\ flushed # <<>> \/ buffer = <<>>
              /\ closing' = "closed" /\ UNCHANGED <<buffer, flushed>>
    BY <1>7 DEF Logs!Close, Logs!LastFlush, Logs!Free, Logs!Swap
  <2>2. LinesInv'
    BY <2>1, LinesSwapped, LinesStay
  <2> QED BY <1>5, <2>1, <2>2 DEF LogsInv, CloseInv, Logs!ClosedIsWritten
<1>8. CASE Logs!Written \/ Logs!Failed
  <2>1. /\ UNCHANGED <<logged, Logs!structured>> /\ closing # "ended" /\ flushed # <<>> /\ UNCHANGED <<accepted, buffer, behind>>
        /\ \/ UNCHANGED <<flushed, stderr, logFile, closing>>
           \/ /\ flushed' = <<>> /\ closing' = IF closing = "flushing" THEN "closed" ELSE closing
              /\ \/ logFile' = logFile \o flushed /\ stderr' = stderr
                 \/ stderr' = stderr \o flushed /\ logFile' = logFile
    BY <1>8 DEF Logs!Written, Logs!Failed, Logs!FlushEnds, Logs!Running
  <2>2. LinesInv'
    BY <2>1, LinesWritten, LinesStay
  <2> QED BY <1>5, <2>1, <2>2 DEF LogsInv, CloseInv, Logs!ClosedIsWritten
<1>9. CASE Logs!End \/ UNCHANGED logVars
  <2>1. /\ UNCHANGED <<logged, Logs!structured>> /\ UNCHANGED <<accepted, buffer, flushed, logFile, stderr, behind>>
        /\ closing' = closing \/ (closing = "closed" /\ closing' = "ended")
    BY <1>9 DEF Logs!End, logVars, Logs!structured
  <2> QED BY <1>5, <2>1, LinesStay DEF LogsInv, CloseInv, Logs!ClosedIsWritten
<1> QED BY <1>1, <1>2, <1>3, <1>4, <1>6, <1>7, <1>8, <1>9 DEF Logs!LogsNext

\* Every line is in one place, once, and in order,
LEMMA LinesKept == ASSUME LogsInv PROVE Logs!EachLineOnce
<1>1. Lines \subseteq Nat /\ logFile \in Seq(Lines) /\ stderr \in Seq(Lines) /\ flushed \in Seq(Lines) /\ buffer \in Seq(Lines)
  BY DEF LogsInv, LinesInv, Lines
<1> HIDE DEF Lines
<1> DEFINE a == logFile \o stderr
           b == a \o flushed
           c == b \o buffer
<1>2. a \in Seq(Lines) /\ Len(a) = Len(logFile) + Len(stderr) /\ Logs!ToSet(a) = Logs!ToSet(logFile) \cup Logs!ToSet(stderr)
  BY <1>1, ConcatHolds, ZenonT(60)
<1> HIDE DEF a
<1>3. b \in Seq(Lines) /\ Len(b) = Len(a) + Len(flushed) /\ Logs!ToSet(b) = Logs!ToSet(a) \cup Logs!ToSet(flushed)
  <2>1. Lines \subseteq Nat /\ a \in Seq(Lines) /\ flushed \in Seq(Lines)
    BY <1>1, <1>2
  <2> QED BY <2>1, ConcatHolds, ZenonT(60)
<1> HIDE DEF b
<1>4. c \in Seq(Lines) /\ Len(c) = Len(b) + Len(buffer) /\ Logs!ToSet(c) = Logs!ToSet(b) \cup Logs!ToSet(buffer)
  <2>1. Lines \subseteq Nat /\ b \in Seq(Lines) /\ buffer \in Seq(Lines)
    BY <1>1, <1>3
  <2> QED BY <2>1, ConcatHolds, ZenonT(60)
<1> HIDE DEF c
<1>5. Logs!ToSet(c) = accepted /\ Len(c) = Cardinality(accepted)
  BY <1>1, <1>2, <1>3, <1>4, LenProperties DEF LogsInv, LinesInv, Covered
<1>6. Logs!Cardinality(accepted) = Cardinality(accepted)
  BY DEF Logs!Cardinality, Cardinality
<1>7. \A i \in DOMAIN <<logFile, stderr, flushed, buffer>> : Logs!Ascending(<<logFile, stderr, flushed, buffer>>[i])
  BY DEF LogsInv, LinesInv
<1>8. c = logFile \o stderr \o flushed \o buffer
  BY DEF a, b, c
<1> QED BY <1>5, <1>6, <1>7, <1>8 DEF Logs!EachLineOnce

\* memory keeps the last entries, and the files and buffers all that was not dropped.
LEMMA StreamsKept == ASSUME LogsInv PROVE Logs!StreamsComplete
<1> DEFINE S == streamed["structured"]
           later(e) == {f \in S : f > e}
<1>1. /\ Lines \subseteq Nat /\ S \subseteq Lines /\ IsFiniteSet(Lines) /\ MaxRetained \in Nat
      /\ retained \in Seq(Lines) /\ Logs!Ascending(retained) /\ Len(retained) <= MaxRetained /\ Logs!ToSet(retained) \subseteq S
      /\ \A e \in S \ Logs!ToSet(retained) : Len(retained) = MaxRetained /\ \A i \in 1..Len(retained) : e < retained[i]
  BY LogFacts, FS_Interval DEF LogsInv, StreamInv, RetainedInv, Lines, Logs!Streams
<1>2. retained \in Seq(Nat) /\ Len(retained) \in Nat /\ DOMAIN retained = 1..Len(retained)
  BY <1>1, SeqMonotonic, LenProperties
<1>10. Logs!Ascending(retained) /\ 0 \in 0..Len(retained) /\ \A i \in 1..Len(retained) : i \in 0..Len(retained) /\ i \in Nat /\ i >= 1
  <2>1. Logs!Ascending(retained)
    BY <1>1
  <2> HIDE DEF S, later
  <2>2. 0 \in 0..Len(retained) /\ \A i \in 1..Len(retained) : i \in 0..Len(retained) /\ i \in Nat /\ i >= 1
    BY <1>2
  <2> QED BY <2>1, <2>2
<1>3. \A e \in S : IsFiniteSet(later(e)) /\ Cardinality(later(e)) \in Nat
  <2>1. \A e \in S : later(e) \in SUBSET Lines
    BY <1>1
  <2> HIDE DEF later
  <2> QED BY <1>1, <2>1, FS_Subset, FS_CardinalityType
<1>4. \A x : x \in Logs!ToSet(retained) <=> \E i \in 1..Len(retained) : x = retained[i]
  BY <1>2 DEF Logs!ToSet
<1>5. ASSUME NEW e \in Logs!ToSet(retained) PROVE Cardinality(later(e)) < MaxRetained
  <2>1. PICK i \in 1..Len(retained) : e = retained[i]
    BY <1>4
  <2> DEFINE T == {retained[j] : j \in i + 1 .. Len(retained)}
  <2>2. IsFiniteSet(T) /\ Cardinality(T) = Len(retained) - i
    <3>1. retained \in Seq(Nat) /\ Logs!Ascending(retained) /\ i \in 0..Len(retained)
      BY <1>2, <1>10
    <3> QED BY <3>1, LastLines
  <2>3. \A f \in later(e) : f \in T
    <3>1. ASSUME NEW f \in S, f > e PROVE f \in T
      <4>1. f \in Logs!ToSet(retained)
        <5>1. e \in Nat /\ f \in Nat
          BY <1>1, <1>5, <3>1
        <5>2. f < e => FALSE
          BY <3>1, <5>1
        <5> QED BY <1>1, <2>1, <3>1, <5>2
      <4>2. PICK j \in 1..Len(retained) : f = retained[j]
        BY <1>4, <4>1
      <4>3. ~(j < i) /\ j # i
        <5>1. j < i => retained[j] < retained[i]
          BY <1>1, <1>2, <4>2 DEF Logs!Ascending
        <5>2. e \in Nat /\ f \in Nat
          BY <1>1, <1>5, <3>1
        <5> QED BY <2>1, <3>1, <4>2, <5>1, <5>2
      <4>4. j \in i + 1 .. Len(retained)
        BY <1>2, <4>3
      <4> QED BY <4>2, <4>4
    <3> QED BY <3>1
  <2> HIDE DEF T, later
  <2>4. Cardinality(later(e)) <= Cardinality(T)
    BY <2>2, <2>3, FS_Subset
  <2>5. e \in S
    BY <1>1, <1>5
  <2>6. Cardinality(later(e)) \in Nat
    BY <1>3, <2>5
  <2>7. Cardinality(later(e)) <= Len(retained) - i
    BY <2>2, <2>4
  <2>8. MaxRetained \in Nat /\ Len(retained) <= MaxRetained
    BY <1>1
  <2>9. i \in Nat /\ i >= 1
    BY <1>10
  <2> HIDE DEF S
  <2> QED BY <1>2, <2>6, <2>7, <2>8, <2>9
<1>6. ASSUME NEW e \in S \ Logs!ToSet(retained) PROVE ~(Cardinality(later(e)) < MaxRetained)
  <2> DEFINE T == {retained[j] : j \in 0 + 1 .. Len(retained)}
  <2>1. IsFiniteSet(T) /\ Cardinality(T) = Len(retained) - 0
    <3>1. retained \in Seq(Nat) /\ Logs!Ascending(retained) /\ 0 \in 0..Len(retained)
      BY <1>2, <1>10
    <3> QED BY <3>1, LastLines
  <2>2. T \subseteq later(e)
    <3>1. ASSUME NEW j \in 1..Len(retained) PROVE retained[j] \in S /\ retained[j] > e
      BY <1>1, <1>4, <1>6
    <3> QED BY <3>1
  <2> HIDE DEF T, later
  <2>3. Cardinality(T) <= Cardinality(later(e))
    BY <1>3, <1>6, <2>2, FS_Subset
  <2>4. Cardinality(later(e)) \in Nat /\ Len(retained) = MaxRetained
    BY <1>1, <1>3, <1>6
  <2>5. Len(retained) <= Cardinality(later(e))
    BY <1>2, <2>1, <2>3
  <2> QED BY <1>2, <2>4, <2>5
<1>7. Logs!ToSet(retained) = {e \in S : Cardinality(later(e)) < MaxRetained}
  <2> HIDE DEF later
  <2> QED BY <1>1, <1>5, <1>6
<1>8. \A e : Logs!Cardinality(later(e)) = Cardinality(later(e))
  BY DEF Logs!Cardinality, Cardinality
<1>9. ASSUME NEW s \in Logs!Streams
      PROVE  /\ streamed[s] = Logs!ToSet(streamFile[s] \o streamBuffer[s]) \cup streamLost[s]
             /\ Logs!Ascending(streamFile[s] \o streamBuffer[s])
             /\ streamClosed => streamBuffer[s] = <<>>
  <2>1. /\ streamFile[s] \in Seq(Lines) /\ streamBuffer[s] \in Seq(Lines)
        /\ Logs!Ascending(streamFile[s]) /\ Logs!Ascending(streamBuffer[s]) /\ Before(streamFile[s], streamBuffer[s])
        /\ streamed[s] = Logs!ToSet(streamFile[s]) \cup Logs!ToSet(streamBuffer[s]) \cup streamLost[s]
        /\ streamClosed => streamBuffer[s] = <<>>
    BY DEF LogsInv, StreamInv
  <2>2. Lines \subseteq Nat
    BY <1>1
  <2> HIDE DEF Lines
  <2>3. /\ Logs!ToSet(streamFile[s] \o streamBuffer[s]) = Logs!ToSet(streamFile[s]) \cup Logs!ToSet(streamBuffer[s])
        /\ Logs!Ascending(streamFile[s] \o streamBuffer[s])
    <3>1. streamFile[s] \in Seq(Lines) /\ streamBuffer[s] \in Seq(Lines)
      BY <2>1
    <3>2. Logs!ToSet(streamFile[s] \o streamBuffer[s]) = Logs!ToSet(streamFile[s]) \cup Logs!ToSet(streamBuffer[s])
      BY <2>2, <3>1, ConcatHolds, ZenonT(60)
    <3>3. Logs!Ascending(streamFile[s]) /\ Logs!Ascending(streamBuffer[s]) /\ Before(streamFile[s], streamBuffer[s])
      BY <2>1
    <3> QED BY <2>2, <3>1, <3>2, <3>3, ConcatAscends, ZenonT(60)
  <2> QED BY <2>1, <2>3
<1> QED BY <1>1, <1>7, <1>8, <1>9 DEF Logs!StreamsComplete

-----------------------------------------------------------------------------
(* What is kept *)

KeptInv == By("sync", SyncInv) /\ By("shared", SharedInv) /\ By("logs", LogsInv)

\* What smartSyncAgents(), the session's calls and the two loggers keep, in every behaviour
\* and for any files, ids, edges, entries and limits: a sync that no change crosses leaves
\* exactly the agents of the files on disk in memory and in the table, in their last
\* version, and the index finds exactly them; a persisted session is its row as long as no
\* write failed; every line is in one place, once and in order, and a closed logger has
\* written its lines (core/runtime.ts, core/shared-state.ts, core/logger.ts,
\* core/structured-logger.ts).
THEOREM RecordsAreKept == RecordsSpec => []RecordsKept
<1>1. RecordsInit => KeptInv
  BY SyncInitInv, SharedInitInv, LogsInitInv DEF RecordsInit, KeptInv, By
<1>2. KeptInv /\ [RecordsNext]_recordsVars => KeptInv'
  <2> SUFFICES ASSUME KeptInv, [RecordsNext]_recordsVars PROVE KeptInv'
    OBVIOUS
  <2>1. keeper' = keeper
    BY DEF RecordsNext, RecordsOthers, recordsVars
  <2>2. ASSUME keeper = "sync" PROVE SyncInv'
    <3>1. SyncInv /\ [Sync!SyncNext]_syncVars
      BY <2>2 DEF KeptInv, By, RecordsNext, recordsVars
    <3> QED BY <3>1, SyncStep
  <2>3. ASSUME keeper = "shared" PROVE SharedInv'
    <3>1. SharedInv /\ [Shared!SharedNext]_busVars
      BY <2>3 DEF KeptInv, By, RecordsNext, recordsVars
    <3> QED BY <3>1, SharedStep
  <2>4. ASSUME keeper = "logs" PROVE LogsInv'
    <3>1. LogsInv /\ [Logs!LogsNext]_logVars
      BY <2>4 DEF KeptInv, By, RecordsNext, recordsVars
    <3> QED BY <3>1, LogsStep
  <2> QED BY <2>1, <2>2, <2>3, <2>4 DEF KeptInv, By
<1>3. KeptInv => RecordsKept
  BY LinesKept, StreamsKept DEF KeptInv, By, RecordsKept, SyncInv, SharedInv, LogsInv, CloseInv
<1> QED BY <1>1, <1>2, <1>3, PTL DEF RecordsSpec

-----------------------------------------------------------------------------
(* The MCP servers *)

\* The lines that are answered so far: all that were taken and want it, but the one in progress.
Wanted(n) ==
    /\ received[n].id \/ received[n].kind = "garbage"
    /\ ~(n = taken /\ (handling # "none" \/ process = "fatal"))
SwitchDone(answer) == received[answer.line].kind = "switch" /\ answer.outcome = "result"
Reply == [line : Nat \ {0}, outcome : Mcp!Outcomes, context : Mcp!Contexts]
Calls == Mcp!ToolNames \cup Mcp!ResourceNames

\* The answers are those of the wanted lines, in order, each under the context of the
\* switches before it.
StdioInv ==
    /\ received \in Seq(Mcp!Lines) /\ taken \in 0..Len(received) /\ out \in Seq(Reply) /\ context \in Mcp!Contexts
    /\ handling \in {"none", "init", "tool"} /\ process \in {"up", "done", "fatal"}
    /\ handling # "none" => taken > 0 /\ received[taken].kind \in Calls
    /\ process = "done" => taken = Len(received)
    /\ \A k \in 1..Len(out) : out[k].line <= taken /\ Wanted(out[k].line)
    /\ \A n \in 1..taken : Wanted(n) => \E k \in 1..Len(out) : out[k].line = n
    /\ \A j, k \in 1..Len(out) : j < k => out[j].line < out[k].line
    /\ \A k \in 1..Len(out) :
         out[k].context = IF \E j \in 1..(k - 1) : SwitchDone(out[j]) THEN "switched" ELSE "default"
    /\ context = IF \E j \in 1..Len(out) : SwitchDone(out[j]) THEN "switched" ELSE "default"

\* A session is that of the request that brought none, and of those after it.
HttpInv ==
    /\ post \in [Posts -> {"none", "reading", "handling", "answered"}]
    /\ given \in [Posts -> [start : Nat, session : Posts \cup {NoSession}]]
    /\ starts \in Nat /\ serving \in Nat /\ serving <= starts
    /\ \A r \in Posts :
         /\ given[r].start <= starts /\ (post[r] # "none" => given[r].start > 0)
         /\ post[r] \in {"none", "reading"} => given[r].session = NoSession
         /\ given[r].session \in Posts => given[given[r].session].session = given[r].session
         /\ given[r].start = serving /\ given[r].session = r /\ post[r] # "none" => r \in sessions

McpInv == side \in {"stdio", "http"} /\ StdioInv /\ HttpInv

-----------------------------------------------------------------------------
(* The tasks of a flow *)

\* A step of a workflow begins when all before it are done and none of them failed.
Begun(t) == phase[t] # "waiting"
StepsInOrder ==
    flow = "workflow" => \A s, t \in Flows!Steps : s < t /\ Begun(t) => phase[s] = "done" /\ outcome[s] # "failure"

\* The context is that of the last step that began, and a prompt is made of it.
ContextInv ==
    /\ flow = "workflow" /\ returned = <<>> => \A t \in Flows!Steps :
         Begun(t) /\ (\A u \in Flows!Steps : u > t => ~Begun(u)) => accumulated = {s \in 1..(t - 1) : Flows!Keeps(s)}
    /\ flow # "workflow" => accumulated = {}
    /\ \A t \in called : Begun(t)
    /\ Flows!ContextComplete

\* What is returned are the first steps of a workflow, all of a pipeline, or those of a net under one id.
ReturnedInv ==
    /\ returned = <<>> => resultMap = [t \in Flows!Steps |-> 0]
    /\ returned # <<>> /\ flow = "workflow" =>
         \E m \in Flows!Steps : /\ returned = [k \in 1..m |-> k] /\ phase[m] = "done"
                                /\ outcome[m] = "failure" \/ m = Tasks
    /\ returned # <<>> /\ flow = "pipeline" =>
         returned = [k \in 1..Together |-> k] /\ \A k \in 1..Together : phase[k] = "done"
    /\ returned # <<>> /\ flow = "net" =>
         phase[1] = "done" /\ returned = [k \in 1..Together |-> IF Flows!Id(k) = 1 THEN 1 ELSE 0]

FlowInv ==
    /\ flow \in {"workflow", "pipeline", "net"} /\ sameId \in BOOLEAN /\ offline \subseteq Team
    /\ phase \in [Flows!Steps -> Flows!Phases] /\ outcome \in [Flows!Steps -> {"none"} \cup Flows!Ended]
    /\ considered \in [Flows!Steps -> SUBSET Team] /\ called \subseteq Flows!Steps /\ astray = {}
    /\ DOMAIN seen = Flows!Steps
    /\ StepsInOrder /\ ContextInv /\ ReturnedInv

RequestsInv == By("mcpserver", McpInv) /\ By("flows", FlowInv)

-----------------------------------------------------------------------------
(* Requests on HTTP *)

LEMMA HttpInitInv == Mcp!McpServersInit => HttpInv
  BY DEF Mcp!McpServersInit, HttpInv

LEMMA HttpStepInv == ASSUME HttpInv, Mcp!HttpStep PROVE HttpInv'
<1>0. NoSession \notin Posts
  BY RecordsAssumption
<1> USE DEF HttpInv
<1>1. CASE Mcp!StartServer
  BY <1>1 DEF Mcp!StartServer
<1>2. CASE Mcp!StopServer
  BY <1>2 DEF Mcp!StopServer
<1>3. ASSUME NEW r \in Posts, Mcp!Arrives(r) PROVE HttpInv'
  <2>1. /\ post[r] = "none" /\ post' = [post EXCEPT ![r] = "reading"] /\ given' = [given EXCEPT ![r].start = serving]
        /\ serving > 0 /\ UNCHANGED <<serving, starts, sessions>>
    BY <1>3 DEF Mcp!Arrives
  <2>2. /\ given' \in [Posts -> [start : Nat, session : Posts \cup {NoSession}]]
        /\ \A s \in Posts : given'[s].session = given[s].session /\ (s # r => given'[s] = given[s])
        /\ given'[r].start = serving
    BY <2>1
  <2>3. post' \in [Posts -> {"none", "reading", "handling", "answered"}] /\ post'[r] = "reading"
        /\ \A s \in Posts \ {r} : post'[s] = post[s]
    BY <2>1
  <2> QED BY <1>0, <2>1, <2>2, <2>3
<1>4. ASSUME NEW r \in Posts, Mcp!BodyRead(r) PROVE HttpInv'
  <2>0. post[r] = "reading" /\ given[r].session = NoSession /\ UNCHANGED <<serving, starts>>
    BY <1>4 DEF Mcp!BodyRead
  <2>1. CASE post' = [post EXCEPT ![r] = "answered"] /\ UNCHANGED <<sessions, given>>
    BY <1>0, <2>0, <2>1
  <2>2. CASE Mcp!Registers(r) /\ post' = [post EXCEPT ![r] = "handling"]
    <3>1. /\ post' \in [Posts -> {"none", "reading", "handling", "answered"}] /\ post'[r] = "handling"
          /\ \A s \in Posts \ {r} : post'[s] = post[s]
      BY <2>2
    <3>2. CASE given' = [given EXCEPT ![r].session = r] /\ sessions' = sessions \cup {r}
      <4>1. /\ given' \in [Posts -> [start : Nat, session : Posts \cup {NoSession}]]
            /\ given'[r].session = r /\ \A s \in Posts : given'[s].start = given[s].start /\ (s # r => given'[s] = given[s])
        BY <3>2
      <4>2. \A s \in Posts : given[s].session # r
        BY <1>0, <2>0
      <4> QED BY <1>0, <2>0, <3>1, <3>2, <4>1, <4>2
    <3>3. ASSUME NEW other \in Posts, given[other].session # NoSession,
                 given' = [given EXCEPT ![r].session = given[other].session], sessions' = sessions
          PROVE  HttpInv'
      <4>1. given[other].session \in Posts /\ given[other].session # r /\ given[given[other].session].session = given[other].session
        BY <1>0, <2>0, <3>3
      <4>2. /\ given' \in [Posts -> [start : Nat, session : Posts \cup {NoSession}]]
            /\ given'[r].session = given[other].session
            /\ \A s \in Posts : given'[s].start = given[s].start /\ (s # r => given'[s] = given[s])
        BY <3>3, <4>1
      <4>3. \A s \in Posts : given[s].session # r
        BY <1>0, <2>0
      <4> QED BY <1>0, <2>0, <3>1, <3>3, <4>1, <4>2, <4>3
    <3> QED BY <2>2, <3>2, <3>3 DEF Mcp!Registers
  <2> QED BY <1>4, <2>1, <2>2 DEF Mcp!BodyRead
<1>5. ASSUME NEW r \in Posts, Mcp!Answered(r) PROVE HttpInv'
  BY <1>5 DEF Mcp!Answered
<1> QED BY <1>1, <1>2, <1>3, <1>4, <1>5 DEF Mcp!HttpStep

-----------------------------------------------------------------------------
(* Requests on stdin *)

LEMMA LineFacts ==
    ASSUME NEW l \in Mcp!Lines
    PROVE  /\ l.kind = "blank" => ~l.id
           /\ l.kind \in Calls => l.id
  BY DEF Mcp!Lines, Calls, Mcp!ToolNames, Mcp!ResourceNames

\* The parts of the invariant that are about what is written,
InOrder(a) == \A j, k \in 1..Len(a) : j < k => a[j].line < a[k].line
Switched(a) == IF \E j \in 1..Len(a) : SwitchDone(a[j]) THEN "switched" ELSE "default"
InContext(a) == \A k \in 1..Len(a) : a[k].context = IF \E j \in 1..(k - 1) : SwitchDone(a[j]) THEN "switched" ELSE "default"

\* which one more answer keeps.
LEMMA OneMore ==
    ASSUME StdioInv, NEW n \in Nat, n > 0, \A k \in 1..Len(out) : out[k].line < n, NEW o \in Mcp!Outcomes,
           out' = Append(out, [line |-> n, outcome |-> o, context |-> context])
    PROVE  /\ out' \in Seq(Reply) /\ InOrder(out') /\ InContext(out')
           /\ Switched(out') = IF received[n].kind = "switch" /\ o = "result" THEN "switched" ELSE context
           /\ \A k \in 1..Len(out') : (k \in 1..Len(out) /\ out'[k] = out[k]) \/ out'[k].line = n
           /\ \A k \in 1..Len(out) : k \in 1..Len(out') /\ out'[k] = out[k]
           /\ \E k \in 1..Len(out') : out'[k].line = n
<1> DEFINE a == out'
<1> DEFINE r == [line |-> n, outcome |-> o, context |-> context]
<1>1. r \in Reply /\ out \in Seq(Reply) /\ r.line = n /\ r.outcome = o /\ r.context = context
  BY DEF StdioInv, Reply
<1>11. a = Append(out, r)
  OBVIOUS
<1> HIDE DEF r, a
<1>2. /\ a \in Seq(Reply) /\ Len(a) = Len(out) + 1 /\ a[Len(out) + 1] = r /\ Len(out) \in Nat
      /\ \A k \in 1..Len(out) : a[k] = out[k]
  BY <1>1, <1>11, AppendProperties, LenProperties
<1>3. \A k \in 1..Len(a) : k \in 1..Len(out) \/ k = Len(out) + 1
  BY <1>2
<1>4. \A k \in 1..Len(out) : k \in 1..Len(a) /\ a[k] = out[k]
  BY <1>2
<1>5. InOrder(a)
  <2> SUFFICES ASSUME NEW j \in 1..Len(a), NEW k \in 1..Len(a), j < k PROVE a[j].line < a[k].line
    BY DEF InOrder
  <2>1. j \in 1..Len(out)
    BY <1>2
  <2>2. CASE k \in 1..Len(out)
    BY <1>4, <2>1, <2>2 DEF StdioInv
  <2>3. CASE k = Len(out) + 1
    BY <1>1, <1>2, <1>4, <2>1, <2>3
  <2> QED BY <1>3, <2>2, <2>3
<1>6. context = Switched(out)
  BY DEF StdioInv, Switched
<1>7. InContext(a)
  <2> SUFFICES ASSUME NEW k \in 1..Len(a)
               PROVE  a[k].context = IF \E j \in 1..(k - 1) : SwitchDone(a[j]) THEN "switched" ELSE "default"
    BY DEF InContext
  <2>1. CASE k \in 1..Len(out)
    <3>1. \A j \in 1..(k - 1) : j \in 1..Len(out) /\ a[j] = out[j]
      BY <1>2, <2>1
    <3> QED BY <1>4, <2>1, <3>1 DEF StdioInv
  <2>2. CASE k = Len(out) + 1
    <3>1. 1..(k - 1) = 1..Len(out)
      BY <1>2, <2>2
    <3> QED BY <1>1, <1>2, <1>4, <1>6, <2>2, <3>1 DEF Switched
  <2> QED BY <1>3, <2>1, <2>2
<1>8. Switched(a) = IF received[n].kind = "switch" /\ o = "result" THEN "switched" ELSE context
  <2>1. SwitchDone(a[Len(out) + 1]) <=> received[n].kind = "switch" /\ o = "result"
    BY <1>1, <1>2 DEF SwitchDone
  <2>2. Len(out) + 1 \in 1..Len(a)
    BY <1>2
  <2>3. (\E j \in 1..Len(a) : SwitchDone(a[j]))
          <=> ((\E j \in 1..Len(out) : SwitchDone(out[j])) \/ (received[n].kind = "switch" /\ o = "result"))
    BY <1>3, <1>4, <2>1, <2>2
  <2> QED BY <1>6, <2>3 DEF Switched
<1>9. \A k \in 1..Len(a) : (k \in 1..Len(out) /\ a[k] = out[k]) \/ a[k].line = n
  BY <1>1, <1>2, <1>3, <1>4
<1>10. \E k \in 1..Len(a) : a[k].line = n
  <2>1. Len(out) + 1 \in 1..Len(a) /\ a[Len(out) + 1].line = n
    BY <1>1, <1>2
  <2> QED BY <2>1
<1> QED BY <1>2, <1>4, <1>5, <1>7, <1>8, <1>9, <1>10 DEF a

LEMMA StdioInitInv == Mcp!McpServersInit => StdioInv
<1> SUFFICES ASSUME Mcp!McpServersInit PROVE StdioInv
  OBVIOUS
<1>1. /\ received = <<>> /\ taken = 0 /\ handling = "none" /\ context = "default" /\ out = <<>> /\ process = "up"
      /\ Len(received) = 0 /\ Len(out) = 0 /\ received \in Seq(Mcp!Lines) /\ out \in Seq(Reply)
  BY EmptySeq DEF Mcp!McpServersInit
<1> QED BY <1>1 DEF StdioInv, Mcp!Contexts

\* The types that the steps need.
LEMMA StdioTypes ==
    ASSUME StdioInv
    PROVE  /\ Len(received) \in Nat /\ taken \in Nat /\ taken <= Len(received) /\ Len(out) \in Nat
           /\ \A n \in 1..Len(received) : received[n] \in Mcp!Lines
           /\ \A k \in 1..Len(out) : out[k].line \in Nat /\ out[k].line > 0
<1>1. received \in Seq(Mcp!Lines) /\ taken \in 0..Len(received) /\ out \in Seq(Reply)
  BY DEF StdioInv
<1>2. Len(received) \in Nat /\ Len(out) \in Nat /\ \A n \in 1..Len(received) : received[n] \in Mcp!Lines
  BY <1>1, LenProperties, ElementOfSeq
<1>3. \A k \in 1..Len(out) : out[k] \in Reply
  BY <1>1, ElementOfSeq
<1>4. \A k \in 1..Len(out) : out[k].line \in Nat /\ out[k].line > 0
  BY <1>3 DEF Reply
<1> QED BY <1>1, <1>2, <1>4

\* A step that answers nothing, for a line that wants nothing or is not done.
LEMMA NotAnswered ==
    ASSUME StdioInv, UNCHANGED <<received, out, context>>, taken' \in taken..Len(received),
           handling' \in {"none", "init", "tool"}, process' \in {"up", "done", "fatal"},
           handling' # "none" => taken' > 0 /\ received[taken'].kind \in Calls,
           process' = "done" => taken' = Len(received),
           \A n \in 1..taken : Wanted(n)' <=> Wanted(n), \A n \in taken + 1 .. taken' : ~Wanted(n)'
    PROVE  StdioInv'
<1>1. \A n \in 1..taken' : n \in 1..taken \/ n \in taken + 1 .. taken'
  BY StdioTypes
<1>2. taken' \in 0..Len(received) /\ \A n \in 1..taken : n \in 1..taken'
  BY StdioTypes
<1>3. \A k \in 1..Len(out) : out[k].line \in 1..taken /\ out[k].line <= taken' /\ Wanted(out[k].line)'
  BY StdioTypes DEF StdioInv
<1>4. \A n \in 1..taken' : Wanted(n)' => \E k \in 1..Len(out) : out[k].line = n
  BY <1>1 DEF StdioInv
<1>5. \A answer : SwitchDone(answer) <=> received'[answer.line].kind = "switch" /\ answer.outcome = "result"
  BY DEF SwitchDone
<1>6. /\ \A k \in 1..Len(out) :
           out[k].context = IF \E j \in 1..(k - 1) : SwitchDone(out[j]) THEN "switched" ELSE "default"
      /\ context = IF \E j \in 1..Len(out) : SwitchDone(out[j]) THEN "switched" ELSE "default"
  BY DEF StdioInv
<1> QED BY <1>2, <1>3, <1>4, <1>6 DEF StdioInv, SwitchDone

\* A step that answers the line it is at, which was taken now or before.
LEMMA AnsweredNow ==
    ASSUME StdioInv, UNCHANGED received, NEW n \in 1..Len(received), taken' = n, n = taken \/ n = taken + 1,
           n = taken => handling # "none", n = taken + 1 => handling = "none" /\ process = "up",
           NEW o \in Mcp!Outcomes, out' = Append(out, [line |-> n, outcome |-> o, context |-> context]),
           received[n].id \/ received[n].kind = "garbage", handling' = "none", process' = "up",
           context' = IF received[n].kind = "switch" /\ o = "result" THEN "switched" ELSE context
    PROVE  StdioInv'
<1>1. n \in Nat /\ n > 0 /\ taken \in Nat /\ n <= Len(received)
  BY StdioTypes
<1>2. \A k \in 1..Len(out) : out[k].line < n
  <2>1. ASSUME NEW k \in 1..Len(out) PROVE out[k].line < n
    <3>1. out[k].line \in Nat /\ out[k].line <= taken /\ Wanted(out[k].line)
      BY StdioTypes DEF StdioInv
    <3>2. CASE n = taken
      BY <1>1, <3>1, <3>2 DEF Wanted
    <3>3. CASE n = taken + 1
      BY <1>1, <3>1, <3>3
    <3> QED BY <3>2, <3>3
  <2> QED BY <2>1
<1>3. /\ out' \in Seq(Reply) /\ InOrder(out') /\ InContext(out')
      /\ Switched(out') = context'
      /\ \A k \in 1..Len(out') : (k \in 1..Len(out) /\ out'[k] = out[k]) \/ out'[k].line = n
      /\ \A k \in 1..Len(out) : k \in 1..Len(out') /\ out'[k] = out[k]
      /\ \E k \in 1..Len(out') : out'[k].line = n
  BY <1>1, <1>2, OneMore
<1>4. Wanted(n)' /\ \A i \in 1..taken : i # n => (Wanted(i)' <=> received[i].id \/ received[i].kind = "garbage")
  BY <1>1 DEF Wanted
<1>5. \A i \in 1..taken : i # n => (Wanted(i)' <=> Wanted(i))
  <2>1. \A i \in 1..taken : i # n => (Wanted(i) <=> received[i].id \/ received[i].kind = "garbage")
    BY <1>1 DEF Wanted
  <2> QED BY <1>4, <2>1
<1>6. ASSUME NEW k \in 1..Len(out') PROVE \E i \in 1..taken' : out'[k].line = i /\ Wanted(i)'
  <2>1. CASE k \in 1..Len(out) /\ out'[k] = out[k]
    <3> DEFINE i == out[k].line
    <3>1. i \in 1..taken /\ i < n /\ Wanted(i)
      BY <1>1, <1>2, <2>1, StdioTypes DEF StdioInv
    <3>2. i \in 1..taken' /\ i # n
      BY <1>1, <3>1
    <3>3. PICK x \in 1..taken : x = i
      BY <3>1
    <3>4. Wanted(x)'
      BY <1>5, <3>1, <3>2, <3>3
    <3> QED BY <2>1, <3>2, <3>3, <3>4
  <2>2. CASE out'[k].line = n
    BY <1>1, <1>4, <2>2
  <2> QED BY <1>3, <2>1, <2>2
<1>7. ASSUME NEW i \in 1..taken', Wanted(i)' PROVE \E k \in 1..Len(out') : out'[k].line = i
  <2>1. CASE i = n
    BY <1>3, <2>1
  <2>2. CASE i # n
    <3>1. i \in 1..taken /\ Wanted(i)
      BY <1>1, <1>5, <1>7, <2>2
    <3>2. \E k \in 1..Len(out) : out[k].line = i
      BY <3>1 DEF StdioInv
    <3> QED BY <1>3, <3>2
  <2> QED BY <2>1, <2>2
<1>8. /\ \A j, k \in 1..Len(out') : j < k => out'[j].line < out'[k].line
      /\ \A k \in 1..Len(out') :
           out'[k].context = IF \E j \in 1..(k - 1) : received'[out'[j].line].kind = "switch" /\ out'[j].outcome = "result"
                             THEN "switched" ELSE "default"
      /\ context' = IF \E j \in 1..Len(out') : received'[out'[j].line].kind = "switch" /\ out'[j].outcome = "result"
                    THEN "switched" ELSE "default"
  BY <1>3 DEF InOrder, InContext, Switched, SwitchDone
<1>9. /\ context' \in Mcp!Contexts /\ taken' \in 0..Len(received') /\ received' \in Seq(Mcp!Lines)
      /\ handling' = "none" /\ process' = "up"
  BY <1>1 DEF StdioInv, Mcp!Contexts
<1>10. \A k \in 1..Len(out') : /\ out'[k].line <= taken'
                               /\ received'[out'[k].line].id \/ received'[out'[k].line].kind = "garbage"
                               /\ ~(out'[k].line = taken' /\ (handling' # "none" \/ process' = "fatal"))
  BY <1>1, <1>6 DEF Wanted
<1>11. out' \in Seq(Reply) /\ \A i \in 1..taken' : received'[i].id \/ received'[i].kind = "garbage" =>
                                                   \E k \in 1..Len(out') : out'[k].line = i
  BY <1>3, <1>7, <1>9 DEF Wanted
<1> QED BY ONLY <1>8, <1>9, <1>10, <1>11 DEF StdioInv, SwitchDone, Wanted

LEMMA TakeLineInv == ASSUME StdioInv, Mcp!TakeLine PROVE StdioInv'
<1>0. PICK n \in Nat : n = taken + 1
  BY StdioTypes
<1>1. /\ process = "up" /\ handling = "none" /\ taken < Mcp!Takeable /\ taken' = n /\ UNCHANGED <<received, context>>
  BY <1>0 DEF Mcp!TakeLine, Mcp!Ready, Mcp!inputVars
<1>2. /\ taken \in Nat /\ n \in 1..Len(received) /\ received[n] \in Mcp!Lines /\ n \in taken..Len(received)
      /\ taken + 1 .. n = {n}
  <2>1. Mcp!Takeable <= Len(received)
    BY StdioTypes DEF Mcp!Takeable
  <2>2. Mcp!Takeable \in Int
    BY StdioTypes DEF Mcp!Takeable
  <2>3. taken \in Nat /\ n \in 1..Len(received)
    BY <1>0, <1>1, <2>1, <2>2, StdioTypes
  <2> QED BY <1>0, <2>3, StdioTypes
<1>3. /\ received[n].kind = "blank" => ~received[n].id
      /\ received[n].kind \in Calls => received[n].id
  BY <1>2, LineFacts
<1>4. \A i \in 1..taken : Wanted(i) <=> received[i].id \/ received[i].kind = "garbage"
  BY <1>1 DEF Wanted
<1>5. \A i \in 1..taken : Wanted(i)' <=> received[i].id \/ received[i].kind = "garbage"
  <2>1. \A i \in 1..taken : i # n
    BY <1>0, <1>2
  <2> QED BY <1>1, <2>1 DEF Wanted
<1>6. \/ /\ received[n].kind = "blank" /\ UNCHANGED <<handling, out, process>>
      \/ /\ received[n].kind \in Mcp!Plain \cup {"other method", "garbage"}
         /\ out' = Mcp!Answers(n, Mcp!MethodOutcome(received[n].kind)) /\ UNCHANGED <<handling, process>>
      \/ /\ received[n].kind = "bare call" /\ process' = "fatal" /\ UNCHANGED <<handling, out>>
      \/ /\ received[n].kind \in Calls /\ handling' \in {"init", "tool"} /\ UNCHANGED <<out, process>>
  BY <1>0 DEF Mcp!TakeLine, Calls
<1>7. ASSUME UNCHANGED out, handling' \in {"none", "init", "tool"}, process' \in {"up", "fatal"},
             handling' # "none" => received[n].kind \in Calls, ~Wanted(n)'
      PROVE  StdioInv'
  <2>1. \A i \in taken + 1 .. taken' : ~Wanted(i)'
    <3>1. ASSUME NEW i \in taken + 1 .. taken' PROVE ~Wanted(i)'
      <4>1. i = n
        BY <1>0, <1>1, <1>2
      <4> QED BY <1>7, <4>1
    <3> QED BY <3>1
  <2>2. \A i \in 1..taken : Wanted(i)' <=> Wanted(i)
    BY <1>4, <1>5
  <2>3. taken' \in taken..Len(received) /\ taken' > 0
    BY <1>1, <1>2
  <2>4. handling' # "none" => received[taken'].kind \in Calls
    BY <1>1, <1>7
  <2> QED BY <1>1, <1>7, <2>1, <2>2, <2>3, <2>4, NotAnswered
<1>8. Wanted(n)' <=> (received[n].id \/ received[n].kind = "garbage") /\ handling' = "none" /\ process' # "fatal"
  BY <1>1 DEF Wanted
<1>9. CASE received[n].kind = "blank" /\ UNCHANGED <<handling, out, process>>
  BY <1>1, <1>3, <1>7, <1>8, <1>9
<1>10. CASE received[n].kind = "bare call" /\ process' = "fatal" /\ UNCHANGED <<handling, out>>
  BY <1>1, <1>7, <1>8, <1>10
<1>11. CASE received[n].kind \in Calls /\ handling' \in {"init", "tool"} /\ UNCHANGED <<out, process>>
  BY <1>1, <1>7, <1>8, <1>11
<1>12. CASE /\ received[n].kind \in Mcp!Plain \cup {"other method", "garbage"} /\ UNCHANGED <<handling, process>>
            /\ out' = Mcp!Answers(n, Mcp!MethodOutcome(received[n].kind))
  <2> DEFINE o == Mcp!MethodOutcome(received[n].kind)
  <2>1. o \in Mcp!Outcomes /\ received[n].kind # "switch"
    BY <1>12 DEF Mcp!MethodOutcome, Mcp!Outcomes, Mcp!Plain
  <2>2. CASE received[n].id \/ received[n].kind = "garbage"
    <3>1. out' = Append(out, [line |-> n, outcome |-> o, context |-> context])
      BY <1>12, <2>2 DEF Mcp!Answers
    <3> HIDE DEF o
    <3>2. context' = IF received[n].kind = "switch" /\ o = "result" THEN "switched" ELSE context
      BY <1>1, <2>1
    <3>3. n # taken
      BY <1>0, <1>2
    <3> QED BY <1>0, <1>1, <1>2, <1>12, <2>1, <2>2, <3>1, <3>2, <3>3, AnsweredNow
  <2>3. CASE ~(received[n].id \/ received[n].kind = "garbage")
    <3>1. out' = out
      BY <1>12, <2>3 DEF Mcp!Answers
    <3> QED BY <1>1, <1>7, <1>8, <1>12, <2>3, <3>1
  <2> QED BY <2>2, <2>3
<1> QED BY <1>6, <1>9, <1>10, <1>11, <1>12

\* The end of what a line waits for, with an answer.
LEMMA AnswersInv ==
    ASSUME StdioInv, handling # "none", process = "up", NEW o \in Mcp!Outcomes, out' = Mcp!Answers(taken, o), handling' = "none",
           UNCHANGED <<received, taken, process>>,
           context' = IF received[taken].kind = "switch" /\ o = "result" THEN "switched" ELSE context
    PROVE  StdioInv'
<1>1. taken \in 1..Len(received) /\ received[taken].kind \in Calls
  BY StdioTypes DEF StdioInv
<1>2. received[taken].id
  BY <1>1, StdioTypes, LineFacts
<1>3. out' = Append(out, [line |-> taken, outcome |-> o, context |-> context])
  BY <1>2 DEF Mcp!Answers
<1>4. taken # taken + 1
  BY <1>1
<1>5. PICK n \in 1..Len(received) : n = taken
  BY <1>1
<1> QED BY <1>2, <1>3, <1>4, <1>5, AnsweredNow

LEMMA StdioStepInv == ASSUME StdioInv, process = "up", Mcp!StdioStep PROVE StdioInv'
<1>1. ASSUME NEW l \in Mcp!Lines, Mcp!Receive(l) PROVE StdioInv'
  <2>1. received' = Append(received, l) /\ UNCHANGED <<taken, handling, context, out, process>>
    BY <1>1 DEF Mcp!Receive, Mcp!doingVars
  <2>2. /\ received' \in Seq(Mcp!Lines) /\ Len(received') = Len(received) + 1
        /\ \A n \in 1..taken : received'[n] = received[n]
    <3>1. received \in Seq(Mcp!Lines)
      BY DEF StdioInv
    <3>2. /\ Append(received, l) \in Seq(Mcp!Lines) /\ Len(Append(received, l)) = Len(received) + 1
          /\ \A n \in 1..Len(received) : Append(received, l)[n] = received[n]
      BY <3>1, AppendProperties
    <3> QED BY <2>1, <3>2, StdioTypes
  <2>3. taken \in 0..Len(received') /\ (taken > 0 => taken \in 1..taken)
    BY <2>2, StdioTypes
  <2>4. \A k \in 1..Len(out) : out[k].line \in 1..taken
    BY StdioTypes DEF StdioInv
  <2>5. \A k \in 1..Len(out) : (received'[out[k].line].kind = "switch" /\ out[k].outcome = "result") <=> SwitchDone(out[k])
    BY <2>2, <2>4 DEF SwitchDone
  <2>6. \A k \in 1..Len(out) : \A j \in 1..(k - 1) : j \in 1..Len(out)
    BY StdioTypes
  <2>7. /\ \A k \in 1..Len(out) :
             out[k].context = IF \E j \in 1..(k - 1) : received'[out[j].line].kind = "switch" /\ out[j].outcome = "result"
                              THEN "switched" ELSE "default"
        /\ context = IF \E j \in 1..Len(out) : received'[out[j].line].kind = "switch" /\ out[j].outcome = "result"
                     THEN "switched" ELSE "default"
    BY <2>5, <2>6 DEF StdioInv
  <2>8. \A n \in 1..taken : Wanted(n) <=> /\ received'[n].id \/ received'[n].kind = "garbage"
                                          /\ ~(n = taken /\ (handling # "none" \/ process = "fatal"))
    BY <2>2 DEF Wanted
  <2>10. \A k \in 1..Len(out) : out[k].line <= taken /\ (received'[out[k].line].id \/ received'[out[k].line].kind = "garbage")
                                 /\ ~(out[k].line = taken /\ (handling # "none" \/ process = "fatal"))
    BY <2>4, <2>8 DEF StdioInv
  <2>11. \A n \in 1..taken :
           (received'[n].id \/ received'[n].kind = "garbage") /\ ~(n = taken /\ (handling # "none" \/ process = "fatal"))
             => \E k \in 1..Len(out) : out[k].line = n
    BY <2>8 DEF StdioInv
  <2>9. /\ out \in Seq(Reply) /\ context \in Mcp!Contexts
        /\ handling \in {"none", "init", "tool"} /\ process \in {"up", "done", "fatal"} /\ process # "done"
        /\ handling # "none" => taken > 0 /\ received'[taken].kind \in Calls
        /\ \A j, k \in 1..Len(out) : j < k => out[j].line < out[k].line
    BY <2>2, <2>3 DEF StdioInv
  <2>12. \A k \in 1..Len(out') : out'[k].line <= taken' /\ Wanted(out[k].line)'
    BY ONLY <2>1, <2>10 DEF Wanted
  <2>13. \A n \in 1..taken' : Wanted(n)' => \E k \in 1..Len(out') : out'[k].line = n
    BY ONLY <2>1, <2>11 DEF Wanted
  <2>14. /\ \A k \in 1..Len(out') :
              out'[k].context = IF \E j \in 1..(k - 1) : SwitchDone(out[j])' THEN "switched" ELSE "default"
         /\ context' = IF \E j \in 1..Len(out') : SwitchDone(out[j])' THEN "switched" ELSE "default"
    BY ONLY <2>1, <2>7 DEF SwitchDone
  <2> QED BY ONLY <2>1, <2>2, <2>3, <2>9, <2>12, <2>13, <2>14 DEF StdioInv
<1>2. CASE Mcp!Newline \/ Mcp!EndOfInput
  <2>1. UNCHANGED <<received, taken, handling, context, out, process>>
    BY <1>2 DEF Mcp!Newline, Mcp!EndOfInput, Mcp!doingVars
  <2> QED BY <2>1 DEF StdioInv, Wanted, SwitchDone
<1>3. CASE Mcp!InitEnds
  <2>1. handling = "init" /\ UNCHANGED <<received, taken, context, process>>
    BY <1>3 DEF Mcp!InitEnds, Mcp!inputVars
  <2>2. CASE handling' = "tool" /\ UNCHANGED out
    BY <2>1, <2>2 DEF StdioInv, Wanted, SwitchDone
  <2>3. CASE handling' = "none" /\ out' = Mcp!Answers(taken, IF received[taken].kind \in Mcp!ResourceNames THEN "error" ELSE "tool error")
    <3> DEFINE o == IF received[taken].kind \in Mcp!ResourceNames THEN "error" ELSE "tool error"
    <3>1. o \in Mcp!Outcomes /\ o # "result"
      BY DEF Mcp!Outcomes
    <3>2. out' = Mcp!Answers(taken, o)
      BY <2>3
    <3> HIDE DEF o
    <3>3. context' = IF received[taken].kind = "switch" /\ o = "result" THEN "switched" ELSE context
      BY <2>1, <3>1
    <3> QED BY <2>1, <2>3, <3>1, <3>2, <3>3, AnswersInv
  <2> QED BY <1>3, <2>2, <2>3 DEF Mcp!InitEnds
<1>4. CASE Mcp!ToolEnds
  <2>1. /\ handling = "tool" /\ handling' = "none" /\ UNCHANGED <<received, taken, process>>
        /\ context' = IF Mcp!Switches THEN "switched" ELSE context
    BY <1>4 DEF Mcp!ToolEnds, Mcp!inputVars
  <2>2. PICK o \in Mcp!ToolOutcomes(received[taken].kind) : out' = Mcp!Answers(taken, o)
    BY <1>4 DEF Mcp!ToolEnds
  <2>3. received[taken].kind \in Calls
    BY <2>1 DEF StdioInv
  <2>4. o \in Mcp!Outcomes /\ (received[taken].kind = "switch" => (o = "result" <=> Mcp!Switches))
    BY <2>2, <2>3 DEF Mcp!ToolOutcomes, Mcp!Outcomes, Calls, Mcp!ToolNames, Mcp!ResourceNames
  <2>5. context' = IF received[taken].kind = "switch" /\ o = "result" THEN "switched" ELSE context
    BY <2>1, <2>4 DEF Mcp!Switches
  <2> QED BY <2>1, <2>2, <2>4, <2>5, AnswersInv
<1>5. CASE Mcp!ExitDone
  <2>1. /\ handling = "none" /\ process' = "done" /\ taken >= Mcp!Takeable /\ stdin = "ended"
        /\ UNCHANGED <<received, taken, handling, context, out>>
    BY <1>5 DEF Mcp!ExitDone, Mcp!Ready, Mcp!inputVars
  <2>2. taken = Len(received)
    BY <2>1, StdioTypes DEF Mcp!Takeable
  <2>3. \A n \in 1..taken : Wanted(n)' <=> Wanted(n)
    BY <2>1 DEF Wanted
  <2> QED BY <2>1, <2>2, <2>3 DEF StdioInv, Wanted, SwitchDone
<1> QED BY <1>1, <1>2, <1>3, <1>4, <1>5, TakeLineInv DEF Mcp!StdioStep

LEMMA McpInitInv == Mcp!McpServersInit => McpInv
  BY StdioInitInv, HttpInitInv DEF Mcp!McpServersInit, McpInv

LEMMA McpStepInv == McpInv /\ [Mcp!McpServersNext]_mcpServerVars => McpInv'
<1> SUFFICES ASSUME McpInv, [Mcp!McpServersNext]_mcpServerVars PROVE McpInv'
  OBVIOUS
<1>1. ASSUME UNCHANGED Mcp!stdioVars PROVE StdioInv'
  <2>1. UNCHANGED <<received, taken, handling, context, out, process>>
    BY <1>1 DEF Mcp!stdioVars
  <2> QED BY <2>1 DEF McpInv, StdioInv, Wanted, SwitchDone
<1>2. ASSUME UNCHANGED Mcp!httpVars PROVE HttpInv'
  BY <1>2 DEF Mcp!httpVars, McpInv, HttpInv
<1>3. CASE side = "stdio" /\ process = "up" /\ Mcp!StdioStep /\ UNCHANGED Mcp!httpVars /\ UNCHANGED side
  BY <1>2, <1>3, StdioStepInv DEF McpInv
<1>4. CASE side = "http" /\ Mcp!HttpStep /\ UNCHANGED Mcp!stdioVars /\ UNCHANGED side
  BY <1>1, <1>4, HttpStepInv DEF McpInv
<1>5. CASE UNCHANGED mcpServerVars
  <2>1. UNCHANGED Mcp!stdioVars /\ UNCHANGED Mcp!httpVars /\ UNCHANGED side
    BY <1>5 DEF mcpServerVars, Mcp!stdioVars, Mcp!httpVars
  <2> QED BY <1>1, <1>2, <2>1 DEF McpInv
<1> QED BY <1>3, <1>4, <1>5 DEF Mcp!McpServersNext

LEMMA McpPromises == ASSUME McpInv PROVE Mcp!AnsweredInOrder /\ Mcp!StatusTrue /\ Mcp!SessionsHeld
<1>1. DOMAIN out = 1..Len(out) /\ Len(out) \in Nat /\ StdioInv
  BY LenProperties DEF McpInv, StdioInv
<1>2. {out[k].line : k \in DOMAIN out} = {n \in 1..taken : Wanted(n)}
  <2>1. \A k \in 1..Len(out) : out[k].line \in 1..taken /\ Wanted(out[k].line)
    BY <1>1, StdioTypes DEF StdioInv
  <2>2. \A n \in 1..taken : Wanted(n) => \E k \in 1..Len(out) : out[k].line = n
    BY <1>1 DEF StdioInv
  <2> QED BY ONLY <1>1, <2>1, <2>2
<1>3. \A k \in 2..Len(out) : out[k - 1].line < out[k].line
  <2>1. \A k \in 2..Len(out) : k - 1 \in 1..Len(out) /\ k \in 1..Len(out) /\ k - 1 < k
    BY <1>1
  <2> QED BY <1>1, <2>1 DEF StdioInv
<1>4. Mcp!AnsweredInOrder
  BY <1>1, <1>2, <1>3 DEF Mcp!AnsweredInOrder, StdioInv, Wanted
<1>5. Mcp!StatusTrue
  BY <1>1 DEF Mcp!StatusTrue, StdioInv, SwitchDone
<1>6. Mcp!SessionsHeld
  BY DEF Mcp!SessionsHeld, McpInv, HttpInv
<1> QED BY <1>4, <1>5, <1>6

-----------------------------------------------------------------------------
(* The tasks of a flow *)

LEMMA FlowConstants ==
    /\ Tasks \in Nat /\ Tasks > 0 /\ Together \in Nat /\ Together > 0 /\ Together <= Tasks
    /\ Named \in Team /\ Nobody \notin Team
  BY RecordsAssumption

LEMMA NotEmpty == ASSUME NEW s, 1 \in DOMAIN s PROVE s # <<>>
<1>1. DOMAIN <<>> = {}
  OBVIOUS
<1> QED BY <1>1

LEMMA FlowInitInv == Flows!TaskFlowsInit => FlowInv
<1> SUFFICES ASSUME Flows!TaskFlowsInit PROVE FlowInv
  OBVIOUS
<1>1. /\ flow \in {"workflow", "pipeline", "net"} /\ sameId \in BOOLEAN /\ offline = {}
      /\ phase = [t \in Flows!Steps |-> "waiting"] /\ outcome = [t \in Flows!Steps |-> "none"]
      /\ considered = [t \in Flows!Steps |-> {}] /\ called = {} /\ astray = {} /\ accumulated = {}
      /\ DOMAIN seen = Flows!Steps /\ resultMap = [t \in Flows!Steps |-> 0] /\ returned = <<>>
  BY DEF Flows!TaskFlowsInit
<1>2. \A t \in Flows!Steps : ~Begun(t)
  BY <1>1 DEF Begun
<1>3. StepsInOrder
  BY <1>2 DEF StepsInOrder
<1>4. ContextInv
  BY <1>1, <1>2 DEF ContextInv, Flows!ContextComplete
<1>5. ReturnedInv
  BY <1>1 DEF ReturnedInv
<1> QED BY <1>1, <1>3, <1>4, <1>5 DEF FlowInv, Flows!Phases

LEMMA FlowTypes ==
    ASSUME FlowInv
    PROVE  /\ Flows!Steps = 1..Tasks /\ 1 \in Flows!Steps /\ 1..Together \subseteq Flows!Steps
           /\ phase \in [Flows!Steps -> Flows!Phases] /\ outcome \in [Flows!Steps -> {"none"} \cup Flows!Ended]
           /\ considered \in [Flows!Steps -> SUBSET Team] /\ called \subseteq Flows!Steps /\ offline \subseteq Team
           /\ flow \in {"workflow", "pipeline", "net"} /\ (flow = "workflow" => Flows!Count = Tasks)
           /\ (flow # "workflow" => Flows!Count = Together)
           /\ Flows!Id(1) = 1 /\ \A t \in 1..Together : Flows!Id(t) \in Flows!Steps
  BY FlowConstants DEF FlowInv, Flows!Steps, Flows!Count, Flows!Id

\* While a step is worked on the workflow has not returned, and no later step has begun.
LEMMA AtWork ==
    ASSUME FlowInv, flow = "workflow", NEW t \in Flows!Steps, phase[t] \notin {"waiting", "done"}
    PROVE  returned = <<>> /\ \A u \in Flows!Steps : u > t => ~Begun(u)
<1>1. \A u \in Flows!Steps : u > t => ~Begun(u)
  BY FlowTypes DEF FlowInv, StepsInOrder
<1>2. ASSUME returned # <<>> PROVE FALSE
  <2>1. PICK m \in Flows!Steps : phase[m] = "done" /\ (outcome[m] = "failure" \/ m = Tasks)
    BY <1>2 DEF FlowInv, ReturnedInv
  <2>2. m # t /\ ~(m > t) /\ Begun(t)
    BY <1>1, <2>1 DEF Begun
  <2>3. m < t /\ t <= Tasks /\ m \in Nat
    BY <2>2, FlowTypes, FlowConstants
  <2> QED BY <2>1, <2>2, <2>3, FlowConstants DEF FlowInv, StepsInOrder
<1> QED BY <1>1, <1>2

\* A step of one task that is being worked on, which may end or make its prompt.
LEMMA WorkInv ==
    ASSUME FlowInv, NEW t \in Flows!Steps, phase[t] \notin {"waiting", "done"},
           NEW p \in Flows!Phases \ {"waiting"}, phase' = [phase EXCEPT ![t] = p],
           outcome' \in [Flows!Steps -> {"none"} \cup Flows!Ended], \A s \in Flows!Steps \ {t} : outcome'[s] = outcome[s],
           UNCHANGED <<flow, sameId, offline, accumulated, resultMap, returned, considered>>, astray' = {},
           \/ UNCHANGED <<called, seen>>
           \/ /\ called' = called \cup {t}
              /\ seen' = [seen EXCEPT ![t] = [last |-> IF flow = "workflow" THEN t - 1 ELSE 0, all |-> accumulated]]
    PROVE  FlowInv'
<1>1. phase' \in [Flows!Steps -> Flows!Phases] /\ \A s \in Flows!Steps \ {t} : phase'[s] = phase[s]
  BY FlowTypes
<1>2. /\ \A s \in Flows!Steps : Begun(s)' <=> Begun(s)
      /\ \A s \in Flows!Steps : phase[s] = "done" => s # t /\ phase'[s] = "done" /\ outcome'[s] = outcome[s]
  BY <1>1, FlowTypes DEF Begun
<1>3. StepsInOrder'
  BY <1>2 DEF FlowInv, StepsInOrder
<1>4. ReturnedInv'
  <2>1. \A k \in 1..Together : k \in Flows!Steps
    BY FlowTypes
  <2>2. phase[1] = "done" => phase'[1] = "done"
    BY <1>2, FlowTypes
  <2>3. \A k \in 1..Together : Flows!Id(k)' = Flows!Id(k)
    BY DEF Flows!Id
  <2> QED BY <1>2, <2>1, <2>2, <2>3 DEF FlowInv, ReturnedInv
\* What a step of a workflow keeps of those before it is settled when it begins.
<1>5. ASSUME flow = "workflow", NEW u \in Flows!Steps, Begun(u)
      PROVE  {s \in 1..(u - 1) : Flows!Keeps(s)'} = {s \in 1..(u - 1) : Flows!Keeps(s)}
  <2>1. \A s \in 1..(u - 1) : s \in Flows!Steps /\ s < u
    BY FlowTypes, FlowConstants
  <2>2. \A s \in 1..(u - 1) : outcome'[s] = outcome[s]
    BY <1>2, <1>5, <2>1 DEF FlowInv, StepsInOrder
  <2> QED BY <2>2 DEF Flows!Keeps
<1>6. \A u \in called' : u \in Flows!Steps /\ Begun(u) /\ (u \in called \/ u = t)
  BY FlowTypes DEF FlowInv, ContextInv, Begun
<1>7. ASSUME NEW u \in called'
      PROVE  seen'[u] = IF flow = "workflow" THEN [last |-> u - 1, all |-> {s \in 1..(u - 1) : Flows!Keeps(s)}]
                        ELSE [last |-> 0, all |-> {}]
  <2>1. CASE u \in called /\ seen'[u] = seen[u]
    BY <1>6, <2>1 DEF FlowInv, ContextInv, Flows!ContextComplete
  <2>2. CASE u = t /\ seen' = [seen EXCEPT ![t] = [last |-> IF flow = "workflow" THEN t - 1 ELSE 0, all |-> accumulated]]
    <3>1. seen'[u] = [last |-> IF flow = "workflow" THEN u - 1 ELSE 0, all |-> accumulated]
      BY <2>2 DEF FlowInv
    <3>2. flow = "workflow" => accumulated = {s \in 1..(u - 1) : Flows!Keeps(s)}
      BY <2>2, AtWork DEF FlowInv, ContextInv, Begun
    <3>3. flow # "workflow" => accumulated = {}
      BY DEF FlowInv, ContextInv
    <3> QED BY <3>1, <3>2, <3>3
  <2> QED BY <1>6, <2>1, <2>2 DEF FlowInv
<1>8. Flows!ContextComplete'
  BY <1>5, <1>6, <1>7 DEF Flows!ContextComplete
<1>9. flow = "workflow" /\ returned = <<>> => \A u \in Flows!Steps :
        Begun(u)' /\ (\A v \in Flows!Steps : v > u => ~Begun(v)') => accumulated = {s \in 1..(u - 1) : Flows!Keeps(s)'}
  BY <1>2, <1>5 DEF FlowInv, ContextInv
<1>10. ContextInv'
  BY <1>2, <1>6, <1>8, <1>9 DEF ContextInv, FlowInv
<1>11. called' \subseteq Flows!Steps /\ DOMAIN seen' = Flows!Steps
  BY <1>6 DEF FlowInv
<1> QED BY <1>1, <1>3, <1>4, <1>10, <1>11 DEF FlowInv

LEMMA ResolveInv == ASSUME FlowInv, NEW t \in Flows!Steps, Flows!Resolve(t) PROVE FlowInv'
<1>1. /\ phase[t] = "resolving" /\ UNCHANGED <<considered, called, seen>>
      /\ UNCHANGED <<flow, sameId, offline, accumulated, resultMap, returned>>
  BY DEF Flows!Resolve, Flows!FlowUnchanged
<1>2. PICK kind \in {"id", "kind", "neither"} : \E d \in Flows!Decisions(t, kind) :
        \E a \in (IF d # Nobody THEN {d} ELSE Flows!Lookup(kind)) :
        /\ astray' = IF a \in offline \ considered[t] /\ ~(kind = "id" /\ a = Named) THEN astray \cup {t} ELSE astray
        /\ IF a = Nobody
           THEN phase' = [phase EXCEPT ![t] = "done"] /\ outcome' = [outcome EXCEPT ![t] = "failure"]
           ELSE phase' = [phase EXCEPT ![t] = "prompting"] /\ UNCHANGED outcome
  BY DEF Flows!Resolve
<1>3. PICK d \in Flows!Decisions(t, kind) : \E a \in (IF d # Nobody THEN {d} ELSE Flows!Lookup(kind)) :
        /\ astray' = IF a \in offline \ considered[t] /\ ~(kind = "id" /\ a = Named) THEN astray \cup {t} ELSE astray
        /\ IF a = Nobody
           THEN phase' = [phase EXCEPT ![t] = "done"] /\ outcome' = [outcome EXCEPT ![t] = "failure"]
           ELSE phase' = [phase EXCEPT ![t] = "prompting"] /\ UNCHANGED outcome
  BY <1>2
<1>4. PICK a \in (IF d # Nobody THEN {d} ELSE Flows!Lookup(kind)) :
        /\ astray' = IF a \in offline \ considered[t] /\ ~(kind = "id" /\ a = Named) THEN astray \cup {t} ELSE astray
        /\ IF a = Nobody
           THEN phase' = [phase EXCEPT ![t] = "done"] /\ outcome' = [outcome EXCEPT ![t] = "failure"]
           ELSE phase' = [phase EXCEPT ![t] = "prompting"] /\ UNCHANGED outcome
  BY <1>3
\* Whom the router chose was not offline when it was asked, whom the registry has of the
\* kind is not now.
<1>5. ~(a \in offline \ considered[t] /\ ~(kind = "id" /\ a = Named))
  <2>1. CASE d # Nobody
    BY <1>4, <2>1 DEF Flows!Decisions
  <2>2. CASE d = Nobody
    <3>1. a \in Flows!Lookup(kind) /\ Nobody \notin offline
      BY <1>4, <2>2, FlowTypes, FlowConstants
    <3> QED BY <3>1 DEF Flows!Lookup, Flows!ByKind
  <2> QED BY <2>1, <2>2
<1>6. astray' = {}
  BY <1>4, <1>5 DEF FlowInv
<1>7. PICK p \in {"done", "prompting"} :
        /\ phase' = [phase EXCEPT ![t] = p]
        /\ outcome' = [outcome EXCEPT ![t] = "failure"] \/ UNCHANGED outcome
  BY <1>4
<1>8. /\ outcome' \in [Flows!Steps -> {"none"} \cup Flows!Ended]
      /\ \A s \in Flows!Steps \ {t} : outcome'[s] = outcome[s]
  BY <1>7, FlowTypes DEF Flows!Ended
<1>9. p \in Flows!Phases \ {"waiting"}
  BY DEF Flows!Phases
<1> QED BY <1>1, <1>6, <1>7, <1>8, <1>9, WorkInv

LEMMA TaskStepInv == ASSUME FlowInv, NEW t \in Flows!Steps, Flows!Work(t) PROVE FlowInv'
<1>1. CASE Flows!Prompted(t)
  <2>1. /\ phase[t] = "prompting" /\ phase' = [phase EXCEPT ![t] = "calling"] /\ called' = called \cup {t}
        /\ seen' = [seen EXCEPT ![t] = [last |-> IF flow = "workflow" THEN t - 1 ELSE 0, all |-> accumulated]]
        /\ UNCHANGED <<considered, outcome, astray, flow, sameId, offline, accumulated, resultMap, returned>>
    BY <1>1 DEF Flows!Prompted, Flows!FlowUnchanged
  <2>2. outcome' \in [Flows!Steps -> {"none"} \cup Flows!Ended] /\ astray' = {} /\ "calling" \in Flows!Phases \ {"waiting"}
    BY <2>1 DEF FlowInv, Flows!Phases
  <2> QED BY <2>1, <2>2, WorkInv
<1>2. CASE Flows!Answer(t) \/ Flows!Fails(t)
  <2>1. PICK e \in Flows!Ended : phase[t] = "calling" /\ Flows!TaskEnds(t, e)
    BY <1>2 DEF Flows!Answer, Flows!Fails, Flows!Ended
  <2>2. /\ phase' = [phase EXCEPT ![t] = "done"] /\ outcome' = [outcome EXCEPT ![t] = e] /\ UNCHANGED <<called, seen>>
        /\ UNCHANGED <<considered, astray, flow, sameId, offline, accumulated, resultMap, returned>>
    BY <2>1 DEF Flows!TaskEnds, Flows!FlowUnchanged
  <2>3. /\ outcome' \in [Flows!Steps -> {"none"} \cup Flows!Ended] /\ astray' = {} /\ "done" \in Flows!Phases \ {"waiting"}
        /\ \A s \in Flows!Steps \ {t} : outcome'[s] = outcome[s]
    BY <2>2, FlowTypes DEF FlowInv, Flows!Phases
  <2> QED BY <2>1, <2>2, <2>3, WorkInv
<1> QED BY <1>1, <1>2, ResolveInv DEF Flows!Work

\* What beginning some tasks changes.
LEMMA Beginning ==
    ASSUME FlowInv, NEW ts \in SUBSET Flows!Steps, Flows!Begin(ts), Flows!OthersOfFlow, UNCHANGED <<resultMap, returned>>
    PROVE  /\ phase' \in [Flows!Steps -> Flows!Phases] /\ considered' \in [Flows!Steps -> SUBSET Team]
           /\ UNCHANGED <<flow, sameId, offline, called, outcome, seen, astray>>
           /\ \A s \in ts : ~Begun(s) /\ Begun(s)'
           /\ \A s \in Flows!Steps \ ts : phase'[s] = phase[s] /\ (Begun(s)' <=> Begun(s))
           /\ \A s \in Flows!Steps : phase[s] = "done" => s \notin ts /\ phase'[s] = "done"
<1>1. /\ UNCHANGED <<flow, sameId, offline, called, outcome, seen, astray>>
      /\ \A s \in ts : phase[s] = "waiting"
      /\ phase' = [s \in Flows!Steps |-> IF s \in ts THEN "resolving" ELSE phase[s]]
      /\ considered' = [s \in Flows!Steps |-> IF s \in ts THEN Team \ offline ELSE considered[s]]
  BY DEF Flows!Begin, Flows!OthersOfFlow
<1>2. phase' \in [Flows!Steps -> Flows!Phases] /\ considered' \in [Flows!Steps -> SUBSET Team]
  BY <1>1, FlowTypes DEF Flows!Phases
<1> QED BY <1>1, <1>2 DEF Begun

\* What does not depend on the way they begin.
LEMMA BeginsInv ==
    ASSUME FlowInv, NEW ts \in SUBSET Flows!Steps, Flows!Begin(ts), Flows!OthersOfFlow, UNCHANGED <<resultMap, returned>>,
           flow # "workflow" => accumulated' = {},
           StepsInOrder',
           flow = "workflow" /\ returned = <<>> => \A t \in Flows!Steps :
             Begun(t)' /\ (\A u \in Flows!Steps : u > t => ~Begun(u)') => accumulated' = {s \in 1..(t - 1) : Flows!Keeps(s)}
    PROVE  FlowInv'
<1>1. ReturnedInv'
  <2>1. \A k \in 1..Together : k \in Flows!Steps
    BY FlowTypes
  <2>2. \A k \in 1..Together : Flows!Id(k)' = Flows!Id(k)
    BY Beginning DEF Flows!Id
  <2> QED BY <2>1, <2>2, Beginning, FlowTypes DEF FlowInv, ReturnedInv
<1>2. \A s : Flows!Keeps(s)' <=> Flows!Keeps(s)
  BY Beginning DEF Flows!Keeps
<1>3. Flows!ContextComplete'
  <2>1. \A t : {s \in 1..(t - 1) : Flows!Keeps(s)'} = {s \in 1..(t - 1) : Flows!Keeps(s)}
    BY <1>2
  <2>2. UNCHANGED <<flow, called, seen>>
    BY Beginning
  <2>3. Flows!ContextComplete
    BY DEF FlowInv, ContextInv
  <2> QED BY ONLY <2>1, <2>2, <2>3 DEF Flows!ContextComplete, Flows!Steps
<1>4. \A t \in called : Begun(t)'
  BY Beginning DEF FlowInv, ContextInv
<1>5. ContextInv'
  BY <1>2, <1>3, <1>4, Beginning DEF ContextInv
<1> QED BY <1>1, <1>5, Beginning DEF FlowInv

LEMMA StartStepInv == ASSUME FlowInv, Flows!StartStep PROVE FlowInv'
<1>1. PICK t \in Flows!Steps :
        /\ t > 1 => phase[t - 1] = "done" /\ outcome[t - 1] # "failure"
        /\ accumulated' = IF t = 1 THEN {} ELSE Flows!Accumulate(t - 1)
        /\ Flows!Begin({t})
  BY DEF Flows!StartStep
<1>2. flow = "workflow" /\ UNCHANGED <<resultMap, returned>> /\ Flows!OthersOfFlow
  BY DEF Flows!StartStep
<1>3. t \in Nat /\ t > 0 /\ t <= Tasks /\ (t > 1 => t - 1 \in Flows!Steps) /\ {t} \in SUBSET Flows!Steps
  BY FlowTypes, FlowConstants
<1>4. /\ ~Begun(t) /\ Begun(t)' /\ UNCHANGED <<outcome, flow>>
      /\ \A s \in Flows!Steps \ {t} : phase'[s] = phase[s] /\ (Begun(s)' <=> Begun(s))
      /\ \A s \in Flows!Steps : phase[s] = "done" => s # t /\ phase'[s] = "done"
  BY <1>1, <1>2, <1>3, Beginning
<1>5. \A s \in Flows!Steps : s < t => phase[s] = "done" /\ outcome[s] # "failure"
  <2> SUFFICES ASSUME NEW s \in Flows!Steps, s < t PROVE phase[s] = "done" /\ outcome[s] # "failure"
    OBVIOUS
  <2>1. s \in Nat /\ s > 0 /\ t > 1 /\ (s = t - 1 \/ s < t - 1)
    BY <1>3, FlowTypes, FlowConstants
  <2>2. Begun(t - 1)
    BY <1>1, <2>1 DEF Begun
  <2> QED BY <1>1, <1>2, <1>3, <2>1, <2>2 DEF FlowInv, StepsInOrder
<1>6. \A u \in Flows!Steps : u > t => ~Begun(u) /\ ~Begun(u)'
  <2>1. \A u \in Flows!Steps : u > t => ~Begun(u) /\ u # t
    BY <1>2, <1>3, <1>4, FlowTypes DEF FlowInv, StepsInOrder, Begun
  <2> QED BY <1>4, <2>1
<1>7. StepsInOrder'
  BY <1>2, <1>4, <1>5 DEF FlowInv, StepsInOrder
<1>8. ASSUME returned = <<>> PROVE accumulated' = {s \in 1..(t - 1) : Flows!Keeps(s)}
  <2>1. CASE t = 1
    BY <1>1, <2>1
  <2>2. CASE t > 1
    <3>1. Begun(t - 1) /\ \A u \in Flows!Steps : u > t - 1 => ~Begun(u)
      <4>1. \A u \in Flows!Steps : u > t - 1 => u = t \/ u > t
        BY <1>3, FlowTypes, FlowConstants
      <4> QED BY <1>1, <1>4, <1>6, <2>2, <4>1 DEF Begun
    <3>2. accumulated = {s \in 1..(t - 1 - 1) : Flows!Keeps(s)}
      BY <1>2, <1>3, <1>8, <2>2, <3>1 DEF FlowInv, ContextInv
    <3>3. accumulated' = IF Flows!Keeps(t - 1) THEN accumulated \cup {t - 1} ELSE accumulated
      BY <1>1, <2>2 DEF Flows!Accumulate
    <3>4. 1..(t - 1) = 1..(t - 1 - 1) \cup {t - 1}
      BY <1>3, <2>2
    <3> QED BY <3>2, <3>3, <3>4
  <2> QED BY <1>3, <2>1, <2>2
<1>9. \A v \in Flows!Steps : Begun(v)' /\ (\A u \in Flows!Steps : u > v => ~Begun(u)') => v = t
  BY <1>3, <1>4, <1>6, FlowTypes, FlowConstants
<1> QED BY <1>1, <1>2, <1>3, <1>7, <1>8, <1>9, BeginsInv

LEMMA StartsTogetherInv == ASSUME FlowInv, Flows!StartPipeline \/ Flows!StartNet PROVE FlowInv'
<1>1. /\ flow # "workflow" /\ UNCHANGED <<accumulated, resultMap, returned>> /\ Flows!OthersOfFlow
      /\ Flows!Begin(1..Together) \/ Flows!Begin({1})
  BY FlowTypes DEF Flows!StartPipeline, Flows!StartNet
<1>2. 1..Together \in SUBSET Flows!Steps /\ {1} \in SUBSET Flows!Steps
  BY FlowTypes
<1>3. flow' = flow /\ accumulated' = {}
  BY <1>1 DEF Flows!OthersOfFlow, FlowInv, ContextInv
<1>4. StepsInOrder'
  BY <1>1, <1>3 DEF StepsInOrder
<1> QED BY <1>1, <1>2, <1>3, <1>4, BeginsInv

\* What returning the results leaves as it is.
LEMMA EndsInv ==
    ASSUME FlowInv, Flows!OthersOfFlow, UNCHANGED <<phase, considered>>, returned' # <<>>,
           flow # "workflow" => accumulated' = {}, ReturnedInv'
    PROVE  FlowInv'
<1>1. UNCHANGED <<flow, sameId, offline, called, outcome, seen, astray, phase, considered>>
  BY DEF Flows!OthersOfFlow
<1>2. StepsInOrder'
  BY <1>1 DEF FlowInv, StepsInOrder, Begun
<1>3. Flows!ContextComplete'
  BY <1>1 DEF FlowInv, ContextInv, Flows!ContextComplete, Flows!Keeps
<1>4. ContextInv'
  BY <1>1, <1>3 DEF FlowInv, ContextInv, Begun
<1> QED BY <1>1, <1>2, <1>4 DEF FlowInv

LEMMA EndInv ==
    ASSUME FlowInv, Flows!EndWorkflow \/ Flows!EndPipeline \/ Flows!EndNet
    PROVE  FlowInv'
<1>1. CASE Flows!EndWorkflow
  <2>1. PICK t \in Flows!Steps : phase[t] = "done" /\ (outcome[t] = "failure" \/ t = Tasks) /\ returned' = [k \in 1..t |-> k]
    BY <1>1, FlowTypes DEF Flows!EndWorkflow
  <2>2. flow = "workflow" /\ Flows!OthersOfFlow /\ UNCHANGED <<phase, considered>>
    BY <1>1 DEF Flows!EndWorkflow
  <2>3. returned' # <<>>
    <3>1. 1 \in 1..t /\ DOMAIN returned' = 1..t
      BY <2>1, FlowTypes, FlowConstants
    <3> QED BY <3>1, NotEmpty
  <2>4. ReturnedInv'
    BY <2>1, <2>2, <2>3 DEF ReturnedInv, Flows!OthersOfFlow
  <2> QED BY <2>2, <2>3, <2>4, EndsInv
<1>2. CASE Flows!EndPipeline
  <2>1. /\ flow = "pipeline" /\ Flows!OthersOfFlow /\ UNCHANGED <<phase, considered, accumulated, resultMap>>
        /\ returned' = [k \in 1..Together |-> k] /\ \A k \in 1..Together : phase[k] = "done"
    BY <1>2, FlowTypes DEF Flows!EndPipeline
  <2>2. returned' # <<>>
    <3>1. 1 \in 1..Together /\ DOMAIN returned' = 1..Together
      BY <2>1, FlowConstants
    <3> QED BY <3>1, NotEmpty
  <2>3. ReturnedInv'
    BY <2>1, <2>2 DEF ReturnedInv, Flows!OthersOfFlow
  <2>4. accumulated' = {}
    BY <2>1 DEF FlowInv, ContextInv
  <2> QED BY <2>1, <2>2, <2>3, <2>4, EndsInv
<1>3. CASE Flows!EndNet
  <2>1. /\ flow = "net" /\ Flows!OthersOfFlow /\ UNCHANGED <<phase, considered, accumulated>> /\ phase[1] = "done"
        /\ returned = <<>> /\ resultMap' = [resultMap EXCEPT ![Flows!Id(1)] = 1]
        /\ returned' = [k \in 1..Together |-> resultMap'[Flows!Id(k)]]
    BY <1>3, FlowTypes DEF Flows!EndNet, Flows!FromMap
  <2>2. \A t \in Flows!Steps : resultMap'[t] = IF t = 1 THEN 1 ELSE 0
    BY <2>1, FlowTypes DEF FlowInv, ReturnedInv
  <2>3. returned' = [k \in 1..Together |-> IF Flows!Id(k) = 1 THEN 1 ELSE 0]
    BY <2>1, <2>2, FlowTypes
  <2>4. returned' # <<>>
    <3>1. 1 \in 1..Together /\ DOMAIN returned' = 1..Together
      BY <2>1, FlowConstants
    <3> QED BY <3>1, NotEmpty
  <2>5. UNCHANGED <<flow, sameId, phase>>
    BY <2>1 DEF Flows!OthersOfFlow
  <2>6. ReturnedInv'
    BY <2>1, <2>3, <2>4, <2>5 DEF ReturnedInv, Flows!Id
  <2>7. accumulated' = {}
    BY <2>1 DEF FlowInv, ContextInv
  <2> QED BY <2>1, <2>4, <2>6, <2>7, EndsInv
<1> QED BY <1>1, <1>2, <1>3

LEMMA FlowStepInv == FlowInv /\ [Flows!TaskFlowsNext]_taskFlowVars => FlowInv'
<1> SUFFICES ASSUME FlowInv, [Flows!TaskFlowsNext]_taskFlowVars PROVE FlowInv'
  OBVIOUS
\* What only an agent that goes offline changes.
<1>1. ASSUME UNCHANGED <<flow, sameId, phase, considered, called, outcome, seen, astray, accumulated, resultMap, returned>>,
             offline' \subseteq Team
      PROVE  FlowInv'
  <2>1. StepsInOrder'
    BY <1>1 DEF FlowInv, StepsInOrder, Begun
  <2>2. Flows!ContextComplete'
    BY <1>1 DEF FlowInv, ContextInv, Flows!ContextComplete, Flows!Keeps
  <2>3. ContextInv'
    BY <1>1, <2>2 DEF FlowInv, ContextInv, Begun, Flows!Keeps
  <2>4. ReturnedInv'
    BY <1>1 DEF FlowInv, ReturnedInv, Flows!Id
  <2> QED BY <1>1, <2>1, <2>3, <2>4 DEF FlowInv
<1>2. CASE \E a \in Team : Flows!GoesOffline(a)
  BY <1>1, <1>2 DEF Flows!GoesOffline, FlowInv
<1>3. CASE UNCHANGED taskFlowVars
  BY <1>1, <1>3 DEF taskFlowVars, FlowInv
<1> QED BY <1>2, <1>3, StartStepInv, StartsTogetherInv, EndInv, TaskStepInv DEF Flows!TaskFlowsNext

LEMMA FlowPromises == ASSUME FlowInv PROVE Flows!ResultsInPlace /\ Flows!ContextComplete /\ Flows!OfflineOnlyByName
<1>1. ASSUME returned # <<>>, flow = "workflow" PROVE Flows!ResultsInPlace
  <2>1. PICK m \in Flows!Steps : returned = [k \in 1..m |-> k] /\ phase[m] = "done" /\ (outcome[m] = "failure" \/ m = Tasks)
    BY <1>1 DEF FlowInv, ReturnedInv
  <2>2. m \in Nat /\ \A k \in 1..m : k \in Flows!Steps /\ (k = m \/ k < m)
    BY FlowTypes, FlowConstants
  <2>3. DOMAIN returned = 1..m /\ Len(returned) = m
    BY <2>1, <2>2
  <2>4. \A k \in 1..m : returned[k] = k /\ phase[k] = "done" /\ (outcome[k] = "failure" => k = m)
    BY <1>1, <2>1, <2>2 DEF FlowInv, StepsInOrder, Begun
  <2> QED BY <1>1, <2>1, <2>3, <2>4, FlowTypes DEF Flows!ResultsInPlace
<1>2. ASSUME returned # <<>>, flow # "workflow" PROVE Flows!ResultsInPlace
  <2>1. /\ DOMAIN returned = 1..Together /\ Len(returned) = Together
        /\ \A k \in 1..Together : returned[k] = 0 \/ (Flows!Id(returned[k]) = Flows!Id(k) /\ phase[returned[k]] = "done")
    <3>1. CASE flow = "pipeline"
      BY <1>2, <3>1, FlowConstants DEF FlowInv, ReturnedInv
    <3>2. CASE flow = "net"
      BY <1>2, <3>2, FlowConstants, FlowTypes DEF FlowInv, ReturnedInv
    <3> QED BY <1>2, <3>1, <3>2, FlowTypes
  <2> QED BY <1>2, <2>1, FlowTypes DEF Flows!ResultsInPlace
<1> QED BY <1>1, <1>2 DEF Flows!ResultsInPlace, FlowInv, ContextInv, Flows!OfflineOnlyByName

-----------------------------------------------------------------------------

\* Every line on stdin that wants an answer has one, in the order of the lines and under
\* the context of the switches before it, a session is known as long as the server that
\* gave it serves, and every task of a workflow, pipeline or net has its own result, its
\* context and an agent that may have it (bin/aether-mcp.ts, nexus/mcp-server.ts,
\* core/executor.ts).
THEOREM RequestsAreAnswered == RecordsSpec => []RequestsAnswered
<1>1. RecordsInit => RequestsInv
  BY McpInitInv, FlowInitInv DEF RecordsInit, RequestsInv, By
<1>2. RequestsInv /\ [RecordsNext]_recordsVars => RequestsInv'
  <2> SUFFICES ASSUME RequestsInv, [RecordsNext]_recordsVars PROVE RequestsInv'
    OBVIOUS
  <2>1. keeper' = keeper
    BY DEF RecordsNext, RecordsOthers, recordsVars
  <2>2. ASSUME keeper = "mcpserver" PROVE McpInv'
    <3>1. McpInv /\ [Mcp!McpServersNext]_mcpServerVars
      BY <2>2 DEF RequestsInv, By, RecordsNext, recordsVars
    <3> QED BY <3>1, McpStepInv
  <2>3. ASSUME keeper = "flows" PROVE FlowInv'
    <3>1. FlowInv /\ [Flows!TaskFlowsNext]_taskFlowVars
      BY <2>3 DEF RequestsInv, By, RecordsNext, recordsVars
    <3> QED BY <3>1, FlowStepInv
  <2> QED BY <2>1, <2>2, <2>3 DEF RequestsInv, By
<1>3. RequestsInv => RequestsAnswered
  BY McpPromises, FlowPromises DEF RequestsInv, By, RequestsAnswered
<1> QED BY <1>1, <1>2, <1>3, PTL DEF RecordsSpec

-----------------------------------------------------------------------------
(* Induction *)

\* Induction in the form the provers can use, without an operator parameter:
\* a nonempty set of natural numbers has a least element.
LEMMA LeastElement ==
    ASSUME NEW S \in SUBSET Nat, S # {}
    PROVE  \E m \in S : \A n \in S : m <= n
<1> DEFINE R == StrictSubsetOrdering(Nat)
           F == FiniteSubsetsOf(Nat)
           T == {0..n : n \in S}
<1>1. IsWellFoundedOn(R, F)
  BY FS_StrictSubsetOrderingWellFounded
<1>2. T \subseteq F /\ T # {}
  <2>1. ASSUME NEW n \in S PROVE 0..n \in F
    <3>1. n \in Nat /\ IsFiniteSet(0..n)
      BY FS_Interval
    <3> QED BY <3>1 DEF FiniteSubsetsOf
  <2> HIDE DEF F
  <2> QED BY <2>1
<1>3. \E x \in T : \A y \in T : ~(<<y, x>> \in R)
  <2> HIDE DEF R, F, T
  <2> QED BY <1>1, <1>2, WFMin
<1>4. PICK m \in S : \A n \in S : ~(<<0..n, 0..m>> \in R)
  <2> HIDE DEF R
  <2> QED BY <1>3
<1>5. ASSUME NEW n \in S, n < m PROVE FALSE
  <2>1. 0..n \subseteq 0..m /\ 0..n # 0..m /\ 0..n \subseteq Nat /\ 0..m \subseteq Nat
    <3>1. m \in 0..m /\ m \notin 0..n
      BY <1>5
    <3>2. 0..n \subseteq 0..m /\ 0..n \subseteq Nat /\ 0..m \subseteq Nat
      BY <1>5
    <3> QED BY ONLY <3>1, <3>2
  <2>2. <<0..n, 0..m>> \in R
    <3> DEFINE a == 0..n
               b == 0..m
    <3> HIDE DEF a, b
    <3>1. a \subseteq b /\ a # b /\ a \subseteq Nat /\ b \subseteq Nat
      BY <2>1 DEF a, b
    <3>2. <<a, b>> \in R
      BY <3>1 DEF StrictSubsetOrdering
    <3> QED BY <3>2 DEF a, b
  <2> QED BY <2>2, <1>4
<1> QED BY <1>5

\* A set of numbers up to N that holds 0 and each successor holds them all.
LEMMA CountUp ==
    ASSUME NEW N \in Nat, NEW S, 0 \in S, \A k \in 1..N : k - 1 \in S => k \in S
    PROVE  0..N \subseteq S
<1> DEFINE Out == {k \in 0..N : k \notin S}
<1>1. ASSUME Out # {} PROVE FALSE
  <2>1. Out \in SUBSET Nat
    OBVIOUS
  <2>2. PICK m \in Out : \A n \in Out : m <= n
    BY <1>1, <2>1, LeastElement
  <2>3. m # 0 /\ m \in 1..N /\ m - 1 \in 0..N
    BY <2>2
  <2>4. m - 1 \in S
    BY <2>2, <2>3
  <2> QED BY <2>2, <2>3, <2>4
<1> QED BY <1>1

-----------------------------------------------------------------------------
(* Conversations *)

ConvRow == [chain : Seq(Members), status : {"active", "completed"}]
ConvMessage == [id : Nat, at : Nat]
Moments(q) == {m.at : m \in Conversations!ToSet(q)}

\* Of n messages, the last one of time t, q has the newest without a gap, oldest first.
Newest(q, n, t) ==
    /\ q \in Seq(ConvMessage) /\ Len(q) <= n
    /\ \A i \in 1..Len(q) : q[i].id = n - Len(q) + i /\ q[i].at <= t
    /\ \A i, j \in 1..Len(q) : i <= j => q[i].at <= q[j].at

LEMMA ConvFacts ==
    /\ MaxChain \in Nat \ {0} /\ MaxMessages \in Nat /\ KeptByHandoff \in Nat /\ MaxSaid \in Nat
    /\ NoConversation \notin ConvRow
  BY LoopsAssumption, Zenon DEF ConvRow

\* The image of a finite set is no larger than it.
LEMMA ImageBound ==
    ASSUME NEW S, IsFiniteSet(S), NEW f
    PROVE  IsFiniteSet({f[x] : x \in S}) /\ Cardinality({f[x] : x \in S}) <= Cardinality(S)
<1> DEFINE T == {f[x] : x \in S}
           g == [x \in S |-> f[x]]
<1>1. g \in Surjection(S, T)
  BY DEF Surjection
<1> HIDE DEF g, T
<1>2. IsFiniteSet(T) /\ Cardinality(T) <= Cardinality(S)
  BY <1>1, FS_Surjection
<1> QED BY <1>2 DEF T

LEMMA MomentsBound ==
    ASSUME NEW q, NEW S, IsFiniteSet(S), NEW n \in Nat, Cardinality(S) <= n,
           \A i \in 1..Len(q) : \E k \in S : q[i].at = q[k].at, DOMAIN q = 1..Len(q)
    PROVE  Cardinality(Moments(q)) <= n
<1> DEFINE f == [k \in S |-> q[k].at]
           T == {f[k] : k \in S}
<1>1. IsFiniteSet(T) /\ Cardinality(T) <= Cardinality(S)
  <2> HIDE DEF f
  <2> QED BY ImageBound
<1>2. Moments(q) \subseteq T
  BY DEF Moments, Conversations!ToSet
<1> HIDE DEF T
<1>3. Cardinality(Moments(q)) <= Cardinality(T)
  BY <1>1, <1>2, FS_Subset
<1>4. IsFiniteSet(Moments(q))
  BY <1>1, <1>2, FS_Subset
<1>5. Cardinality(S) \in Nat /\ Cardinality(T) \in Nat /\ Cardinality(Moments(q)) \in Nat
  BY <1>1, <1>4, FS_CardinalityType
<1> QED BY <1>1, <1>3, <1>5

LEMMA MessageAppended ==
    ASSUME NEW q, NEW n \in Nat, NEW t \in Nat, Newest(q, n, t), NEW u \in {t, t + 1}
    PROVE  Newest(Append(q, [id |-> n + 1, at |-> u]), n + 1, u)
<1> DEFINE e == [id |-> n + 1, at |-> u]
           r == Append(q, e)
           L == Len(q)
<1>1. q \in Seq(ConvMessage) /\ L \in Nat /\ L <= n /\ u \in Nat /\ t <= u /\ \A i \in 1..L : q[i] \in ConvMessage
  BY LenProperties, ElementOfSeq DEF Newest
<1>2. e \in ConvMessage /\ e.id = n + 1 /\ e.at = u
  BY <1>1 DEF ConvMessage
<1> HIDE DEF e
<1>3. r \in Seq(ConvMessage) /\ Len(r) = L + 1 /\ (\A i \in 1..L : r[i] = q[i]) /\ r[L + 1] = e
  BY <1>1, <1>2, AppendProperties
<1> HIDE DEF r
<1>4. ASSUME NEW i \in 1..Len(r) PROVE r[i].id = n + 1 - Len(r) + i /\ r[i].at <= u /\ r[i].at \in Nat
  <2>1. CASE i = L + 1
    BY <1>1, <1>2, <1>3, <2>1
  <2>2. CASE i # L + 1
    <3>1. i \in 1..L /\ r[i] = q[i]
      BY <1>1, <1>3, <2>2
    <3>2. q[i].id = n - L + i /\ q[i].at <= t /\ q[i].at \in Nat
      BY <1>1, <3>1 DEF Newest, ConvMessage
    <3> QED BY <1>1, <1>3, <3>1, <3>2
  <2> QED BY <2>1, <2>2
<1>5. ASSUME NEW i \in 1..Len(r), NEW j \in 1..Len(r), i <= j PROVE r[i].at <= r[j].at
  <2>1. CASE j = L + 1
    BY <1>2, <1>3, <1>4, <2>1
  <2>2. CASE j # L + 1
    <3>1. i \in 1..L /\ j \in 1..L
      BY <1>1, <1>3, <1>5, <2>2
    <3> QED BY <1>3, <1>5, <3>1 DEF Newest
  <2> QED BY <2>1, <2>2
<1>6. Len(r) <= n + 1
  BY <1>1, <1>3
<1>7. Newest(r, n + 1, u)
  BY <1>3, <1>4, <1>5, <1>6 DEF Newest
<1> QED BY <1>7 DEF r, e

\* A set of positions has a first one.
LEMMA FirstPosition ==
    ASSUME NEW n \in Nat, NEW S \in SUBSET (1..n), S # {}
    PROVE  /\ Conversations!Min(S) \in S /\ \A k \in S : Conversations!Min(S) <= k
           /\ Progress!Min(S) \in S /\ \A k \in S : Progress!Min(S) <= k
<1>1. \E m \in S : \A k \in S : m <= k
  <2>1. S \in SUBSET Nat
    OBVIOUS
  <2> QED BY <2>1, LeastElement
<1> QED BY <1>1 DEF Conversations!Min, Progress!Min

\* Trimming leaves a tail that is longer than what is to be kept, of no more moments than
\* that and one.
LEMMA TrimmedTail ==
    ASSUME NEW q, NEW n \in Nat, NEW t \in Nat, Newest(q, n, t), NEW keep \in Nat
    PROVE  LET r == Conversations!Trimmed(q, keep)
           IN /\ Newest(r, n, t) /\ Cardinality(Moments(r)) <= keep + 1
              /\ Len(q) <= keep => r = q
              /\ Len(q) > keep => Len(r) > keep
<1> DEFINE L == Len(q)
           r == Conversations!Trimmed(q, keep)
<1>1. /\ q \in Seq(ConvMessage) /\ L \in Nat /\ L <= n /\ DOMAIN q = 1..L
      /\ \A i \in 1..L : q[i] \in ConvMessage /\ q[i].id = n - L + i /\ q[i].at <= t /\ q[i].at \in Nat
  <2>1. q \in Seq(ConvMessage) /\ L \in Nat /\ DOMAIN q = 1..L /\ \A i \in 1..L : q[i] \in ConvMessage
    BY LenProperties, ElementOfSeq DEF Newest
  <2>2. \A i \in 1..L : q[i].at \in Nat
    BY <2>1 DEF ConvMessage
  <2> QED BY <2>1, <2>2 DEF Newest
<1>2. CASE L <= keep
  <2>1. r = q
    BY <1>2 DEF Conversations!Trimmed
  <2>2. IsFiniteSet(1..L) /\ Cardinality(1..L) <= keep + 1
    <3> HIDE DEF L
    <3>1. IsFiniteSet(1..L) /\ Cardinality(1..L) = IF 1 > L THEN 0 ELSE L - 1 + 1
      <4>1. 1 \in Int /\ L \in Int
        BY <1>1
      <4> QED BY ONLY <4>1, FS_Interval
    <3> QED BY <1>1, <1>2, <3>1
  <2>3. \A i \in 1..Len(q) : \E k \in 1..L : q[i].at = q[k].at
    OBVIOUS
  <2>4. keep + 1 \in Nat /\ DOMAIN q = 1..Len(q)
    BY <1>1
  <2>5. Cardinality(Moments(q)) <= keep + 1
    <3> DEFINE S == 1..L
    <3> HIDE DEF S
    <3>1. IsFiniteSet(S) /\ Cardinality(S) <= keep + 1 /\ \A i \in 1..Len(q) : \E k \in S : q[i].at = q[k].at
      BY <2>2, <2>3 DEF S
    <3> QED BY <2>4, <3>1, MomentsBound
  <2> QED BY <1>1, <1>2, <2>1, <2>5
<1>3. CASE L > keep
  <2> DEFINE T == L - keep
             S == {i \in DOMAIN q : q[i].at >= q[T].at}
             k == Conversations!Min(S)
  <2>1. T \in 1..L /\ T \in Nat
    BY <1>1, <1>3
  <2>2. T \in S /\ S \in SUBSET (1..L)
    BY <1>1, <2>1
  <2>3. k \in S /\ k <= T
    BY <1>1, <2>2, FirstPosition
  <2>4. k \in 1..L /\ q[k].at >= q[T].at
    BY <1>1, <2>3
  <2>5. r = SubSeq(q, k, L)
    <3>1. ~(Len(q) <= keep)
      BY <1>1, <1>3
    <3> QED BY <3>1, Zenon DEF Conversations!Trimmed
  <2> HIDE DEF k, S, T, r
  <2>6. /\ r \in Seq(ConvMessage) /\ Len(r) = L - k + 1
        /\ \A i \in 1..(L - k + 1) : r[i] = q[k + i - 1]
    <3>1. k \in Int /\ L \in Int /\ \A i \in k..L : q[i] \in ConvMessage
      BY <1>1, <2>4
    <3>2. /\ r \in Seq(ConvMessage) /\ Len(r) = (IF k <= L THEN L - k + 1 ELSE 0)
          /\ \A i \in 1..(L - k + 1) : r[i] = q[k + i - 1]
      BY <2>5, <3>1, SubSeqProperties
    <3> QED BY <2>4, <3>2
  <2>7. Len(r) > keep /\ Len(r) <= L /\ Len(r) \in Nat
    BY <1>1, <2>1, <2>3, <2>4, <2>6 DEF T
  <2>8. ASSUME NEW i \in 1..Len(r) PROVE /\ k + i - 1 \in 1..L /\ r[i] = q[k + i - 1]
                                         /\ r[i].id = n - Len(r) + i /\ r[i].at <= t
    <3>1. k + i - 1 \in 1..L /\ r[i] = q[k + i - 1]
      BY <1>1, <2>4, <2>6
    <3>2. q[k + i - 1].id = n - L + (k + i - 1) /\ q[k + i - 1].at <= t
      BY <1>1, <3>1
    <3> QED BY <1>1, <2>4, <2>6, <3>1, <3>2
  <2>9. ASSUME NEW i \in 1..Len(r), NEW j \in 1..Len(r), i <= j PROVE r[i].at <= r[j].at
    <3>1. k + i - 1 <= k + j - 1
      BY <2>4, <2>9
    <3> QED BY <2>8, <3>1 DEF Newest
  <2>10. Newest(r, n, t)
    BY <1>1, <2>6, <2>7, <2>8, <2>9 DEF Newest
  <2>11. Cardinality(Moments(r)) <= keep + 1
    <3> DEFINE a == T - k + 1
               R == a..Len(r)
    <3>1. a \in 1..Len(r) /\ k + a - 1 = T /\ Len(r) - a + 1 = keep + 1
      BY <1>1, <2>1, <2>3, <2>4, <2>6 DEF T
    <3>2. IsFiniteSet(R) /\ Cardinality(R) <= keep + 1
      <4>1. a \in Int /\ Len(r) \in Int
        BY <2>7, <3>1
      <4> HIDE DEF a
      <4>2. IsFiniteSet(a..Len(r)) /\ Cardinality(a..Len(r)) = IF a > Len(r) THEN 0 ELSE Len(r) - a + 1
        BY ONLY <4>1, FS_Interval
      <4> QED BY <3>1, <4>1, <4>2
    <3>3. ASSUME NEW i \in 1..Len(r) PROVE \E p \in R : r[i].at = r[p].at
      <4>1. CASE i >= a
        BY <2>7, <3>1, <4>1
      <4>2. CASE ~(i >= a)
        <5>1. a \in R
          BY <2>7, <3>1
        <5>2. r[i].at <= r[a].at /\ r[a] = q[T]
          <6> HIDE DEF a
          <6>1. a \in 1..Len(r) /\ i <= a
            BY <2>7, <3>1, <4>2
          <6>2. r[i].at <= r[a].at
            BY <2>9, <6>1
          <6>3. r[a] = q[k + a - 1]
            BY <2>8, <6>1
          <6> QED BY <3>1, <6>2, <6>3
        <5>3. r[i].at >= q[k].at /\ q[k].at >= q[T].at
          <6>1. k <= k + i - 1 /\ k + i - 1 \in 1..L /\ r[i] = q[k + i - 1]
            <7>1. k + i - 1 \in 1..L /\ r[i] = q[k + i - 1]
              BY <2>8
            <7>2. k \in Int /\ i >= 1 /\ i \in Int
              BY <2>4
            <7> QED BY ONLY <7>1, <7>2
          <6> QED BY <2>4, <6>1 DEF Newest
        <5>4. r[i].at \in Nat /\ q[k].at \in Nat /\ q[T].at \in Nat
          BY <1>1, <2>1, <2>4, <2>8
        <5>5. r[i].at = r[a].at
          BY <5>2, <5>3, <5>4
        <5> QED BY <5>1, <5>5
      <4> QED BY <4>1, <4>2
    <3> HIDE DEF R
    <3>4. keep + 1 \in Nat /\ DOMAIN r = 1..Len(r)
      BY <2>6, LenProperties
    <3> QED BY <3>2, <3>3, <3>4, MomentsBound
  <2> QED BY <1>3, <2>7, <2>10, <2>11 DEF r
<1> QED BY <1>1, <1>2, <1>3

\* What a message said leaves: the newest, more than were to be kept or one more than before.
LEMMA SaysKeeps ==
    ASSUME NEW keep \in Nat, Conversations!Says(keep), said \in Nat, ms \in Nat
    PROVE  /\ said' = said + 1 /\ said' <= MaxSaid /\ ms' \in Nat
           /\ Newest(messages, said, ms) =>
                /\ Newest(messages', said', ms') /\ Cardinality(Moments(messages')) <= keep + 1
                /\ Len(messages') > keep \/ Len(messages') = Len(messages) + 1
<1> DEFINE q == Append(messages, [id |-> said + 1, at |-> ms'])
<1>1. said' = said + 1 /\ said < MaxSaid /\ ms' \in {ms, ms + 1} /\ messages' = Conversations!Trimmed(q, keep)
  BY DEF Conversations!Says
<1>2. said' <= MaxSaid /\ ms' \in Nat
  BY <1>1, ConvFacts
<1>3. ASSUME Newest(messages, said, ms)
      PROVE  /\ Newest(messages', said', ms') /\ Cardinality(Moments(messages')) <= keep + 1
             /\ Len(messages') > keep \/ Len(messages') = Len(messages) + 1
  <2> DEFINE u == ms'
  <2> HIDE DEF u
  <2>1. u \in {ms, ms + 1} /\ u \in Nat
    BY <1>1, <1>2 DEF u
  <2>2. Newest(Append(messages, [id |-> said + 1, at |-> u]), said + 1, u)
    BY <1>3, <2>1, MessageAppended
  <2>3. Newest(q, said + 1, u) /\ Len(q) = Len(messages) + 1
    <3>1. q = Append(messages, [id |-> said + 1, at |-> u])
      BY DEF u
    <3>2. messages \in Seq(ConvMessage)
      BY <1>3 DEF Newest
    <3>3. [id |-> said + 1, at |-> u] \in ConvMessage
      BY <2>1 DEF ConvMessage
    <3> QED BY <2>2, <3>1, <3>2, <3>3, AppendProperties
  <2> HIDE DEF q
  <2>4. /\ Newest(messages', said + 1, u) /\ Cardinality(Moments(messages')) <= keep + 1
        /\ Len(q) <= keep => messages' = q
        /\ Len(q) > keep => Len(messages') > keep
    <3>1. said + 1 \in Nat
      OBVIOUS
    <3> QED BY <1>1, <2>1, <2>3, <3>1, TrimmedTail
  <2>5. Len(q) \in Nat
    BY <2>3, LenProperties DEF Newest
  <2> QED BY <1>1, <2>3, <2>4, <2>5 DEF u
<1> QED BY <1>1, <1>2, <1>3

\* The agents that handed a conversation off are the last ones of its chain, in order, and
\* none of the later ones handed it to one of them.
Chained(h, c) ==
    /\ h \in Seq(Members \X Members) /\ Len(h) <= Len(c)
    /\ \A i \in 1..Len(h) : h[i][1] = c[Len(c) - Len(h) + i]
    /\ \A i, j \in 1..Len(h) : i < j => h[j][2] # h[i][1]

LEMMA HandoffChained ==
    ASSUME NEW c \in Seq(Members), NEW h, Chained(h, c), NEW from \in Members, NEW to \in Members,
           to \notin Conversations!ToSet(c)
    PROVE  Chained(Append(h, <<from, to>>), Append(c, from))
<1> DEFINE e == <<from, to>>
           r == Append(h, e)
           d == Append(c, from)
           N == Len(h)
           L == Len(c)
<1>1. /\ h \in Seq(Members \X Members) /\ N \in Nat /\ L \in Nat /\ N <= L
      /\ \A i \in 1..N : h[i][1] = c[L - N + i]
      /\ \A i, j \in 1..N : i < j => h[j][2] # h[i][1]
  BY LenProperties DEF Chained
<1>2. e \in Members \X Members /\ e[1] = from /\ e[2] = to
  OBVIOUS
<1>3. Len(d) = L + 1 /\ (\A i \in 1..L : d[i] = c[i]) /\ d[L + 1] = from
  BY AppendProperties
<1>4. \A i \in 1..L : c[i] # to
  BY LenProperties DEF Conversations!ToSet
<1> HIDE DEF e
<1>5. r \in Seq(Members \X Members) /\ Len(r) = N + 1 /\ (\A i \in 1..N : r[i] = h[i]) /\ r[N + 1] = e
  BY <1>1, <1>2, AppendProperties
<1> HIDE DEF r, d, N, L
<1>6. ASSUME NEW i \in 1..Len(r) PROVE r[i][1] = d[Len(d) - Len(r) + i]
  <2>1. CASE i = N + 1
    BY <1>1, <1>2, <1>3, <1>5, <2>1
  <2>2. CASE i # N + 1
    <3>1. i \in 1..N /\ L - N + i \in 1..L /\ Len(d) - Len(r) + i = L - N + i
      BY <1>1, <1>3, <1>5, <2>2
    <3> QED BY <1>1, <1>3, <1>5, <3>1
  <2> QED BY <2>1, <2>2
<1>7. ASSUME NEW i \in 1..Len(r), NEW j \in 1..Len(r), i < j PROVE r[j][2] # r[i][1]
  <2>1. i \in 1..N /\ L - N + i \in 1..L
    BY <1>1, <1>5, <1>7
  <2>2. CASE j = N + 1
    BY <1>1, <1>2, <1>4, <1>5, <2>1, <2>2
  <2>3. CASE j # N + 1
    <3>1. j \in 1..N
      BY <1>1, <1>5, <2>3
    <3> QED BY <1>1, <1>5, <1>7, <2>1, <3>1
  <2> QED BY <2>2, <2>3
<1>8. Chained(r, d)
  <2>1. Len(r) <= Len(d)
    BY <1>1, <1>3, <1>5
  <2> QED BY <1>5, <1>6, <1>7, <2>1 DEF Chained
<1> QED BY <1>8 DEF r, d, e

LEMMA NothingHandedOff ==
    ASSUME NEW c \in Seq(Members)
    PROVE  Chained(<<>>, c)
<1>1. <<>> \in Seq(Members \X Members) /\ Len(<<>>) = 0 /\ Len(c) \in Nat
  BY EmptySeq, LenProperties
<1>2. 1..Len(<<>>) = {}
  BY <1>1
<1> QED BY <1>1, <1>2 DEF Chained

RowKept(r) == r \in ConvRow /\ Len(r.chain) <= MaxChain
MessagesKept ==
    /\ Newest(messages, said, ms)
    /\ Len(messages) = said \/ Len(messages) > KeptByHandoff \/ Len(messages) > MaxMessages
    /\ handoffs = <<>> => Cardinality(Moments(messages)) <= MaxMessages + 1
ConvInv ==
    /\ conversation = NoConversation => handoffs = <<>>
    /\ conversation # NoConversation =>
         RowKept(conversation) /\ Chained(handoffs, conversation.chain)
         /\ (~restored => Len(handoffs) = Len(conversation.chain))
    /\ snapshot # NoConversation => RowKept(snapshot.row)
    /\ chat = "speaking" => conversation # NoConversation
    /\ restored \in BOOLEAN /\ said \in Nat /\ ms \in Nat
    /\ ~restored => MessagesKept

LEMMA ConvInitInv ==
    ASSUME Conversations!ConversationsInit
    PROVE  ConvInv
<1>1. /\ conversation = NoConversation /\ messages = <<>> /\ said = 0 /\ ms = 0
      /\ snapshot = NoConversation /\ restored = FALSE /\ handoffs = <<>> /\ chat = "none"
  BY DEF Conversations!ConversationsInit
<1>2. messages \in Seq(ConvMessage) /\ Len(messages) = 0 /\ 1..Len(messages) = {}
  BY <1>1, EmptySeq
<1>3. Newest(messages, said, ms)
  BY <1>1, <1>2 DEF Newest
<1>4. Cardinality(Moments(messages)) <= MaxMessages + 1
  <2>1. Moments(messages) = {}
    BY <1>1 DEF Moments, Conversations!ToSet
  <2> QED BY <2>1, FS_EmptySet, ConvFacts
<1>5. MessagesKept
  BY <1>1, <1>2, <1>3, <1>4 DEF MessagesKept
<1> QED BY <1>1, <1>5 DEF ConvInv

\* What a message does to the messages kept, when more than what a handoff, or another call,
\* is to leave are to be kept.
LEMMA SaysMessages ==
    ASSUME ConvInv, NEW keep \in Nat, Conversations!Says(keep),
           keep \in {MaxMessages, KeptByHandoff, MaxSaid},
           (keep = MaxMessages /\ UNCHANGED handoffs) \/ handoffs' # <<>>,
           UNCHANGED restored
    PROVE  /\ said' \in Nat /\ ms' \in Nat /\ restored' \in BOOLEAN
           /\ ~restored' => MessagesKept'
<1>1. said \in Nat /\ ms \in Nat /\ restored \in BOOLEAN
  BY DEF ConvInv
<1>2. /\ said' = said + 1 /\ said' <= MaxSaid /\ ms' \in Nat
      /\ Newest(messages, said, ms) =>
           /\ Newest(messages', said', ms') /\ Cardinality(Moments(messages')) <= keep + 1
           /\ Len(messages') > keep \/ Len(messages') = Len(messages) + 1
  BY <1>1, SaysKeeps
<1>3. ASSUME ~restored PROVE MessagesKept'
  <2>1. MessagesKept
    BY <1>3 DEF ConvInv
  <2>2. /\ Newest(messages', said', ms') /\ Cardinality(Moments(messages')) <= keep + 1
        /\ Len(messages') > keep \/ Len(messages') = Len(messages) + 1
    BY <1>2, <2>1 DEF MessagesKept
  <2>3. Len(messages) \in Nat /\ Len(messages') \in Nat /\ Len(messages') <= said'
    BY <2>1, <2>2, LenProperties DEF MessagesKept, Newest
  <2>4. Len(messages') = said' \/ Len(messages') > KeptByHandoff \/ Len(messages') > MaxMessages
    <3>1. Len(messages) = said \/ Len(messages) > KeptByHandoff \/ Len(messages) > MaxMessages
      BY <2>1 DEF MessagesKept
    <3> QED BY <1>1, <1>2, <2>2, <2>3, <3>1, ConvFacts
  <2>5. handoffs' = <<>> => Cardinality(Moments(messages')) <= MaxMessages + 1
    BY <2>2
  <2> QED BY <2>2, <2>4, <2>5 DEF MessagesKept
<1> QED BY <1>1, <1>2, <1>3

LEMMA ConvStep ==
    ASSUME ConvInv, Conversations!ConversationsNext
    PROVE  ConvInv'
<1>0. /\ conversation = NoConversation => handoffs = <<>>
      /\ conversation # NoConversation =>
           RowKept(conversation) /\ Chained(handoffs, conversation.chain)
           /\ (~restored => Len(handoffs) = Len(conversation.chain))
      /\ snapshot # NoConversation => RowKept(snapshot.row)
      /\ chat = "speaking" => conversation # NoConversation
      /\ restored \in BOOLEAN /\ said \in Nat /\ ms \in Nat
      /\ ~restored => MessagesKept
  BY DEF ConvInv
<1>1. ASSUME NEW c \in Seq(Members), NEW s \in {"active", "completed"}, Len(c) <= MaxChain,
             NEW r, r = [chain |-> c, status |-> s]
      PROVE  RowKept(r) /\ r # NoConversation /\ r.chain = c
  <2>1. r \in ConvRow
    BY <1>1 DEF ConvRow
  <2> QED BY <1>1, <2>1, ConvFacts DEF RowKept
<1>2. <<>> \in Seq(Members) /\ Len(<<>>) = 0 /\ 0 <= MaxChain /\ 1 <= MaxChain
  BY EmptySeq, ConvFacts
<1>3. CASE Conversations!Create
  <2>1. /\ conversation = NoConversation /\ conversation' = [chain |-> <<>>, status |-> "active"]
        /\ UNCHANGED <<messages, said, ms, snapshot, restored, handoffs, round, chat>>
    BY <1>3 DEF Conversations!Create, Conversations!Exists, Conversations!chatVars
  <2>2. RowKept(conversation') /\ conversation' # NoConversation /\ conversation'.chain = <<>>
    BY <1>1, <1>2, <2>1
  <2>3. handoffs' = <<>> /\ Chained(handoffs', conversation'.chain) /\ Len(handoffs') = Len(conversation'.chain)
    BY <1>0, <1>2, <2>1, <2>2, NothingHandedOff
  <2> QED BY <1>0, <2>1, <2>2, <2>3 DEF ConvInv, MessagesKept
<1>4. CASE Conversations!AddMessage
  <2>1. /\ conversation # NoConversation /\ Conversations!Says(MaxMessages)
        /\ UNCHANGED <<conversation, snapshot, restored, handoffs, round, chat>>
    BY <1>4 DEF Conversations!AddMessage, Conversations!Exists, Conversations!chatVars
  <2>2. said' \in Nat /\ ms' \in Nat /\ restored' \in BOOLEAN /\ (~restored' => MessagesKept')
    BY <2>1, SaysMessages, ConvFacts
  <2> QED BY <1>0, <2>1, <2>2 DEF ConvInv
<1>5. CASE \E s \in Conversations!Statuses : Conversations!SetStatus(s)
  <2>1. PICK s \in {"active", "completed"} :
          /\ conversation # NoConversation /\ conversation' = [conversation EXCEPT !.status = s]
          /\ UNCHANGED <<messages, said, ms, snapshot, restored, handoffs, round, chat>>
    BY <1>5 DEF Conversations!Statuses, Conversations!SetStatus, Conversations!Exists, Conversations!chatVars
  <2>2. RowKept(conversation') /\ conversation' # NoConversation /\ conversation'.chain = conversation.chain
    <3>1. conversation \in ConvRow /\ Len(conversation.chain) <= MaxChain
      BY <1>0, <2>1 DEF RowKept
    <3>2. conversation' \in ConvRow /\ conversation'.chain = conversation.chain
      BY <2>1, <3>1 DEF ConvRow
    <3> QED BY <3>1, <3>2, ConvFacts DEF RowKept
  <2> QED BY <1>0, <2>1, <2>2 DEF ConvInv, MessagesKept
<1>6. CASE Conversations!Checkpoint
  <2>1. /\ conversation # NoConversation /\ snapshot' = [row |-> conversation, messages |-> messages]
        /\ UNCHANGED <<conversation, messages, said, ms, restored, handoffs, round, chat>>
    BY <1>6 DEF Conversations!Checkpoint, Conversations!Exists, Conversations!chatVars
  <2>2. RowKept(snapshot'.row)
    BY <1>0, <2>1
  <2> QED BY <1>0, <2>1, <2>2 DEF ConvInv, MessagesKept
<1>7. CASE Conversations!Restore
  <2>1. /\ snapshot # NoConversation /\ conversation' = [snapshot.row EXCEPT !.status = "active"]
        /\ restored' = TRUE /\ handoffs' = <<>> /\ UNCHANGED <<said, ms, snapshot, round, chat>>
    BY <1>7 DEF Conversations!Restore, Conversations!chatVars
  <2>2. RowKept(conversation') /\ conversation' # NoConversation /\ conversation'.chain \in Seq(Members)
    <3>1. snapshot.row \in ConvRow /\ Len(snapshot.row.chain) <= MaxChain
      BY <1>0, <2>1 DEF RowKept
    <3>2. conversation' \in ConvRow /\ conversation'.chain = snapshot.row.chain
      BY <2>1, <3>1 DEF ConvRow
    <3> QED BY <3>1, <3>2, ConvFacts DEF RowKept, ConvRow
  <2>3. Chained(handoffs', conversation'.chain)
    BY <2>1, <2>2, NothingHandedOff
  <2> QED BY <1>0, <2>1, <2>2, <2>3 DEF ConvInv
<1>8. CASE \E from, to \in Members : Conversations!HandoffNew(from, to)
  <2>1. PICK from \in Members, to \in Members :
          /\ conversation = NoConversation /\ Conversations!Says(MaxSaid)
          /\ conversation' = [chain |-> <<from>>, status |-> "active"] /\ handoffs' = <<<<from, to>>>>
          /\ UNCHANGED <<snapshot, restored, round, chat>>
    BY <1>8 DEF Conversations!HandoffNew, Conversations!Exists, Conversations!chatVars
  <2>2. <<from>> \in Seq(Members) /\ Len(<<from>>) = 1
    OBVIOUS
  <2>3. RowKept(conversation') /\ conversation' # NoConversation /\ conversation'.chain = <<from>>
    BY <1>1, <1>2, <2>1, <2>2
  <2>4. Chained(handoffs', conversation'.chain) /\ Len(handoffs') = Len(conversation'.chain) /\ handoffs' # <<>>
    <3>1. handoffs' \in Seq(Members \X Members) /\ Len(handoffs') = 1 /\ handoffs'[1][1] = from
      BY <2>1
    <3> QED BY <2>2, <2>3, <3>1 DEF Chained
  <2>5. said' \in Nat /\ ms' \in Nat /\ restored' \in BOOLEAN /\ (~restored' => MessagesKept')
    BY <2>1, <2>4, SaysMessages, ConvFacts
  <2> QED BY <1>0, <2>1, <2>3, <2>4, <2>5 DEF ConvInv
<1>9. CASE \E from, to \in Members : \E p \in BOOLEAN : Conversations!Handoff(from, to, p)
  <2>1. PICK from \in Members, to \in Members, p \in BOOLEAN :
          /\ conversation # NoConversation /\ ~Conversations!DetectCycle(to)
          /\ Conversations!Says(IF p THEN MaxSaid ELSE KeptByHandoff)
          /\ conversation' = [chain |-> Append(conversation.chain, from), status |-> "active"]
          /\ handoffs' = Append(handoffs, <<from, to>>)
          /\ UNCHANGED <<snapshot, restored, round, chat>>
    BY <1>9 DEF Conversations!Handoff, Conversations!Exists, Conversations!chatVars
  <2>2. /\ conversation.chain \in Seq(Members) /\ Len(conversation.chain) < MaxChain /\ Len(conversation.chain) \in Nat
        /\ to \notin Conversations!ToSet(conversation.chain) /\ Chained(handoffs, conversation.chain)
        /\ handoffs \in Seq(Members \X Members)
    <3>1. conversation \in ConvRow /\ Chained(handoffs, conversation.chain)
      BY <1>0, <2>1 DEF RowKept
    <3>2. conversation.chain \in Seq(Members) /\ handoffs \in Seq(Members \X Members)
      BY <3>1 DEF ConvRow, Chained
    <3> QED BY <2>1, <3>1, <3>2, ConvFacts, LenProperties DEF Conversations!DetectCycle
  <2>3. /\ Append(conversation.chain, from) \in Seq(Members)
        /\ Len(Append(conversation.chain, from)) = Len(conversation.chain) + 1
        /\ Len(handoffs') = Len(handoffs) + 1 /\ Len(handoffs) \in Nat
    BY <2>1, <2>2, AppendProperties, LenProperties
  <2>4. RowKept(conversation') /\ conversation' # NoConversation
        /\ conversation'.chain = Append(conversation.chain, from)
    <3>1. Len(Append(conversation.chain, from)) <= MaxChain
      BY <2>2, <2>3, ConvFacts
    <3> QED BY <1>1, <2>1, <2>3, <3>1
  <2>5. Chained(handoffs', conversation'.chain)
    BY <2>1, <2>2, <2>4, HandoffChained
  <2>6. handoffs' # <<>> /\ (~restored => Len(handoffs') = Len(conversation'.chain))
    BY <1>0, <2>1, <2>3, <2>4
  <2>7. said' \in Nat /\ ms' \in Nat /\ restored' \in BOOLEAN /\ (~restored' => MessagesKept')
    <3>1. PICK k \in {MaxSaid, KeptByHandoff} : Conversations!Says(k)
      BY <2>1
    <3>2. UNCHANGED restored
      BY <2>1
    <3> QED BY <2>6, <3>1, <3>2, SaysMessages, ConvFacts
  <2> QED BY <1>0, <2>1, <2>4, <2>5, <2>6, <2>7 DEF ConvInv
<1>10. CASE Conversations!StartChat
  <2>1. /\ conversation = NoConversation /\ Conversations!Says(MaxMessages)
        /\ conversation' = [chain |-> <<>>, status |-> "active"] /\ UNCHANGED <<snapshot, restored, handoffs>>
    BY <1>10 DEF Conversations!StartChat, Conversations!Exists
  <2>2. RowKept(conversation') /\ conversation' # NoConversation /\ conversation'.chain = <<>>
    BY <1>1, <1>2, <2>1
  <2>3. handoffs' = <<>> /\ Chained(handoffs', conversation'.chain) /\ Len(handoffs') = Len(conversation'.chain)
    BY <1>0, <1>2, <2>1, <2>2, NothingHandedOff
  <2>4. said' \in Nat /\ ms' \in Nat /\ restored' \in BOOLEAN /\ (~restored' => MessagesKept')
    BY <2>1, SaysMessages, ConvFacts
  <2> QED BY <1>0, <2>1, <2>2, <2>3, <2>4 DEF ConvInv
<1>11. CASE Conversations!SpeakerAnswers
  <2>1. /\ chat = "speaking" /\ Conversations!Says(MaxMessages) /\ UNCHANGED <<snapshot, restored, handoffs>>
        /\ \/ chat' = "ended" /\ conversation' = [conversation EXCEPT !.status = "completed"]
           \/ UNCHANGED <<chat, conversation>>
    BY <1>11 DEF Conversations!SpeakerAnswers
  <2>2. conversation # NoConversation /\ conversation \in ConvRow /\ Len(conversation.chain) <= MaxChain
    BY <1>0, <2>1 DEF RowKept
  <2>3. RowKept(conversation') /\ conversation' # NoConversation /\ conversation'.chain = conversation.chain
    <3>1. conversation' \in ConvRow /\ conversation'.chain = conversation.chain
      BY <2>1, <2>2 DEF ConvRow
    <3> QED BY <2>2, <3>1, ConvFacts DEF RowKept
  <2>4. said' \in Nat /\ ms' \in Nat /\ restored' \in BOOLEAN /\ (~restored' => MessagesKept')
    BY <2>1, SaysMessages, ConvFacts
  <2>5. ~restored' => Len(handoffs') = Len(conversation'.chain)
    BY <1>0, <2>1, <2>2, <2>3
  <2> QED BY <1>0, <2>1, <2>2, <2>3, <2>4, <2>5 DEF ConvInv
<1>12. CASE Conversations!SpeakerFails
  <2>1. chat' = "failed" /\ UNCHANGED <<conversation, messages, said, ms, snapshot, restored, handoffs, round>>
    BY <1>12 DEF Conversations!SpeakerFails
  <2> QED BY <1>0, <2>1 DEF ConvInv, MessagesKept
<1> QED
  BY <1>3, <1>4, <1>5, <1>6, <1>7, <1>8, <1>9, <1>10, <1>11, <1>12 DEF Conversations!ConversationsNext

LEMMA ConvStepInv == ConvInv /\ [Conversations!ConversationsNext]_convVars => ConvInv'
<1> SUFFICES ASSUME ConvInv, [Conversations!ConversationsNext]_convVars PROVE ConvInv'
  OBVIOUS
<1>1. CASE UNCHANGED convVars
  <2>1. UNCHANGED <<conversation, messages, said, ms, snapshot, restored, handoffs, round, chat>>
    BY <1>1 DEF convVars
  <2> QED BY <2>1 DEF ConvInv, MessagesKept, RowKept, Chained, Newest, Moments, Conversations!ToSet
<1> QED BY <1>1, ConvStep

LEMMA ConvHolds ==
    ASSUME ConvInv
    PROVE  Conversations!ConversationsKept
<1>1. Conversations!HandoffsNeverReturn
  <2>1. CASE conversation = NoConversation
    <3>1. handoffs = <<>> /\ 1..Len(handoffs) = {}
      BY <2>1, EmptySeq DEF ConvInv
    <3> QED BY <2>1, <3>1 DEF Conversations!HandoffsNeverReturn, Conversations!Exists
  <2>2. CASE conversation # NoConversation
    <3>1. /\ RowKept(conversation) /\ Chained(handoffs, conversation.chain)
          /\ (~restored => Len(handoffs) = Len(conversation.chain))
      BY <2>2 DEF ConvInv
    <3>2. Len(conversation.chain) <= MaxChain /\ \A i, j \in 1..Len(handoffs) : i < j => handoffs[j][2] # handoffs[i][1]
      BY <3>1 DEF RowKept, Chained
    <3> QED BY <3>1, <3>2 DEF Conversations!HandoffsNeverReturn
  <2> QED BY <2>1, <2>2
<1>2. Conversations!KeepsNewestMessages
  <2>1. CASE ~restored
    <3>1. MessagesKept
      BY <2>1 DEF ConvInv
    <3>2. \A i \in 1..Len(messages) : messages[i].id = said - Len(messages) + i
      BY <3>1 DEF MessagesKept, Newest
    <3>3. Conversations!Cardinality(Moments(messages)) = Cardinality(Moments(messages))
      BY DEF Conversations!Cardinality, Cardinality
    <3>4. {m.at : m \in Conversations!ToSet(messages)} = Moments(messages)
      BY DEF Moments
    <3> QED BY <3>1, <3>2, <3>3, <3>4 DEF MessagesKept, Conversations!KeepsNewestMessages
  <2>2. CASE restored
    BY <2>2 DEF Conversations!KeepsNewestMessages
  <2> QED BY <2>1, <2>2 DEF ConvInv
<1> QED BY <1>1, <1>2 DEF Conversations!ConversationsKept

-----------------------------------------------------------------------------
(* Tiers *)

\* A function on a set can be iterated from any of its elements,
Closed(g, D) == \A x \in D : g[x] \in D
Iterated(f, g, D, a, N) == f \in [0..N -> D] /\ f[0] = a /\ \A k \in 1..N : f[k] = g[f[k - 1]]
LEMMA Iterates ==
    ASSUME NEW D, NEW g, Closed(g, D), NEW a \in D, NEW N \in Nat
    PROVE  \E f : Iterated(f, g, D, a, N)
<1> DEFINE Is(f, n) == f[0] = a /\ \A k \in 1..n : f[k] = g[f[k - 1]]
           Done == {n \in Nat : \E f \in [0..n -> D] : Is(f, n)}
<1>0. \A x \in D : g[x] \in D
  BY DEF Closed
<1>1. 0 \in Done
  <2> DEFINE f == [i \in 0..0 |-> a]
  <2>1. f \in [0..0 -> D] /\ Is(f, 0)
    OBVIOUS
  <2> QED BY <2>1
<1>2. ASSUME NEW n \in 1..N, n - 1 \in Done PROVE n \in Done
  <2>1. PICK f \in [0..(n - 1) -> D] : Is(f, n - 1)
    BY <1>2
  <2> DEFINE h == [i \in 0..n |-> IF i = n THEN g[f[n - 1]] ELSE f[i]]
  <2>2. n - 1 \in 0..(n - 1) /\ f[n - 1] \in D /\ g[f[n - 1]] \in D
    BY <1>0
  <2>3. h \in [0..n -> D]
    <3>1. \A i \in 0..n : i # n => i \in 0..(n - 1)
      OBVIOUS
    <3> QED BY <2>2, <3>1
  <2>4. h[0] = a
    BY <2>1
  <2>5. ASSUME NEW k \in 1..n PROVE h[k] = g[h[k - 1]]
    <3>1. k - 1 \in 0..n /\ k - 1 # n /\ h[k - 1] = f[k - 1]
      OBVIOUS
    <3>2. CASE k = n
      BY <3>1, <3>2
    <3>3. CASE k # n
      <4>1. k \in 1..(n - 1) /\ h[k] = f[k]
        BY <3>3
      <4> QED BY <2>1, <3>1, <4>1
    <3> QED BY <3>2, <3>3
  <2> HIDE DEF h
  <2> QED BY <2>3, <2>4, <2>5
<1>3. N \in Done
  <2> HIDE DEF Done
  <2>1. 0..N \subseteq Done
    BY <1>1, <1>2, CountUp
  <2> QED BY <2>1
<1> QED BY <1>3 DEF Iterated

\* and among more positions than a set has elements, one of them comes twice.
LEMMA ComesTwice ==
    ASSUME NEW S, IsFiniteSet(S), NEW f, \A k \in 0..Cardinality(S) : f[k] \in S
    PROVE  \E i, j \in 0..Cardinality(S) : i < j /\ f[i] = f[j]
<1> DEFINE M == Cardinality(S)
           I == 0..M
           h == [k \in I |-> f[k]]
<1>1. M \in Nat
  BY FS_CardinalityType
<1>2. IsFiniteSet(I) /\ Cardinality(I) = M + 1
  <2>1. 0 \in Int /\ M \in Int
    BY <1>1
  <2> HIDE DEF M
  <2>2. IsFiniteSet(0..M) /\ Cardinality(0..M) = IF 0 > M THEN 0 ELSE M - 0 + 1
    BY ONLY <2>1, FS_Interval
  <2> QED BY <1>1, <2>2
<1>3. h \in [I -> S]
  OBVIOUS
<1>4. Cardinality(S) < Cardinality(I)
  BY <1>1, <1>2
<1>5. \E x, y \in I : x # y /\ h[x] = h[y]
  <2> HIDE DEF h, I, M
  <2> QED BY <1>2, <1>3, <1>4, FS_PigeonHole
<1>6. PICK x \in I, y \in I : x # y /\ f[x] = f[y]
  BY <1>5
<1>7. CASE x < y
  BY <1>6, <1>7
<1>8. CASE y < x
  BY <1>6, <1>8
<1> QED BY <1>1, <1>6, <1>7, <1>8

TierDefinition == [rank : TierRanks, targets : Seq(TierNames)]
TiersTyped == tiers \in [TierNames -> {NoTier} \cup TierDefinition]
LEMMA TierFacts == IsFiniteSet(TierNames) /\ NoTier \notin TierNames /\ TierRanks \subseteq Int
  BY LoopsAssumption, Zenon

\* Where the walk of validate() goes from x.
FirstTarget(x) ==
    IF x = NoTier \/ Tiers!TargetsOf(x) = <<>> THEN NoTier ELSE Tiers!TargetsOf(x)[1]
Ends == Cardinality(TierNames) + 1

LEMMA KnownTiers ==
    ASSUME TiersTyped
    PROVE  /\ Tiers!Known \subseteq TierNames /\ IsFiniteSet(Tiers!Known) /\ Cardinality(Tiers!Known) \in Nat
           /\ Cardinality(TierNames) \in Nat /\ Cardinality(Tiers!Known) <= Cardinality(TierNames)
           /\ \A n \in Tiers!Known : tiers[n] \in TierDefinition /\ tiers[n].rank \in Int
           /\ \A x : Tiers!TargetsOf(x) \in Seq(TierNames)
<1>1. Tiers!Known \subseteq TierNames /\ \A n \in Tiers!Known : tiers[n] \in TierDefinition
  BY DEF TiersTyped, Tiers!Known
<1>2. \A n \in Tiers!Known : tiers[n].rank \in Int /\ tiers[n].targets \in Seq(TierNames)
  BY <1>1, TierFacts DEF TierDefinition
<1>3. \A x : Tiers!TargetsOf(x) \in Seq(TierNames)
  BY <1>2, EmptySeq DEF Tiers!TargetsOf
<1> QED BY <1>1, <1>2, <1>3, TierFacts, FS_Subset, FS_CardinalityType

LEMMA WalkUnfolds ==
    ASSUME TiersTyped, NEW n \in TierNames
    PROVE  /\ Tiers!Walk(n) \in [0..Ends -> TierNames \cup {NoTier}] /\ Tiers!Walk(n)[0] = n
           /\ \A k \in 1..Ends : Tiers!Walk(n)[k] = FirstTarget(Tiers!Walk(n)[k - 1])
<1> DEFINE D == TierNames \cup {NoTier}
           g == [x \in D |-> FirstTarget(x)]
           N == Ends
           IsWalk(w) == w = [k \in 0..N |-> IF k = 0 THEN n
                                            ELSE IF w[k - 1] = NoTier \/ Tiers!TargetsOf(w[k - 1]) = <<>> THEN NoTier
                                            ELSE Tiers!TargetsOf(w[k - 1])[1]]
           W == CHOOSE w : IsWalk(w)
<1>1. N \in Nat
  BY KnownTiers DEF Ends
<1>2. ASSUME NEW x \in D PROVE FirstTarget(x) \in D
  <2>1. CASE x = NoTier \/ Tiers!TargetsOf(x) = <<>>
    BY <2>1 DEF FirstTarget
  <2>2. CASE ~(x = NoTier \/ Tiers!TargetsOf(x) = <<>>)
    <3> DEFINE q == Tiers!TargetsOf(x)
    <3> HIDE DEF q
    <3>1. q \in Seq(TierNames) /\ q # <<>>
      BY <2>2, KnownTiers DEF q
    <3>2. q[1] \in TierNames
      BY <3>1, EmptySeq, ElementOfSeq, LenProperties
    <3> QED BY <2>2, <3>2 DEF FirstTarget, q
  <2> QED BY <2>1, <2>2
<1>3. (\A x \in D : g[x] \in D) /\ n \in D
  BY <1>2
<1>4. PICK f : f \in [0..N -> D] /\ f[0] = n /\ \A k \in 1..N : f[k] = g[f[k - 1]]
  <2> HIDE DEF g, D, N
  <2>1. N \in Nat /\ Closed(g, D) /\ n \in D
    BY <1>1, <1>3 DEF Closed
  <2>2. \E f : Iterated(f, g, D, n, N)
    BY ONLY <2>1, Iterates, Zenon
  <2> QED BY <2>2, Zenon DEF Iterated
<1>5. IsWalk(f)
  <2>1. ASSUME NEW k \in 0..N PROVE f[k] = IF k = 0 THEN n ELSE FirstTarget(f[k - 1])
    <3>1. CASE k = 0
      BY <1>4, <3>1
    <3>2. CASE k # 0
      <4>1. k \in 1..N /\ k - 1 \in 0..N
        BY <1>1, <3>2
      <4>2. f[k - 1] \in D
        BY <1>4, <4>1
      <4> QED BY <1>4, <3>2, <4>1, <4>2
    <3> QED BY <3>1, <3>2
  <2>2. f = [k \in 0..N |-> IF k = 0 THEN n ELSE FirstTarget(f[k - 1])]
    <3> HIDE DEF N, D
    <3> QED BY <1>4, <2>1
  <2> HIDE DEF N, D
  <2> QED BY <2>2, Zenon DEF FirstTarget
<1>6. IsWalk(W)
  <2> HIDE DEF IsWalk
  <2>1. \E w : IsWalk(w)
    BY <1>5
  <2> QED BY <2>1
<1>7. Tiers!Walk(n) = W
  <2>1. Tiers!Cardinality(TierNames) = Cardinality(TierNames)
    BY DEF Tiers!Cardinality, Cardinality
  <2> QED BY <2>1, Zenon DEF Tiers!Walk, Ends
<1> HIDE DEF W
<1>8. W = [k \in 0..N |-> IF k = 0 THEN n ELSE FirstTarget(W[k - 1])]
  <2> HIDE DEF N
  <2> QED BY <1>6, Zenon DEF FirstTarget
<1> HIDE DEF IsWalk
<1>9. W[0] = n /\ \A k \in 1..N : W[k] = FirstTarget(W[k - 1])
  <2>1. \A k \in 0..N : W[k] = IF k = 0 THEN n ELSE FirstTarget(W[k - 1])
    <3> HIDE DEF N
    <3> QED BY <1>8
  <2>2. 0 \in 0..N /\ \A k \in 1..N : k \in 0..N /\ k # 0
    BY <1>1
  <2> QED BY <2>1, <2>2
<1>10. 0..N \subseteq {k \in 0..N : W[k] \in D}
  <2> DEFINE S == {k \in 0..N : W[k] \in D}
  <2>1. 0 \in S
    BY <1>1, <1>3, <1>9
  <2>2. \A k \in 1..N : k - 1 \in S => k \in S
    BY <1>1, <1>2, <1>9
  <2> HIDE DEF S
  <2> QED
    <3>1. 0..N \subseteq S
      BY <1>1, <2>1, <2>2, CountUp
    <3> QED BY <3>1 DEF S
<1>11. W \in [0..N -> D]
  <2> HIDE DEF N
  <2>1. W = [k \in 0..N |-> W[k]]
    <3>1. \E F : W = [k \in 0..N |-> F[k]]
      <4> DEFINE F == [k \in 0..N |-> IF k = 0 THEN n ELSE FirstTarget(W[k - 1])]
      <4>1. W = F /\ F = [k \in 0..N |-> F[k]]
        BY <1>8
      <4> HIDE DEF F
      <4> QED BY <4>1
    <3> QED BY <3>1
  <2> QED BY <1>10, <2>1
<1> QED BY <1>7, <1>9, <1>11

\* A tier's walk has ended, or it is one of the tiers known that it has come to before, and
\* that one is circular.
LEMMA WalkEnds ==
    ASSUME TiersTyped, Tiers!Validates, NEW n \in Tiers!Known
    PROVE  Tiers!Walk(n)[Ends] = NoTier
<1> DEFINE W == Tiers!Walk(n)
           N == Ends
           M == Cardinality(Tiers!Known)
<1>1. /\ n \in TierNames /\ N \in Nat /\ M \in Nat /\ M <= N - 1 /\ N >= 1
      /\ IsFiniteSet(Tiers!Known) /\ Tiers!Known \subseteq TierNames
  BY KnownTiers DEF Ends
<1>2. W[0] = n /\ \A k \in 1..N : W[k] = FirstTarget(W[k - 1])
  <2> HIDE DEF N, W
  <2>1. n \in TierNames
    BY <1>1
  <2> QED BY <2>1, WalkUnfolds DEF N, W
<1> HIDE DEF W, N, M
<1>3. SUFFICES ASSUME W[N] # NoTier PROVE FALSE
  BY DEF W, N
<1>4. \A x : FirstTarget(x) # NoTier => x \in Tiers!Known /\ x # NoTier
  BY <1>1, TierFacts DEF FirstTarget, Tiers!TargetsOf
<1>5. \A k \in 0..N : W[N - k] # NoTier
  <2> DEFINE S == {k \in 0..N : W[N - k] # NoTier}
  <2>1. 0 \in S
    BY <1>1, <1>3
  <2>2. ASSUME NEW k \in 1..N, k - 1 \in S PROVE k \in S
    <3>1. W[N - (k - 1)] # NoTier /\ N - (k - 1) \in 1..N /\ N - (k - 1) - 1 = N - k
      BY <1>1, <2>2
    <3>2. W[N - (k - 1)] = FirstTarget(W[N - k])
      BY <1>2, <3>1
    <3>3. W[N - k] # NoTier
      BY <1>4, <3>1, <3>2
    <3> QED BY <1>1, <3>3
  <2>3. 0..N \subseteq S
    <3> HIDE DEF S
    <3> QED BY <1>1, <2>1, <2>2, CountUp
  <2> QED BY <2>3
<1>6. ASSUME NEW k \in 0..M PROVE W[k] \in Tiers!Known
  <2>1. k + 1 \in 1..N /\ k + 1 - 1 = k /\ N - (k + 1) \in 0..N /\ N - (N - (k + 1)) = k + 1
    BY <1>1
  <2>2. W[k + 1] # NoTier /\ W[k + 1] = FirstTarget(W[k])
    BY <1>2, <1>5, <2>1
  <2> QED BY <1>4, <2>2
<1>7. PICK i \in 0..M, j \in 0..M : i < j /\ W[i] = W[j]
  <2>1. \A k \in 0..Cardinality(Tiers!Known) : W[k] \in Tiers!Known
    BY <1>6 DEF M
  <2> QED BY <1>1, <2>1, ComesTwice DEF M
<1> DEFINE x == W[i]
           V == Tiers!Walk(x)
           d == j - i
<1>8. x \in Tiers!Known /\ x \in TierNames /\ d \in 1..M /\ d \in Nat /\ \A k \in 1..d : k \in 1..N /\ i + k \in 1..N
  BY <1>1, <1>6, <1>7
<1> HIDE DEF d, x
<1>9. V[0] = x /\ \A k \in 1..N : V[k] = FirstTarget(V[k - 1])
  BY <1>8, WalkUnfolds DEF N
<1> HIDE DEF V
<1>10. \A k \in 0..d : V[k] = W[i + k]
  <2> DEFINE S == {k \in 0..d : V[k] = W[i + k]}
  <2>1. 0 \in S
    BY <1>7, <1>8, <1>9 DEF x
  <2>2. ASSUME NEW k \in 1..d, k - 1 \in S PROVE k \in S
    <3>1. k \in 1..N /\ i + k \in 1..N /\ i + k - 1 = i + (k - 1) /\ k \in 0..d
      BY <1>8, <1>7
    <3>2. V[k] = FirstTarget(V[k - 1]) /\ W[i + k] = FirstTarget(W[i + (k - 1)])
      BY <1>2, <1>9, <3>1
    <3> QED BY <2>2, <3>1, <3>2
  <2>3. 0..d \subseteq S
    <3> HIDE DEF S
    <3> QED BY <1>8, <2>1, <2>2, CountUp
  <2> QED BY <2>3
<1>11. V[d] = x
  <2>1. d \in 0..d /\ i + d = j
    BY <1>7, <1>8 DEF d
  <2> QED BY <1>7, <1>10, <2>1 DEF x
<1>12. Tiers!Circular(x)
  <2>1. Tiers!Cardinality(Tiers!Known) = M
    BY DEF Tiers!Cardinality, Cardinality, M
  <2> QED BY <1>8, <1>11, <2>1 DEF Tiers!Circular, V
<1> QED BY <1>8, <1>12 DEF Tiers!Validates

\* The order of the ranks: each tier there is once, none below the next.
TiersOrdered ==
    /\ Len(rankOrder) = Cardinality(Tiers!Known) /\ rankOrder \in [1..Len(rankOrder) -> Tiers!Known]
    /\ \A i, j \in 1..Len(rankOrder) : i # j => rankOrder[i] # rankOrder[j]
    /\ \A i \in 1..Len(rankOrder) - 1 : tiers[rankOrder[i]].rank <= tiers[rankOrder[i + 1]].rank
TiersInv == TiersTyped /\ TiersOrdered

LEMMA OrderRebuilt ==
    ASSUME TiersTyped', Tiers!RebuildRankOrder
    PROVE  TiersInv'
<1> DEFINE K == {n \in TierNames : tiers'[n] # NoTier}
<1>1. PICK order \in Tiers!SetToSeqs(K) :
        /\ \A i \in 1..Len(order) - 1 : tiers'[order[i]].rank <= tiers'[order[i + 1]].rank
        /\ rankOrder' = order
  BY DEF Tiers!RebuildRankOrder
<1>2. /\ order \in [1..Cardinality(K) -> K]
      /\ \A i, j \in 1..Cardinality(K) : i # j => order[i] # order[j]
  <2>1. Tiers!Cardinality(K) = Cardinality(K)
    BY DEF Tiers!Cardinality, Cardinality
  <2> HIDE DEF K
  <2> QED BY <1>1, <2>1 DEF Tiers!SetToSeqs
<1>3. Cardinality(K) \in Nat
  <2>1. K \subseteq TierNames
    OBVIOUS
  <2> HIDE DEF K
  <2> QED BY <2>1, TierFacts, FS_Subset, FS_CardinalityType
<1>4. (Tiers!Known)' = K
  BY DEF Tiers!Known
<1> HIDE DEF K
<1>5. Len(order) = Cardinality(K)
  BY <1>2, <1>3
<1> QED BY <1>1, <1>2, <1>4, <1>5 DEF TiersInv, TiersOrdered

LEMMA TiersInitInv ==
    ASSUME Tiers!TiersInit
    PROVE  TiersInv
<1>1. tiers = [n \in TierNames |-> NoTier] /\ rankOrder = <<>>
  BY DEF Tiers!TiersInit
<1>2. TiersTyped /\ Tiers!Known = {}
  BY <1>1 DEF TiersTyped, Tiers!Known
<1>3. Cardinality(Tiers!Known) = 0 /\ Len(rankOrder) = 0 /\ rankOrder \in [1..Len(rankOrder) -> Tiers!Known]
  BY <1>1, <1>2, FS_EmptySet
<1> QED BY <1>2, <1>3 DEF TiersInv, TiersOrdered

LEMMA TiersStep ==
    ASSUME TiersInv, Tiers!TiersNext
    PROVE  TiersInv'
<1>1. PICK n \in TierNames : Tiers!UnregisterTier(n) \/ \E def \in Tiers!Definitions : Tiers!RegisterTier(n, def)
  BY DEF Tiers!TiersNext
<1>2. TiersTyped
  BY DEF TiersInv
<1>3. CASE Tiers!UnregisterTier(n)
  <2>1. tiers' = [tiers EXCEPT ![n] = NoTier] /\ Tiers!RebuildRankOrder
    BY <1>3 DEF Tiers!UnregisterTier
  <2>2. TiersTyped'
    BY <1>2, <2>1 DEF TiersTyped
  <2> QED BY <2>1, <2>2, OrderRebuilt
<1>4. CASE \E def \in Tiers!Definitions : Tiers!RegisterTier(n, def)
  <2>1. PICK def \in Tiers!Definitions : tiers' = [tiers EXCEPT ![n] = def] /\ Tiers!RebuildRankOrder
    BY <1>4 DEF Tiers!RegisterTier
  <2>2. def \in TierDefinition
    <3>1. Tiers!BoundedSeq(TierNames, MaxTargets) \subseteq Seq(TierNames)
      BY DEF Tiers!BoundedSeq, Tiers!SeqOf
    <3> QED BY <3>1 DEF Tiers!Definitions, TierDefinition
  <2>3. TiersTyped'
    BY <1>2, <2>1, <2>2 DEF TiersTyped
  <2> QED BY <2>1, <2>3, OrderRebuilt
<1> QED BY <1>1, <1>3, <1>4

LEMMA TiersStepInv == TiersInv /\ [Tiers!TiersNext]_tierVars => TiersInv'
<1> SUFFICES ASSUME TiersInv, [Tiers!TiersNext]_tierVars PROVE TiersInv'
  OBVIOUS
<1>1. CASE UNCHANGED tierVars
  <2>1. UNCHANGED <<tiers, rankOrder>>
    BY <1>1 DEF tierVars
  <2> QED BY <2>1 DEF TiersInv, TiersTyped, TiersOrdered, Tiers!Known
<1> QED BY <1>1, TiersStep

LEMMA TiersHold ==
    ASSUME TiersInv
    PROVE  Tiers!FirstTargetsEnd
<1> DEFINE K == Tiers!Known
           L == Len(rankOrder)
<1>1. /\ IsFiniteSet(K) /\ Cardinality(K) \in Nat /\ L = Cardinality(K) /\ rankOrder \in [1..L -> K]
      /\ \A i, j \in 1..L : i # j => rankOrder[i] # rankOrder[j]
      /\ \A i \in 1..L - 1 : tiers[rankOrder[i]].rank <= tiers[rankOrder[i + 1]].rank
      /\ \A m \in K : tiers[m].rank \in Int
  BY KnownTiers DEF TiersInv, TiersOrdered
<1>2. Tiers!Cardinality(K) = Cardinality(K) /\ Tiers!Cardinality(TierNames) = Cardinality(TierNames)
  BY DEF Tiers!Cardinality, Cardinality
<1> HIDE DEF K, L
<1>3. \A m \in K : \E i \in 1..L : rankOrder[i] = m
  <2>1. rankOrder \in Injection(1..L, K)
    BY <1>1 DEF Injection, IsInjective
  <2>2. Cardinality(1..L) = Cardinality(K)
    <3>1. 1 \in Int /\ L \in Int
      BY <1>1
    <3>2. Cardinality(1..L) = IF 1 > L THEN 0 ELSE L - 1 + 1
      BY ONLY <3>1, FS_Interval
    <3> QED BY <1>1, <3>2
  <2>3. rankOrder \in Surjection(1..L, K)
    BY <1>1, <2>1, <2>2, FS_Injection
  <2> QED BY <2>3 DEF Surjection
<1>4. Tiers!ToSet(rankOrder) = K
  BY <1>1, <1>3 DEF Tiers!ToSet
<1>5. ASSUME NEW m \in K PROVE tiers[Tiers!GetTopTier].rank <= tiers[m].rank
  <2>1. PICK i \in 1..L : rankOrder[i] = m
    BY <1>3
  <2> DEFINE S == {k \in 0..(L - 1) : tiers[rankOrder[1]].rank <= tiers[rankOrder[k + 1]].rank}
  <2>2. 0 \in S
    BY <1>1, <2>1
  <2>3. ASSUME NEW k \in 1..(L - 1), k - 1 \in S PROVE k \in S
    <3>1. tiers[rankOrder[1]].rank <= tiers[rankOrder[k]].rank /\ tiers[rankOrder[k]].rank <= tiers[rankOrder[k + 1]].rank
      BY <1>1, <2>3
    <3>2. rankOrder[1] \in K /\ rankOrder[k] \in K /\ rankOrder[k + 1] \in K /\ k \in 0..(L - 1)
      BY <1>1
    <3> QED BY <1>1, <3>1, <3>2
  <2>4. 0..(L - 1) \subseteq S
    <3>1. L - 1 \in Nat
      BY <1>1, <2>1
    <3> HIDE DEF S
    <3> QED BY <2>2, <2>3, <3>1, CountUp
  <2>5. i - 1 \in 0..(L - 1) /\ i - 1 + 1 = i
    BY <1>1
  <2>6. Tiers!GetTopTier = rankOrder[1]
    <3>1. rankOrder # <<>>
      BY <1>1, <2>1 DEF L
    <3> QED BY <3>1 DEF Tiers!GetTopTier
  <2> QED BY <2>1, <2>4, <2>5, <2>6
<1>6. Tiers!Validates => \A n \in K : Tiers!Walk(n)[Ends] = NoTier
  BY WalkEnds DEF TiersInv, K
<1> QED BY <1>1, <1>2, <1>4, <1>5, <1>6 DEF Tiers!FirstTargetsEnd, Ends, K, L

-----------------------------------------------------------------------------
(* Progress *)

ProgressEvent == [step : 1..LastStep, agent : Speakers, hash : Outputs]
ProgInv == events \in Seq(ProgressEvent)

LEMMA ProgInitInv ==
    ASSUME Progress!ProgressInit
    PROVE  ProgInv
BY EmptySeq DEF Progress!ProgressInit, ProgInv

LEMMA ProgStep ==
    ASSUME ProgInv, Progress!ProgressNext
    PROVE  ProgInv'
<1>1. CASE Progress!Cleanup
  BY <1>1, EmptySeq DEF Progress!Cleanup, ProgInv
<1>2. CASE Progress!ProgressRestarts \/ Progress!TimePasses
  BY <1>2 DEF Progress!ProgressRestarts, Progress!TimePasses, ProgInv
<1>3. CASE \E s \in 1..LastStep, a \in Speakers, h \in Outputs :
             Progress!TrackExecution([step |-> s, agent |-> a, hash |-> h])
  <2>1. PICK s \in 1..LastStep, a \in Speakers, h \in Outputs :
          events' = Append(events, [step |-> s, agent |-> a, hash |-> h])
    BY <1>3 DEF Progress!TrackExecution
  <2>2. [step |-> s, agent |-> a, hash |-> h] \in ProgressEvent
    BY DEF ProgressEvent
  <2> QED BY <2>1, <2>2, AppendProperties DEF ProgInv
<1> QED BY <1>1, <1>2, <1>3 DEF Progress!ProgressNext

LEMMA ProgStepInv == ProgInv /\ [Progress!ProgressNext]_progressVars => ProgInv'
<1> SUFFICES ASSUME ProgInv, [Progress!ProgressNext]_progressVars PROVE ProgInv'
  OBVIOUS
<1>1. CASE UNCHANGED progressVars
  BY <1>1 DEF progressVars, ProgInv
<1> QED BY <1>1, ProgStep

LEMMA EventTypes ==
    ASSUME ProgInv
    PROVE  /\ Len(events) \in Nat /\ DOMAIN events = 1..Len(events)
           /\ \A i \in 1..Len(events) : events[i] \in ProgressEvent /\ events[i].step \in Int
<1>1. Len(events) \in Nat /\ DOMAIN events = 1..Len(events) /\ \A i \in 1..Len(events) : events[i] \in ProgressEvent
  BY LenProperties, ElementOfSeq DEF ProgInv
<1>2. 1..LastStep \subseteq Int
  OBVIOUS
<1> QED BY <1>1, <1>2 DEF ProgressEvent

\* How many events come before the i-th one, by their steps.
Rank(i) == Progress!Cardinality(Progress!Earlier(i))

\* The order of the store is total: the ranks are 0, 1, ... and each event has its own.
LEMMA RanksDiffer ==
    ASSUME ProgInv
    PROVE  /\ \A i \in 1..Len(events) : Rank(i) \in 0..(Len(events) - 1)
           /\ \A i, j \in 1..Len(events) : i # j => Rank(i) # Rank(j)
           /\ \A k \in 0..(Len(events) - 1) : \E i \in 1..Len(events) : Rank(i) = k
<1> DEFINE N == Len(events)
           P == 1..N
           R == 0..(N - 1)
           B(i, j) == Progress!Before(i, j)
           E(i) == Progress!Earlier(i)
<1>1. /\ N \in Nat /\ DOMAIN events = P /\ \A i \in P : events[i].step \in Int
      /\ \A i \in P : E(i) = {j \in P : B(j, i)}
  BY EventTypes DEF Progress!Earlier
<1>2. /\ \A i \in P : ~B(i, i)
      /\ \A i, j \in P : i # j => B(i, j) \/ B(j, i)
      /\ \A i, j, k \in P : B(i, j) /\ B(j, k) => B(i, k)
  <2>1. \A i \in P : ~B(i, i)
    BY <1>1 DEF Progress!Before
  <2>2. \A i, j \in P : i # j => B(i, j) \/ B(j, i)
    BY <1>1 DEF Progress!Before
  <2>3. \A i, j, k \in P : B(i, j) /\ B(j, k) => B(i, k)
    BY <1>1 DEF Progress!Before
  <2> QED BY <2>1, <2>2, <2>3
<1> HIDE DEF B, E
<1>8. \A i : Rank(i) = Cardinality(E(i))
  BY DEF Rank, E, Progress!Cardinality, Cardinality
<1>3. IsFiniteSet(P) /\ Cardinality(P) = N /\ IsFiniteSet(R) /\ Cardinality(R) = N
  <2> HIDE DEF N
  <2>1. 1 \in Int /\ N \in Int /\ 0 \in Int /\ N - 1 \in Int
    BY <1>1
  <2>2. IsFiniteSet(1..N) /\ Cardinality(1..N) = IF 1 > N THEN 0 ELSE N - 1 + 1
    BY ONLY <2>1, FS_Interval
  <2>3. IsFiniteSet(0..(N - 1)) /\ Cardinality(0..(N - 1)) = IF 0 > N - 1 THEN 0 ELSE N - 1 - 0 + 1
    BY ONLY <2>1, FS_Interval
  <2> QED BY <1>1, <2>2, <2>3
<1>4. ASSUME NEW i \in P PROVE IsFiniteSet(E(i)) /\ Rank(i) \in R
  <2>1. E(i) \subseteq P /\ E(i) # P
    BY <1>1, <1>2
  <2> HIDE DEF P
  <2>2. IsFiniteSet(E(i)) /\ Cardinality(E(i)) <= Cardinality(P) /\ Cardinality(E(i)) # Cardinality(P)
    BY <1>3, <2>1, FS_Subset
  <2>3. Cardinality(E(i)) \in Nat
    BY <2>2, FS_CardinalityType
  <2> QED BY <1>1, <1>3, <1>8, <2>2, <2>3
<1>5. ASSUME NEW i \in P, NEW j \in P, B(i, j) PROVE Rank(i) < Rank(j)
  <2>1. E(i) \subseteq E(j) /\ i \in E(j) /\ i \notin E(i)
    BY <1>1, <1>2, <1>5
  <2> HIDE DEF P, R
  <2>2. IsFiniteSet(E(j)) /\ IsFiniteSet(E(i))
    BY <1>4
  <2>3. Cardinality(E(i)) <= Cardinality(E(j)) /\ Cardinality(E(i)) # Cardinality(E(j))
    BY <2>1, <2>2, FS_Subset
  <2>4. Cardinality(E(i)) \in Nat /\ Cardinality(E(j)) \in Nat
    BY <2>2, FS_CardinalityType
  <2> QED BY <1>8, <2>3, <2>4
<1>6. ASSUME NEW i \in P, NEW j \in P, i # j PROVE Rank(i) # Rank(j)
  <2>1. Rank(i) \in Int /\ Rank(j) \in Int
    BY <1>4
  <2>2. Rank(i) < Rank(j) \/ Rank(j) < Rank(i)
    BY <1>2, <1>5, <1>6
  <2> QED BY <2>1, <2>2
<1>7. ASSUME NEW k \in R PROVE \E i \in P : Rank(i) = k
  <2> DEFINE f == [i \in P |-> Rank(i)]
  <2> HIDE DEF P, R
  <2>1. f \in [P -> R] /\ \A x, y \in P : f[x] = f[y] => x = y
    BY <1>4, <1>6
  <2>2. f \in Injection(P, R)
    BY <2>1 DEF Injection, IsInjective
  <2>3. f \in Surjection(P, R)
    <3> HIDE DEF f
    <3> QED BY <1>3, <2>2, FS_Injection
  <2>4. \E i \in P : f[i] = k
    BY <2>3 DEF Surjection
  <2> QED BY <2>4
<1> QED BY <1>4, <1>6, <1>7

\* Where the k-th event by step is among the events as they were saved.
Place(k) == CHOOSE i \in DOMAIN events : Rank(i) = k - 1

LEMMA StoreOrder ==
    ASSUME ProgInv
    PROVE  /\ Progress!ByStep = [k \in 1..Len(events) |-> events[Place(k)]]
           /\ Progress!ByStep \in Seq(ProgressEvent) /\ Len(Progress!ByStep) = Len(events)
           /\ \A k \in 1..Len(events) : Place(k) \in 1..Len(events)
           /\ \A j, k \in 1..Len(events) : j # k => Place(j) # Place(k)
<1> DEFINE N == Len(events)
<1>1. N \in Nat /\ DOMAIN events = 1..N /\ \A i \in 1..N : events[i] \in ProgressEvent
  BY EventTypes
<1>2. ASSUME NEW k \in 1..N PROVE Place(k) \in 1..N /\ Rank(Place(k)) = k - 1
  <2>1. k - 1 \in 0..(N - 1)
    BY <1>1
  <2>2. \E i \in 1..N : Rank(i) = k - 1
    BY <2>1, RanksDiffer
  <2> HIDE DEF N
  <2>3. \E i \in DOMAIN events : Rank(i) = k - 1
    BY <1>1, <2>2
  <2>4. Place(k) \in DOMAIN events /\ Rank(Place(k)) = k - 1
    BY <2>3, Zenon DEF Place
  <2> QED BY <1>1, <2>4
<1>3. ASSUME NEW j \in 1..N, NEW k \in 1..N, j # k PROVE Place(j) # Place(k)
  BY <1>1, <1>2, <1>3
<1>4. Progress!ByStep = [k \in 1..N |-> events[Place(k)]]
  <2>1. Progress!ByStep = [k \in DOMAIN events |-> events[CHOOSE i \in DOMAIN events : Rank(i) = k - 1]]
    BY Zenon DEF Progress!ByStep, Rank
  <2> HIDE DEF N
  <2> QED BY <1>1, <2>1, Zenon DEF Place
<1> HIDE DEF N
<1>5. Progress!ByStep \in [1..N -> ProgressEvent]
  BY <1>1, <1>2, <1>4
<1>6. Progress!ByStep \in Seq(ProgressEvent) /\ Len(Progress!ByStep) = N
  BY <1>1, <1>5
<1> QED BY <1>2, <1>3, <1>4, <1>6 DEF N

\* Steps that advance are kept in order.
LEMMA RanksInOrder ==
    ASSUME ProgInv, Progress!StepsAdvance
    PROVE  Progress!ByStep = events
<1> DEFINE N == Len(events)
<1>1. N \in Nat /\ DOMAIN events = 1..N /\ \A i \in 1..N : events[i].step \in Int
  BY EventTypes
<1>2. ASSUME NEW i \in 1..N, NEW j \in 1..N, i <= j PROVE events[i].step <= events[j].step
  <2> DEFINE d == j - i
             S == {k \in 0..d : events[i].step <= events[i + k].step}
  <2>1. d \in Nat /\ i + d = j /\ \A k \in 0..d : i + k \in 1..N
    BY <1>1, <1>2
  <2>2. 0 \in S
    BY <1>1, <2>1
  <2>3. ASSUME NEW k \in 1..d, k - 1 \in S PROVE k \in S
    <3>1. i + (k - 1) \in 1..N - 1 /\ i + (k - 1) + 1 = i + k /\ k \in 0..d /\ i + k \in 1..N
      BY <1>1, <2>1
    <3>2. events[i + (k - 1)].step <= events[i + k].step
      BY <3>1 DEF Progress!StepsAdvance
    <3>3. i + (k - 1) \in 1..N
      BY <1>1, <3>1
    <3> QED BY <1>1, <2>3, <3>1, <3>2, <3>3
  <2>4. 0..d \subseteq S
    <3> HIDE DEF S, d
    <3> QED BY <2>1, <2>2, <2>3, CountUp
  <2> QED BY <2>1, <2>4
<1>3. ASSUME NEW i \in 1..N PROVE Rank(i) = i - 1
  <2>1. Progress!Earlier(i) = 1..(i - 1)
    <3>1. \A j \in 1..N : Progress!Before(j, i) <=> j < i
      BY <1>1, <1>2 DEF Progress!Before
    <3> QED BY <1>1, <3>1 DEF Progress!Earlier
  <2>2. Cardinality(1..(i - 1)) = i - 1
    <3>1. 1 \in Int /\ i - 1 \in Int
      OBVIOUS
    <3>2. Cardinality(1..(i - 1)) = IF 1 > i - 1 THEN 0 ELSE i - 1 - 1 + 1
      BY ONLY <3>1, FS_Interval
    <3> QED BY <3>2
  <2> QED BY <2>1, <2>2 DEF Rank, Progress!Cardinality, Cardinality
<1>4. ASSUME NEW k \in 1..N PROVE Place(k) = k
  <2>1. k \in DOMAIN events /\ Rank(k) = k - 1
    BY <1>1, <1>3
  <2>2. Place(k) \in DOMAIN events /\ Rank(Place(k)) = k - 1
    BY <2>1, Zenon DEF Place
  <2>3. Rank(Place(k)) = Place(k) - 1 /\ Place(k) \in 1..N
    BY <1>1, <1>3, <2>2
  <2> QED BY <2>2, <2>3
<1>5. Progress!ByStep = [k \in 1..N |-> events[k]]
  BY <1>4, StoreOrder
<1>6. events = [k \in 1..N |-> events[k]]
  <2>1. events \in Seq(ProgressEvent)
    BY DEF ProgInv
  <2> QED BY <2>1, <1>1
<1> QED BY <1>5, <1>6

\* The newest of a sequence are its last ones, in their order.
LEMMA NewestAreLast ==
    ASSUME NEW s \in Seq(ProgressEvent), NEW n \in Nat \ {0}, Len(s) > 0
    PROVE  LET r == Progress!Newest(s, n)
           IN \E a \in 1..Len(s) :
                /\ Len(r) = Len(s) - a + 1 /\ (a = 1 \/ Len(r) = n)
                /\ \A i \in 1..Len(r) : a + i - 1 \in 1..Len(s) /\ r[i] = s[a + i - 1]
                /\ Progress!Last(r) = s[Len(s)]
<1> DEFINE L == Len(s)
           a == IF L > n THEN L - n + 1 ELSE 1
           r == Progress!Newest(s, n)
<1>1. L \in Nat /\ L > 0 /\ \A i \in 1..L : s[i] \in ProgressEvent
  BY LenProperties, ElementOfSeq
<1>2. a \in 1..L /\ (a = 1 \/ L - a + 1 = n)
  BY <1>1
<1>3. r = SubSeq(s, a, L)
  BY DEF Progress!Newest
<1> HIDE DEF a, r, L
<1>4. Len(r) = L - a + 1 /\ \A i \in 1..(L - a + 1) : r[i] = s[a + i - 1]
  <2>1. a \in Int /\ L \in Int /\ \A i \in a..L : s[i] \in ProgressEvent
    BY <1>1, <1>2
  <2>2. /\ Len(r) = (IF a <= L THEN L - a + 1 ELSE 0)
        /\ \A i \in 1..(L - a + 1) : r[i] = s[a + i - 1]
    BY <1>3, <2>1, SubSeqProperties
  <2> QED BY <1>2, <2>2
<1>5. ASSUME NEW i \in 1..Len(r) PROVE a + i - 1 \in 1..L /\ r[i] = s[a + i - 1]
  BY <1>1, <1>2, <1>4
<1>6. Progress!Last(r) = s[L]
  <2>1. Len(r) \in 1..Len(r) /\ a + Len(r) - 1 = L
    BY <1>1, <1>2, <1>4
  <2>2. r[Len(r)] = s[L]
    BY <1>4, <1>5, <2>1
  <2> QED BY <2>2 DEF Progress!Last
<1> QED BY <1>2, <1>4, <1>5, <1>6 DEF L, r

\* An output given MaxSimilar times in a row is a loop, while the steps advance.
LEMMA RepetitionDetected ==
    ASSUME ProgInv, Progress!StepsAdvance, Progress!Alike(events, MaxSimilar)
    PROVE  Progress!DetectLoop
<1> DEFINE N == Len(events)
           r == Progress!Newest(events, MaxSimilar + 1)
<1>1. MaxSimilar \in Nat \ {0} /\ MaxSimilar + 1 \in Nat \ {0}
  <2>1. MaxSimilar \in Nat \ {0}
    BY LoopsAssumption, Zenon
  <2> QED BY <2>1
<1>2. N \in Nat /\ N >= MaxSimilar /\ N > 0 /\ \A i \in N - MaxSimilar + 1..N : Progress!Same(events[i], events[N])
  <2>1. /\ Len(events) >= MaxSimilar
        /\ \A i \in Len(events) - MaxSimilar + 1..Len(events) : Progress!Same(events[i], events[Len(events)])
    BY DEF Progress!Alike, Progress!Last
  <2> QED BY <1>1, <2>1, EventTypes
<1>3. PICK a \in 1..N : /\ Len(r) = N - a + 1 /\ (a = 1 \/ Len(r) = MaxSimilar + 1)
                        /\ \A i \in 1..Len(r) : a + i - 1 \in 1..N /\ r[i] = events[a + i - 1]
                        /\ Progress!Last(r) = events[N]
  <2> HIDE DEF r
  <2>1. events \in Seq(ProgressEvent)
    BY DEF ProgInv
  <2> QED BY <1>1, <1>2, <2>1, NewestAreLast DEF r, N
<1>4. Len(r) >= MaxSimilar
  BY <1>1, <1>2, <1>3
<1>5. ASSUME NEW i \in Len(r) - MaxSimilar + 1..Len(r) PROVE Progress!Same(r[i], Progress!Last(r))
  <2> HIDE DEF r, N
  <2>1. i \in 1..Len(r) /\ a + i - 1 \in N - MaxSimilar + 1..N
    BY <1>1, <1>2, <1>3, <1>4
  <2> QED BY <1>2, <1>3, <2>1
<1>6. Progress!Alike(r, MaxSimilar)
  BY <1>4, <1>5 DEF Progress!Alike
<1>7. Progress!ByStep = events
  BY RanksInOrder
<1> QED BY <1>2, <1>6, <1>7 DEF Progress!DetectLoop

\* What positions of the newest events hold one output is held by as many events.
LEMMA AlikeAreThere ==
    ASSUME ProgInv, NEW a \in 1..Len(events), NEW I \in SUBSET (1..Len(events)),
           NEW r, \A i \in I : a + i - 1 \in 1..Len(events) /\ r[i] = Progress!ByStep[a + i - 1],
           NEW e, \A i \in I : Progress!Same(r[i], e)
    PROVE  LET X == {i \in DOMAIN events : Progress!Same(events[i], e)}
           IN IsFiniteSet(I) /\ IsFiniteSet(X) /\ Cardinality(I) <= Cardinality(X)
<1> DEFINE N == Len(events)
           X == {i \in DOMAIN events : Progress!Same(events[i], e)}
           f == [i \in I |-> Place(a + i - 1)]
<1>1. N \in Nat /\ DOMAIN events = 1..N
  BY EventTypes
<1>2. ASSUME NEW i \in I PROVE Place(a + i - 1) \in X
  <2>1. a + i - 1 \in 1..N /\ r[i] = Progress!ByStep[a + i - 1] /\ Progress!Same(r[i], e)
    OBVIOUS
  <2> DEFINE k == a + i - 1
  <2> HIDE DEF k
  <2>2. Place(k) \in 1..N /\ Progress!ByStep[k] = events[Place(k)]
    BY <2>1, StoreOrder DEF k
  <2>3. Progress!Same(events[Place(k)], e)
    BY <2>1, <2>2 DEF k
  <2> QED BY <1>1, <2>2, <2>3 DEF k
<1>3. ASSUME NEW i \in I, NEW j \in I, i # j PROVE Place(a + i - 1) # Place(a + j - 1)
  <2>1. a + i - 1 \in 1..N /\ a + j - 1 \in 1..N /\ a + i - 1 # a + j - 1
    BY <1>1, <1>3
  <2> HIDE DEF N
  <2> DEFINE k == a + i - 1
             m == a + j - 1
  <2> HIDE DEF k, m
  <2>2. k \in 1..N /\ m \in 1..N /\ k # m
    BY <2>1 DEF k, m
  <2>3. Place(k) # Place(m)
    BY <2>2, StoreOrder DEF N
  <2> QED BY <2>3 DEF k, m
<1>4. IsFiniteSet(X)
  <2>1. X \subseteq 1..N
    BY <1>1
  <2>2. IsFiniteSet(1..N)
    <3> HIDE DEF N
    <3>1. 1 \in Int /\ N \in Int
      BY <1>1
    <3> QED BY ONLY <3>1, FS_Interval
  <2> HIDE DEF X, N
  <2> QED BY <2>1, <2>2, FS_Subset
<1> HIDE DEF X
<1>5. f \in Injection(I, X)
  BY <1>2, <1>3 DEF Injection, IsInjective
<1>6. IsFiniteSet(I) /\ Cardinality(I) <= Cardinality(X)
  <2> HIDE DEF f
  <2> QED BY <1>4, <1>5, FS_Injection
<1> QED BY <1>4, <1>6 DEF X

LEMMA ProgHolds ==
    ASSUME ProgInv
    PROVE  Progress!LoopsFound
<1>1. Progress!StepsAdvance /\ Progress!Alike(events, MaxSimilar) => Progress!ShouldAbort
  BY RepetitionDetected DEF Progress!ShouldAbort
<1>2. ASSUME Progress!DetectLoop
      PROVE  \E e \in Progress!ToSet(events) :
               Progress!Cardinality({i \in DOMAIN events : Progress!Same(events[i], e)}) >= MaxSimilar
  <2> DEFINE N == Len(events)
             all == Progress!ByStep
             r == Progress!Newest(all, MaxSimilar + 1)
             own == {i \in DOMAIN r : r[i].agent = Progress!Last(r).agent}
             e == Progress!Last(r)
             X == {i \in DOMAIN events : Progress!Same(events[i], e)}
  <2>1. MaxSimilar \in Nat \ {0} /\ MaxSimilar + 1 \in Nat \ {0}
    <3>1. MaxSimilar \in Nat \ {0}
      BY LoopsAssumption, Zenon
    <3> QED BY <3>1
  <2>2. /\ Len(all) >= MaxSimilar
        /\ \/ Progress!Alike(r, MaxSimilar)
           \/ Progress!Cardinality(own) >= MaxSimilar /\ \A i \in own : Progress!Same(r[i], Progress!Last(r))
    BY <1>2 DEF Progress!DetectLoop
  <2>3. all \in Seq(ProgressEvent) /\ Len(all) = N /\ N \in Nat
    BY StoreOrder, EventTypes
  <2>4. N > 0
    BY <2>1, <2>2, <2>3
  <2> HIDE DEF all
  <2>5. PICK a \in 1..N : /\ Len(r) = N - a + 1
                          /\ \A i \in 1..Len(r) : a + i - 1 \in 1..N /\ r[i] = all[a + i - 1]
                          /\ Progress!Last(r) = all[N]
    <3> HIDE DEF N
    <3> QED BY <2>1, <2>3, <2>4, NewestAreLast
  <2>6. e \in Progress!ToSet(events)
    <3>1. N \in 1..N
      BY <2>3, <2>4
    <3>2. Place(N) \in 1..N /\ all[N] = events[Place(N)]
      BY <3>1, StoreOrder DEF all
    <3> QED BY <2>5, <3>2, EventTypes DEF Progress!ToSet
  <2>7. Len(r) \in Nat /\ Len(r) <= N /\ DOMAIN r = 1..Len(r)
    <3>1. r = SubSeq(all, IF Len(all) > MaxSimilar + 1 THEN Len(all) - (MaxSimilar + 1) + 1 ELSE 1, Len(all))
      BY DEF Progress!Newest
    <3>2. DOMAIN r = 1..Len(r)
      <4> DEFINE b == IF Len(all) > MaxSimilar + 1 THEN Len(all) - (MaxSimilar + 1) + 1 ELSE 1
      <4>1. b \in Int /\ Len(all) \in Int /\ \A i \in b..Len(all) : all[i] \in ProgressEvent
        BY <2>1, <2>3, ElementOfSeq
      <4> HIDE DEF b
      <4>2. SubSeq(all, b, Len(all)) \in Seq(ProgressEvent)
        BY <4>1, SubSeqProperties
      <4> QED BY <3>1, <4>2, LenProperties DEF b
    <3> QED BY <2>3, <2>5, <3>2
  <2>8. \E I \in SUBSET (1..Len(r)) : Cardinality(I) >= MaxSimilar /\ \A i \in I : Progress!Same(r[i], e)
    <3>1. CASE Progress!Alike(r, MaxSimilar)
      <4> DEFINE I == Len(r) - MaxSimilar + 1..Len(r)
      <4>1. Len(r) >= MaxSimilar /\ \A i \in I : Progress!Same(r[i], e)
        BY <3>1 DEF Progress!Alike
      <4>2. I \subseteq 1..Len(r)
        BY <2>1, <2>7, <4>1
      <4>3. Cardinality(I) = MaxSimilar
        <5> DEFINE b == Len(r) - MaxSimilar + 1
                   c == Len(r)
        <5>1. b \in Int /\ c \in Int /\ b <= c /\ c - b + 1 = MaxSimilar
          BY <2>1, <2>7, <4>1
        <5> HIDE DEF b, c
        <5>2. Cardinality(b..c) = IF b > c THEN 0 ELSE c - b + 1
          BY ONLY <5>1, FS_Interval
        <5>3. Cardinality(b..c) = MaxSimilar
          BY <5>1, <5>2
        <5> QED BY <5>3 DEF b, c
      <4> QED BY <2>1, <4>1, <4>2, <4>3
    <3>2. CASE Progress!Cardinality(own) >= MaxSimilar /\ \A i \in own : Progress!Same(r[i], Progress!Last(r))
      <4>1. own \subseteq 1..Len(r)
        BY <2>7
      <4>2. Cardinality(own) >= MaxSimilar
        BY <3>2 DEF Progress!Cardinality, Cardinality
      <4> QED BY <3>2, <4>1, <4>2
    <3> QED BY <2>2, <3>1, <3>2
  <2>9. PICK I \in SUBSET (1..Len(r)) : Cardinality(I) >= MaxSimilar /\ \A i \in I : Progress!Same(r[i], e)
    BY <2>8
  <2>10. IsFiniteSet(I) /\ IsFiniteSet(X) /\ Cardinality(I) <= Cardinality(X)
    <3>1. I \in SUBSET (1..N) /\ \A i \in I : a + i - 1 \in 1..N /\ r[i] = Progress!ByStep[a + i - 1]
      <4> HIDE DEF r, N
      <4>1. 1..Len(r) \subseteq 1..N
        BY <2>3, <2>7
      <4>2. \A i \in I : a + i - 1 \in 1..N /\ r[i] = all[a + i - 1]
        BY <2>5
      <4> QED BY <4>1, <4>2 DEF all
    <3> HIDE DEF r, e
    <3> QED BY <2>9, <3>1, AlikeAreThere
  <2>11. Cardinality(X) >= MaxSimilar
    <3>1. Cardinality(I) \in Nat /\ Cardinality(X) \in Nat
      BY <2>10, FS_CardinalityType
    <3> HIDE DEF X
    <3> QED BY <2>1, <2>9, <2>10, <3>1
  <2>12. Progress!Cardinality(X) = Cardinality(X)
    BY DEF Progress!Cardinality, Cardinality
  <2> HIDE DEF e
  <2> QED BY <2>6, <2>11, <2>12
<1> QED BY <1>1, <1>2 DEF Progress!LoopsFound

-----------------------------------------------------------------------------
(* Runs of a graph *)

\* The names of the edges are nodes of the graph.
EdgesTyped ==
    /\ \E n \in Nat : DOMAIN edges = 1..n
    /\ \A i \in DOMAIN edges : edges[i].from \in Vertices /\ edges[i].to \in Vertices \cup {ByCondition}

LEMMA GraphFacts ==
    /\ IsFiniteSet(Vertices) /\ EntryVertex \in Vertices /\ ByCondition \notin Vertices /\ Nowhere \notin Vertices
    /\ ByCondition # Nowhere /\ MaxIterations \in Nat
  BY LoopsAssumption, Zenon

LEMMA TargetsTyped ==
    ASSUME EdgesTyped, NEW S \in SUBSET Vertices
    PROVE  S \subseteq Progress!Onwards(S) /\ Progress!Onwards(S) \in SUBSET Vertices
<1>1. ASSUME NEW v PROVE Progress!Targets(v) \subseteq Vertices
  <2>1. ASSUME NEW i \in Progress!OutEdges(v)
        PROVE  (IF edges[i].to = ByCondition THEN Vertices ELSE {edges[i].to}) \subseteq Vertices
    BY DEF EdgesTyped, Progress!OutEdges
  <2> QED BY <2>1 DEF Progress!Targets
<1> QED BY <1>1 DEF Progress!Onwards

\* The reachable nodes are those of an iteration of as many rounds as there are nodes.
Rounds(w) == w[0] = {EntryVertex} /\ \A k \in 1..Cardinality(Vertices) : w[k] = Progress!Onwards(w[k - 1])
ReachedByRounds == \E w : Rounds(w) /\ Progress!Reachable = w[Cardinality(Vertices)]

LEMMA ReachableRounds == EdgesTyped => ReachedByRounds
<1> SUFFICES ASSUME EdgesTyped PROVE ReachedByRounds
  OBVIOUS
<1> DEFINE D == SUBSET Vertices
           N == Cardinality(Vertices)
           O(S) == Progress!Onwards(S)
           g == [S \in D |-> O(S)]
           a == {EntryVertex}
           Is(w) == w = [k \in 0..N |-> IF k = 0 THEN {EntryVertex} ELSE Progress!Onwards(w[k - 1])]
           W == CHOOSE w : Is(w)
<1>1. N \in Nat /\ a \in D
  BY GraphFacts, FS_CardinalityType
<1>2. ASSUME NEW S \in D PROVE S \subseteq O(S) /\ O(S) \in D
  BY TargetsTyped
<1>3. \A S \in D : g[S] \in D
  BY <1>2
<1>4. PICK f : f \in [0..N -> D] /\ f[0] = a /\ \A k \in 1..N : f[k] = g[f[k - 1]]
  <2> HIDE DEF g, D, N, a
  <2>1. N \in Nat /\ Closed(g, D) /\ a \in D
    BY <1>1, <1>3 DEF Closed
  <2>2. \E f : Iterated(f, g, D, a, N)
    BY ONLY <2>1, Iterates, Zenon
  <2> QED BY <2>2, Zenon DEF Iterated
<1>5. Is(f)
  <2>1. ASSUME NEW k \in 0..N PROVE f[k] = IF k = 0 THEN a ELSE O(f[k - 1])
    <3> HIDE DEF N, O, a, D
    <3>1. CASE k = 0
      BY <1>4, <3>1
    <3>2. CASE k # 0
      <4>1. k \in 1..N /\ k - 1 \in 0..N
        BY <1>1, <3>2
      <4>2. f[k - 1] \in D
        BY <1>4, <4>1
      <4> QED BY <1>4, <3>2, <4>1, <4>2
    <3> QED BY <3>1, <3>2
  <2>2. f = [k \in 0..N |-> IF k = 0 THEN a ELSE O(f[k - 1])]
    <3> HIDE DEF N, D, O, a
    <3> QED BY <1>4, <2>1
  <2> HIDE DEF N
  <2> QED BY <2>2
<1>6. Is(W)
  <2> HIDE DEF Is
  <2>1. \E w : Is(w)
    BY <1>5
  <2> QED BY <2>1
<1>7. Progress!Reachable = W[N]
  <2>1. Progress!Cardinality(Vertices) = Cardinality(Vertices)
    BY DEF Progress!Cardinality, Cardinality
  <2> QED BY <2>1, Zenon DEF Progress!Reachable
<1> HIDE DEF W, O, D, N, a
<1>8. W[0] = a /\ \A k \in 1..N : W[k] = O(W[k - 1])
  <2>1. W = [k \in 0..N |-> IF k = 0 THEN a ELSE O(W[k - 1])]
    BY <1>6 DEF a, O
  <2>2. \A k \in 0..N : W[k] = IF k = 0 THEN a ELSE O(W[k - 1])
    <3> HIDE DEF Is
    <3> QED BY <2>1
  <2>3. 0 \in 0..N /\ \A k \in 1..N : k \in 0..N /\ k # 0
    BY <1>1
  <2> QED BY <2>2, <2>3
<1>9. Rounds(W)
  BY <1>8 DEF Rounds, O, N, a
<1> QED BY <1>7, <1>9 DEF ReachedByRounds, N

\* It has come to its end by then.
LEMMA ReachableClosed ==
    ASSUME EdgesTyped
    PROVE  /\ Progress!Reachable \subseteq Vertices /\ EntryVertex \in Progress!Reachable
           /\ \A v \in Progress!Reachable : Progress!Targets(v) \subseteq Progress!Reachable
<1> DEFINE D == SUBSET Vertices
           N == Cardinality(Vertices)
           O(S) == Progress!Onwards(S)
           a == {EntryVertex}
<1>1. N \in Nat /\ a \in D
  BY GraphFacts, FS_CardinalityType
<1>2. ASSUME NEW S \in D PROVE S \subseteq O(S) /\ O(S) \in D
  BY TargetsTyped
<1>3. PICK W : Rounds(W) /\ Progress!Reachable = W[N]
  BY ReachableRounds DEF ReachedByRounds
<1>7. Progress!Reachable = W[N]
  BY <1>3
<1>8. W[0] = a /\ \A k \in 1..N : W[k] = O(W[k - 1])
  BY <1>3 DEF Rounds
<1> HIDE DEF O, D, N, a
<1>9. \A k \in 0..N : W[k] \in D /\ EntryVertex \in W[k]
  <2> DEFINE T == {k \in 0..N : W[k] \in D /\ EntryVertex \in W[k]}
  <2>1. 0 \in T
    BY <1>1, <1>8 DEF a
  <2>2. ASSUME NEW k \in 1..N, k - 1 \in T PROVE k \in T
    <3>1. W[k] = O(W[k - 1]) /\ W[k - 1] \in D /\ EntryVertex \in W[k - 1] /\ k \in 0..N
      BY <1>1, <1>8, <2>2
    <3>2. W[k - 1] \subseteq O(W[k - 1]) /\ O(W[k - 1]) \in D
      BY <1>2, <3>1
    <3> QED BY <3>1, <3>2
  <2>3. 0..N \subseteq T
    <3> HIDE DEF T
    <3> QED BY <1>1, <2>1, <2>2, CountUp
  <2> QED BY <2>3
<1>10. \E k \in 0..N : O(W[k]) = W[k]
  <2> SUFFICES ASSUME \A k \in 0..N : O(W[k]) # W[k] PROVE FALSE
    OBVIOUS
  <2> DEFINE T == {k \in 0..N : Cardinality(W[k]) >= k + 1}
  <2>1. ASSUME NEW S \in D PROVE IsFiniteSet(S) /\ Cardinality(S) \in Nat /\ Cardinality(S) <= N
    BY GraphFacts, FS_Subset, FS_CardinalityType DEF D, N
  <2>2. 0 \in T
    <3>1. Cardinality(a) = 1
      BY FS_Singleton DEF a
    <3> QED BY <1>1, <1>8, <3>1
  <2>3. ASSUME NEW k \in 1..N, k - 1 \in T PROVE k \in T
    <3>1. k - 1 \in 0..N /\ k \in 0..N /\ W[k] = O(W[k - 1])
      BY <1>1, <1>8
    <3>2. W[k - 1] \in D /\ W[k] \in D /\ W[k - 1] \subseteq W[k] /\ W[k - 1] # W[k]
      BY <1>2, <1>9, <3>1
    <3>3. Cardinality(W[k - 1]) <= Cardinality(W[k]) /\ Cardinality(W[k - 1]) # Cardinality(W[k])
      BY <2>1, <3>2, FS_Subset
    <3>4. Cardinality(W[k - 1]) \in Nat /\ Cardinality(W[k]) \in Nat /\ Cardinality(W[k - 1]) >= k - 1 + 1
      BY <2>1, <2>3, <3>2
    <3> QED BY <3>1, <3>3, <3>4
  <2>4. 0..N \subseteq T
    <3> HIDE DEF T
    <3> QED BY <1>1, <2>2, <2>3, CountUp
  <2>5. N \in 0..N
    BY <1>1
  <2>6. Cardinality(W[N]) >= N + 1 /\ Cardinality(W[N]) <= N /\ Cardinality(W[N]) \in Nat
    BY <1>9, <2>1, <2>4, <2>5
  <2> QED BY <1>1, <2>6
<1>11. PICK p \in 0..N : O(W[p]) = W[p]
  BY <1>10
<1>12. O(W[N]) = W[N]
  <2> DEFINE d == N - p
             T == {k \in 0..d : W[p + k] = W[p]}
  <2>1. d \in Nat /\ p + d = N /\ \A k \in 1..d : p + k \in 1..N /\ p + k - 1 = p + (k - 1)
    BY <1>1
  <2>2. 0 \in T
    BY <2>1
  <2>3. ASSUME NEW k \in 1..d, k - 1 \in T PROVE k \in T
    <3>1. W[p + k] = O(W[p + (k - 1)]) /\ k \in 0..d
      BY <1>8, <2>1
    <3> QED BY <1>11, <2>3, <3>1
  <2>4. 0..d \subseteq T
    <3> HIDE DEF T, d
    <3> QED BY <2>1, <2>2, <2>3, CountUp
  <2>5. W[N] = W[p]
    BY <2>1, <2>4
  <2> QED BY <1>11, <2>5
<1>13. N \in 0..N
  BY <1>1
<1>14. ASSUME NEW v \in W[N] PROVE Progress!Targets(v) \subseteq W[N]
  BY <1>12 DEF O, Progress!Onwards
<1> QED BY <1>7, <1>9, <1>13, <1>14 DEF D

\* A graph that was compiled stays what it was.
LEMMA GraphStays ==
    ASSUME EdgesTyped, UNCHANGED edges
    PROVE  /\ EdgesTyped' /\ Progress!Reachable' = Progress!Reachable
           /\ \A v : Progress!Plain(v)' = Progress!Plain(v)
<1> DEFINE N == Cardinality(Vertices)
<1>1. EdgesTyped'
  BY DEF EdgesTyped
<1>2. \A v : Progress!OutEdges(v)' = Progress!OutEdges(v)
  BY DEF Progress!OutEdges
<1>3. \A v : Progress!Targets(v)' = Progress!Targets(v) /\ Progress!Plain(v)' = Progress!Plain(v)
  BY <1>2 DEF Progress!Targets, Progress!Plain
<1>4. ASSUME NEW S PROVE Progress!Onwards(S)' = Progress!Onwards(S)
  BY <1>3 DEF Progress!Onwards
<1>5. PICK w : Rounds(w) /\ Progress!Reachable = w[N]
  BY ReachableRounds DEF ReachedByRounds
<1>6. EdgesTyped' => ReachedByRounds'
  BY ReachableRounds, PTL
<1>7. PICK v : Rounds(v)' /\ Progress!Reachable' = v[N]
  BY <1>1, <1>6 DEF ReachedByRounds
<1>8. /\ v[0] = {EntryVertex} /\ \A k \in 1..N : v[k] = Progress!Onwards(v[k - 1])
      /\ w[0] = {EntryVertex} /\ \A k \in 1..N : w[k] = Progress!Onwards(w[k - 1])
  BY <1>4, <1>5, <1>7 DEF Rounds
<1>9. w[N] = v[N]
  <2> DEFINE T == {k \in 0..N : w[k] = v[k]}
  <2>1. N \in Nat
    BY GraphFacts, FS_CardinalityType
  <2> HIDE DEF N
  <2>2. 0 \in T
    BY <1>8, <2>1
  <2>3. ASSUME NEW k \in 1..N, k - 1 \in T PROVE k \in T
    BY <1>8, <2>1, <2>3
  <2>4. 0..N \subseteq T
    <3> HIDE DEF T
    <3> QED BY <2>1, <2>2, <2>3, CountUp
  <2> QED BY <2>1, <2>4
<1> QED BY <1>1, <1>3, <1>5, <1>7, <1>9

-----------------------------------------------------------------------------
\* What has run is reachable, as is what runs; a run that returned ended where it may.
GraphInv ==
    /\ EdgesTyped
    /\ iterations \in 0..MaxIterations /\ trace \in Seq(Vertices) /\ Len(trace) = iterations
    /\ \A i \in 1..Len(trace) : trace[i] \in Progress!Reachable
    /\ run = "none" => iterations = 0
    /\ run = "running" => current \in Progress!Reachable /\ iterations < MaxIterations
    /\ run = "returned" =>
         /\ exitNode \in Progress!Reachable
         /\ ~Progress!ExitsWhereItRan => iterations = MaxIterations
         /\ Progress!ExitsWhereItRan /\ iterations < MaxIterations =>
              exitNode \in exitNodes \/ Progress!Plain(exitNode) = {}

LEMMA GraphInitInv ==
    ASSUME Progress!GraphInit PROVE GraphInv
<1>1. iterations = 0 /\ trace = <<>> /\ run = "none" /\ edges \in Progress!BoundedSeq(Progress!GraphEdges, MaxEdges)
  BY DEF Progress!GraphInit
<1>2. EdgesTyped
  <2>1. PICK n \in 0..MaxEdges : edges \in [1..n -> Progress!GraphEdges]
    BY <1>1, Zenon DEF Progress!BoundedSeq, Progress!SeqOf
  <2> QED BY <2>1 DEF EdgesTyped, Progress!GraphEdges
<1>3. trace \in Seq(Vertices) /\ Len(trace) = 0
  BY <1>1
<1> QED BY <1>1, <1>2, <1>3, GraphFacts DEF GraphInv

\* The next node is reachable, if there is one.
LEMMA NextReachable ==
    ASSUME EdgesTyped, NEW u \in Progress!Reachable, NEW v \in Progress!ResolveNextNode(u)
    PROVE  /\ v = Nowhere => Progress!Plain(u) = {}
           /\ v # Nowhere => v \in Progress!Reachable
<1>1. Progress!Reachable \subseteq Vertices /\ Progress!Targets(u) \subseteq Progress!Reachable
  BY ReachableClosed
<1>2. CASE v \in Vertices /\ Progress!HasCondition(u)
  <2>1. PICK i \in Progress!OutEdges(u) : edges[i].to = ByCondition
    BY <1>2 DEF Progress!HasCondition
  <2>2. Vertices \subseteq Progress!Targets(u)
    BY <2>1 DEF Progress!Targets
  <2> QED BY <1>1, <1>2, <2>2, GraphFacts
<1>3. CASE v = Nowhere /\ Progress!Plain(u) = {}
  BY <1>3
<1>4. CASE Progress!Plain(u) # {} /\ v = edges[Progress!Min(Progress!Plain(u))].to
  <2> DEFINE P == Progress!Plain(u)
             i == Progress!Min(P)
  <2>1. i \in P
    <3>1. PICK n \in Nat : P \in SUBSET (1..n) /\ P # {}
      BY <1>4 DEF Progress!Plain, Progress!OutEdges, EdgesTyped
    <3> HIDE DEF P
    <3> QED BY <3>1, FirstPosition
  <2>2. i \in Progress!OutEdges(u) /\ edges[i].to # ByCondition
    BY <2>1 DEF Progress!Plain
  <2>3. edges[i].to \in Progress!Targets(u)
    BY <2>2 DEF Progress!Targets
  <2>4. v \in Vertices
    BY <1>1, <1>4, <2>3
  <2> QED BY <1>1, <1>4, <2>3, <2>4, GraphFacts
<1> QED BY <1>2, <1>3, <1>4 DEF Progress!ResolveNextNode

\* The loop goes on with a node that is reachable, or has run as many as it may.
LEMMA VisitsInv ==
    ASSUME EdgesTyped, NEW v \in Progress!Reachable, Progress!Visits(v), UNCHANGED <<edges, exitNodes>>,
           iterations' \in 0..MaxIterations, trace' \in Seq(Vertices), Len(trace') = iterations',
           \A i \in 1..Len(trace') : trace'[i] \in Progress!Reachable
    PROVE  GraphInv'
<1>1. EdgesTyped' /\ Progress!Reachable' = Progress!Reachable
  BY GraphStays
<1>2. CASE iterations' < MaxIterations
  <2>1. current' = v /\ run' = "running"
    BY <1>2 DEF Progress!Visits
  <2> QED BY <1>1, <1>2, <2>1 DEF GraphInv
<1>3. CASE ~(iterations' < MaxIterations)
  <2>1. exitNode' = v /\ run' = "returned" /\ iterations' = MaxIterations
    BY <1>3, GraphFacts DEF Progress!Visits
  <2>2. ~(iterations' < MaxIterations)
    BY <1>3
  <2> QED BY <1>1, <2>1, <2>2 DEF GraphInv
<1> QED BY <1>2, <1>3

\* The run ends with the node that it ran last, which may end it.
LEMMA ReturnsInv ==
    ASSUME EdgesTyped, NEW v \in Progress!Reachable, Progress!Returns(v), UNCHANGED <<edges, exitNodes>>,
           iterations' \in 0..MaxIterations, trace' \in Seq(Vertices), Len(trace') = iterations',
           \A i \in 1..Len(trace') : trace'[i] \in Progress!Reachable,
           iterations' >= 1, trace'[iterations'] = v, v \in exitNodes \/ Progress!Plain(v) = {}
    PROVE  GraphInv'
<1>1. EdgesTyped' /\ Progress!Reachable' = Progress!Reachable /\ Progress!Plain(v)' = Progress!Plain(v)
  BY GraphStays
<1>2. exitNode' = v /\ run' = "returned"
  BY DEF Progress!Returns
<1>3. Progress!ExitsWhereItRan'
  <2>1. Len(trace') >= 1 /\ trace'[Len(trace')] = v
    OBVIOUS
  <2>2. trace' # <<>> /\ Progress!Last(trace') = v
    BY <2>1 DEF Progress!Last
  <2> QED BY <1>2, <2>2 DEF Progress!ExitsWhereItRan
<1>4. Progress!Plain(exitNode)' = Progress!Plain(v)'
  BY <1>2 DEF Progress!Plain, Progress!OutEdges
<1> QED BY <1>1, <1>2, <1>3, <1>4 DEF GraphInv

LEMMA GraphStep == GraphInv /\ [Progress!GraphNext]_graphVars => GraphInv'
<1> SUFFICES ASSUME GraphInv, [Progress!GraphNext]_graphVars PROVE GraphInv'
  OBVIOUS
<1>1. EdgesTyped /\ Progress!Reachable \subseteq Vertices /\ EntryVertex \in Progress!Reachable
  BY ReachableClosed DEF GraphInv
<1>2. CASE UNCHANGED graphVars
  <2>1. /\ UNCHANGED <<edges, exitNodes, current, iterations, trace, exitNode, run>>
        /\ Progress!ExitsWhereItRan' = Progress!ExitsWhereItRan
    BY <1>2 DEF graphVars, Progress!ExitsWhereItRan
  <2>2. /\ EdgesTyped' /\ Progress!Reachable' = Progress!Reachable
        /\ Progress!Plain(exitNode)' = Progress!Plain(exitNode)
    <3>1. Progress!Plain(exitNode)' = Progress!Plain(exitNode)
      BY <2>1 DEF Progress!Plain, Progress!OutEdges
    <3> QED BY <1>1, <2>1, <3>1, GraphStays
  <2> QED BY <2>1, <2>2 DEF GraphInv
<1>3. CASE Progress!Run
  <2>1. /\ UNCHANGED <<edges, exitNodes, iterations, trace>> /\ iterations = 0 /\ Progress!Visits(EntryVertex)
        /\ trace \in Seq(Vertices) /\ Len(trace) = iterations
    BY <1>3 DEF Progress!Run, Progress!graph, GraphInv
  <2>2. iterations' \in 0..MaxIterations /\ trace' \in Seq(Vertices) /\ Len(trace') = iterations' /\ iterations' = 0
    BY <2>1, GraphFacts
  <2>3. \A i \in 1..Len(trace') : trace'[i] \in Progress!Reachable
    BY <2>2
  <2> QED BY <1>1, <2>1, <2>2, <2>3, VisitsInv
<1>4. CASE Progress!NodeEnds
  <2>1. /\ current \in Progress!Reachable /\ iterations < MaxIterations /\ iterations \in 0..MaxIterations
        /\ trace \in Seq(Vertices) /\ Len(trace) = iterations
        /\ \A i \in 1..Len(trace) : trace[i] \in Progress!Reachable
    BY <1>4 DEF Progress!NodeEnds, GraphInv
  <2>2. /\ iterations' = iterations + 1 /\ trace' = Append(trace, current) /\ UNCHANGED <<edges, exitNodes>>
        /\ \/ current \in exitNodes /\ Progress!Returns(current)
           \/ \E v \in Progress!ResolveNextNode(current) :
                IF v = Nowhere THEN Progress!Returns(current) ELSE Progress!Visits(v)
    BY <1>4 DEF Progress!NodeEnds, Progress!graph
  <2>3. /\ trace' \in Seq(Vertices) /\ Len(trace') = iterations' /\ trace'[iterations'] = current
        /\ \A i \in 1..Len(trace) : trace'[i] = trace[i]
    BY <1>1, <2>1, <2>2
  <2>4. iterations' \in 0..MaxIterations /\ iterations' >= 1
    BY <2>1, <2>2, GraphFacts
  <2>5. \A i \in 1..Len(trace') : trace'[i] \in Progress!Reachable
    <3> SUFFICES ASSUME NEW i \in 1..Len(trace') PROVE trace'[i] \in Progress!Reachable
      OBVIOUS
    <3>1. i \in 1..Len(trace) \/ i = iterations'
      BY <2>1, <2>2, <2>3
    <3> QED BY <2>1, <2>3, <3>1
  <2>6. CASE current \in exitNodes /\ Progress!Returns(current)
    BY <1>1, <2>1, <2>2, <2>3, <2>4, <2>5, <2>6, ReturnsInv
  <2>7. ASSUME NEW v \in Progress!ResolveNextNode(current),
               IF v = Nowhere THEN Progress!Returns(current) ELSE Progress!Visits(v)
        PROVE  GraphInv'
    <3>1. (v = Nowhere => Progress!Plain(current) = {}) /\ (v # Nowhere => v \in Progress!Reachable)
      BY <1>1, <2>1, NextReachable
    <3>2. CASE v = Nowhere
      <4>1. Progress!Returns(current) /\ Progress!Plain(current) = {}
        BY <2>7, <3>1, <3>2
      <4> QED BY <1>1, <2>1, <2>2, <2>3, <2>4, <2>5, <4>1, ReturnsInv
    <3>3. CASE v # Nowhere
      <4>1. Progress!Visits(v) /\ v \in Progress!Reachable
        BY <2>7, <3>1, <3>3
      <4> QED BY <1>1, <2>2, <2>3, <2>4, <2>5, <4>1, VisitsInv
    <3> QED BY <3>2, <3>3
  <2> QED BY <2>2, <2>6, <2>7
<1>5. CASE Progress!NodeThrows
  <2>1. UNCHANGED <<edges, exitNodes, iterations, trace>> /\ run' = "threw"
    BY <1>5 DEF Progress!NodeThrows, Progress!graph
  <2>2. EdgesTyped' /\ Progress!Reachable' = Progress!Reachable
    BY <1>1, <2>1, GraphStays
  <2> QED BY <2>1, <2>2 DEF GraphInv
<1> QED BY <1>2, <1>3, <1>4, <1>5 DEF Progress!GraphNext

LEMMA GraphHolds == GraphInv => Progress!RunsStayInGraph
<1> SUFFICES ASSUME GraphInv PROVE Progress!RunsStayInGraph
  OBVIOUS
<1>1. Progress!ToSet(trace) \subseteq Progress!Reachable
  <2>1. DOMAIN trace = 1..Len(trace) /\ \A i \in 1..Len(trace) : trace[i] \in Progress!Reachable
    BY DEF GraphInv
  <2> QED BY <2>1, Zenon DEF Progress!ToSet
<1> QED BY <1>1, GraphFacts DEF GraphInv, Progress!RunsStayInGraph

-----------------------------------------------------------------------------
(* The loops *)

\* Each part keeps its invariant while it moves.
LoopsInv ==
    /\ By("conversations", ConvInv)
    /\ By("progress", ProgInv)
    /\ By("graph", GraphInv)
    /\ By("tiers", TiersInv)

\* A conversation is never handed to an agent that had it and keeps its newest messages without a
\* gap, whoever repeats an output is found and nobody else, a run of a graph stays among the nodes
\* that compile() found reachable and ends where it may, and escalation by first targets ends, for
\* any members, bounds, events, graphs and tiers.
THEOREM LoopsAreBounded == RecordsSpec => []LoopsBounded
<1>1. RecordsInit => LoopsInv
  BY ConvInitInv, ProgInitInv, GraphInitInv, TiersInitInv DEF RecordsInit, LoopsInv, By
<1>2. LoopsInv /\ [RecordsNext]_recordsVars => LoopsInv'
  <2> SUFFICES ASSUME LoopsInv, [RecordsNext]_recordsVars PROVE LoopsInv'
    OBVIOUS
  <2>1. /\ keeper' = keeper
        /\ keeper = "conversations" => [Conversations!ConversationsNext]_convVars
        /\ keeper = "progress" => [Progress!ProgressNext]_progressVars
        /\ keeper = "graph" => [Progress!GraphNext]_graphVars
        /\ keeper = "tiers" => [Tiers!TiersNext]_tierVars
    BY DEF RecordsNext, RecordsOthers, recordsVars
  <2>2. keeper = "conversations" => ConvInv'
    BY <2>1, ConvStepInv DEF LoopsInv, By
  <2>3. keeper = "progress" => ProgInv'
    BY <2>1, ProgStepInv DEF LoopsInv, By
  <2>4. keeper = "graph" => GraphInv'
    BY <2>1, GraphStep DEF LoopsInv, By
  <2>5. keeper = "tiers" => TiersInv'
    BY <2>1, TiersStepInv DEF LoopsInv, By
  <2> QED BY <2>1, <2>2, <2>3, <2>4, <2>5 DEF LoopsInv, By
<1>3. LoopsInv => LoopsBounded
  BY ConvHolds, ProgHolds, GraphHolds, TiersHold DEF LoopsInv, LoopsBounded, By
<1> QED BY <1>1, <1>2, <1>3, PTL DEF RecordsSpec
=============================================================================
