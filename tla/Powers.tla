------------------------------- MODULE Powers -------------------------------
(***************************************************************************)
(* Installing and removing powers (core/powers/installer.ts), which the    *)
(* runtime loads (core/powers/registry.ts): directories and one file       *)
(* registry.json that is read and written whole.  Calls overlap, the disk  *)
(* may fail, and the process may end at any time.                          *)
(***************************************************************************)
EXTENDS Integers, FiniteSets

CONSTANTS
    Powers,          \* the names
    Callers,         \* bound: calls at the same time
    MaxMishaps       \* bound: failures of the disk and crashes

VARIABLES
    folder,          \* name -> none, partial or whole
    rows,            \* the names in registry.json; a file cut off has none
    call,            \* caller -> its call: what, name, where it is, the rows it read
    mishaps,
    overlapped,      \* history: two calls ran at the same time
    disturbed         \* history: the names whose call was cut short, or met another one for the name

powerVars == <<folder, rows, call, mishaps, overlapped, disturbed>>

Idle == [what |-> "none", at |-> "done"]

PowersTypeOK ==
    /\ folder \in [Powers -> {"none", "partial", "whole"}] /\ rows \subseteq Powers
    /\ call \in [Callers -> {Idle} \cup
         [what : {"install", "remove"}, name : Powers, read : SUBSET Powers,
          at : {"check", "copy", "copying", "delete", "read", "write", "rollback"}]]
    /\ mishaps \in 0..MaxMishaps /\ overlapped \in BOOLEAN /\ disturbed \subseteq Powers

PowersInit ==
    /\ folder = [n \in Powers |-> "none"] /\ rows = {} /\ call = [c \in Callers |-> Idle]
    /\ mishaps = 0 /\ overlapped = FALSE /\ disturbed = {}

Goes(c, place) == call' = [call EXCEPT ![c].at = place]
Ends(c) == call' = [call EXCEPT ![c] = Idle]
Mishap == mishaps < MaxMishaps /\ mishaps' = mishaps + 1
At(c, what, place) == call[c].what = what /\ call[c].at = place

-----------------------------------------------------------------------------
(* install() and remove() *)

\* A manifest that does not hold ends an install() at once; a power that is not there, a remove().
Begin(c, what, n) ==
    /\ call[c] = Idle /\ (what = "remove" => folder[n] # "none")
    /\ call' = [call EXCEPT ![c] = [what |-> what, name |-> n, read |-> {},
                                    at |-> IF what = "install" THEN "check" ELSE "delete"]]
    /\ overlapped' = (overlapped \/ \E d \in Callers \ {c} : call[d] # Idle)
    /\ disturbed' = IF \E d \in Callers \ {c} : call[d] # Idle /\ call[d].name = n
                    THEN disturbed \cup {n} ELSE disturbed
    /\ UNCHANGED <<folder, rows, mishaps>>

Check(c) ==
    /\ At(c, "install", "check")
    /\ IF folder[call[c].name] # "none" THEN Ends(c) ELSE Goes(c, "copy")
    /\ UNCHANGED <<folder, rows, mishaps, disturbed, overlapped>>

\* A copy whose directory another call removes meanwhile stays partial; one that fails is
\* not rolled back: copied is still false.
StartCopy(c) ==
    /\ At(c, "install", "copy") /\ Goes(c, "copying")
    /\ folder' = [folder EXCEPT ![call[c].name] = IF @ = "none" THEN "partial" ELSE @]
    /\ UNCHANGED <<rows, mishaps, disturbed, overlapped>>
Copy(c) ==
    /\ At(c, "install", "copying") /\ UNCHANGED <<rows, overlapped>>
    /\ \/ /\ folder' = [folder EXCEPT ![call[c].name] = IF @ = "none" THEN "partial" ELSE "whole"]
          /\ Goes(c, "read") /\ UNCHANGED <<mishaps, disturbed>>
       \/ Mishap /\ Ends(c) /\ disturbed' = disturbed \cup {call[c].name} /\ UNCHANGED folder

Delete(c) ==
    /\ At(c, "remove", "delete") /\ UNCHANGED <<rows, overlapped>>
    /\ \/ folder' = [folder EXCEPT ![call[c].name] = "none"] /\ Goes(c, "read") /\ UNCHANGED <<mishaps, disturbed>>
       \/ /\ Mishap /\ Ends(c) /\ disturbed' = disturbed \cup {call[c].name}
          /\ folder' = [folder EXCEPT ![call[c].name] = "partial"]

\* A file that cannot be read counts as one without rows.
Read(c) ==
    /\ call[c].at = "read" /\ UNCHANGED <<folder, rows, overlapped>>
    /\ \/ call' = [call EXCEPT ![c].at = "write", ![c].read = rows] /\ UNCHANGED <<mishaps, disturbed>>
       \/ Mishap /\ call' = [call EXCEPT ![c].at = "write"] /\ disturbed' = disturbed \cup rows

\* The whole file is written with what was read.  When that fails the old file may be lost,
\* and install() removes its copy.
NoRollback(c) == Ends(c) /\ disturbed' = disturbed \cup (rows \ rows')             \* seeded fault
WriteFails(c) ==
    IF call[c].what = "install" THEN Goes(c, "rollback") /\ disturbed' = disturbed \cup (rows \ rows')
    ELSE Ends(c) /\ disturbed' = disturbed \cup (rows \ rows') \cup {call[c].name}

OnlyItself(c) == IF call[c].what = "install" THEN {call[c].name} ELSE {}    \* seeded fault: the others' rows are lost
NewRows(c) ==
    IF call[c].what = "install" THEN call[c].read \cup {call[c].name} ELSE call[c].read \ {call[c].name}

Write(c) ==
    /\ call[c].at = "write" /\ UNCHANGED <<folder, overlapped>>
    /\ \/ rows' = NewRows(c) /\ Ends(c) /\ UNCHANGED <<mishaps, disturbed>>
       \/ Mishap /\ rows' \in {rows, {}} /\ WriteFails(c)

Rollback(c) ==
    /\ At(c, "install", "rollback") /\ Ends(c) /\ UNCHANGED <<rows, overlapped>>
    /\ \/ folder' = [folder EXCEPT ![call[c].name] = "none"] /\ UNCHANGED <<mishaps, disturbed>>
       \/ Mishap /\ UNCHANGED folder /\ disturbed' = disturbed \cup {call[c].name}

\* The process ends: a copy or a deletion is done in part, and of a file being written nothing
\* that can be read is left, which counts as no rows.
Cut(place) == {call[c].name : c \in {d \in Callers : call[d].at \in place}}
Crash ==
    /\ Mishap /\ \E c \in Callers : call[c] # Idle
    /\ \E left \in {"none", "partial", "whole"} :
         folder' = [n \in Powers |-> IF n \in Cut({"copying", "delete"}) THEN left ELSE folder[n]]
    /\ rows' \in IF Cut({"write"}) = {} THEN {rows} ELSE {rows, {}}
    /\ disturbed' = disturbed \cup Cut({"copying", "delete", "read", "write", "rollback"}) \cup (rows \ rows')
    /\ call' = [c \in Callers |-> Idle] /\ UNCHANGED overlapped

PowersNext ==
    \/ \E c \in Callers, what \in {"install", "remove"}, n \in Powers : Begin(c, what, n)
    \/ \E c \in Callers : Check(c) \/ StartCopy(c) \/ Copy(c) \/ Delete(c) \/ Read(c) \/ Write(c) \/ Rollback(c)
    \/ Crash

-----------------------------------------------------------------------------
(* Properties *)

\* loadInstalled() of the runtime goes by the directories with a manifest; of a partial one
\* it may be there.
Installed(partly) == {n \in Powers : folder[n] = "whole" \/ (partly /\ folder[n] = "partial")}

\* When no call runs, the runtime loads the powers that have a row, but for the names
\* that were disturbed, and unless calls have overlapped: those lose each other's rows
\* (installer.ts:210-225, registry.ts:22).
RowsFollowFolders ==
    (\A c \in Callers : call[c] = Idle) /\ ~overlapped =>
        \A n \in Powers \ disturbed, partly \in BOOLEAN : n \in rows <=> n \in Installed(partly)

\* Calls for other names lose rows only: a directory is whole, or there is none, unless a
\* call for its name was cut short or met another one.
FoldersWhole ==
    (\A c \in Callers : call[c] = Idle) => \A n \in Powers \ disturbed : folder[n] # "partial"
=============================================================================
