----------------------------- MODULE SharedState -----------------------------
(***************************************************************************)
(* One session of the SharedStateBus (core/shared-state.ts) and its row    *)
(* "bus:<session>" of the store.  Edges are objects that successive states *)
(* share: counting one changes every state, and every copy handed out,     *)
(* that holds it.  A store write may fail without anybody noticing.        *)
(***************************************************************************)
EXTENDS Naturals, Sequences, SequencesExt

CONSTANTS
    Edges,             \* the (from, to, msgType) there may be
    MaxTransitions,    \* maxTransitionsPerSession
    MaxUpdates,        \* bound: updates and recorded edges
    Persists,          \* persistSessions
    Absent             \* no session

VARIABLES
    session,           \* the state in memory: its version and the edges it lists
    row,               \* the state in the store, with the counts it was written with
    counts,            \* the count of each edge object of the session
    history,           \* transitions: the pairs of versions
    handed,            \* a state update() returned, with the counts it showed then
    handedLive,        \* whether its edges are the objects the session still uses
    missed,            \* whether a write failed since the session began or was loaded afresh
    steps

busVars == <<session, row, counts, history, handed, handedLive, missed, steps>>

NoCounts == [e \in Edges |-> 0]
States == [version : 0..MaxUpdates, edges : SUBSET Edges]
Rows == [version : 0..MaxUpdates, edges : SUBSET Edges, counts : [Edges -> 0..MaxUpdates]]
Row(s, c) == [version |-> s.version, edges |-> s.edges, counts |-> c]

SharedTypeOK ==
    /\ session \in {Absent} \cup States /\ row \in {Absent} \cup Rows /\ handed \in {Absent} \cup Rows
    /\ counts \in [Edges -> 0..MaxUpdates]
    /\ history \in Seq((0..MaxUpdates) \X (0..MaxUpdates)) /\ Len(history) <= MaxTransitions
    /\ handedLive \in BOOLEAN /\ missed \in BOOLEAN /\ steps \in 0..MaxUpdates

SharedInit ==
    /\ session = Absent /\ row = Absent /\ counts = NoCounts /\ history = <<>>
    /\ handed = Absent /\ handedLive = FALSE /\ missed = FALSE /\ steps = 0

-----------------------------------------------------------------------------

\* kvSet(): a failure is swallowed.
Saves(state, c) ==
    \/ row' = Row(state, c) /\ missed' = (missed /\ session # Absent)
    \/ UNCHANGED row /\ missed' = TRUE
SavesOldState(state, c) ==                            \* seeded fault
    IF Persists /\ session # Absent THEN Saves(session, counts) ELSE Saves(state, c)
SavesUpdate(state, c) == IF Persists THEN Saves(state, c) ELSE UNCHANGED <<row, missed>>

CreateSession ==
    /\ session = Absent
    /\ session' = [version |-> 0, edges |-> {}] /\ counts' = NoCounts /\ history' = <<>>
    /\ SavesUpdate(session', counts')
    /\ UNCHANGED <<handed, handedLive, steps>>

\* closeSession(): deleting the row may fail as well.
CloseSession ==
    /\ session # Absent
    /\ session' = Absent /\ history' = <<>> /\ row' \in {Absent, row}
    /\ handedLive' = FALSE /\ counts' = NoCounts
    /\ UNCHANGED <<handed, missed, steps>>

Counted(e) == [counts EXCEPT ![e] = @ + 1]
KeepOldest(h) == SubSeq(h, 1, IF Len(h) > MaxTransitions THEN MaxTransitions ELSE Len(h))  \* seeded fault
Newest(h) == IF Len(h) > MaxTransitions THEN SubSeq(h, Len(h) - MaxTransitions + 1, Len(h)) ELSE h

\* update(), with addEdge or without; what it patches besides is only in the version.
Update(es) ==
    /\ session # Absent /\ steps < MaxUpdates
    /\ session' = [version |-> session.version + 1, edges |-> session.edges \cup es]
    /\ counts' = [e \in Edges |-> IF e \in es THEN counts[e] + 1 ELSE counts[e]]
    /\ history' = Newest(Append(history, <<session.version, session.version + 1>>))
    /\ SavesUpdate(session', counts')
    /\ handed' = Row(session', counts') /\ handedLive' = TRUE
    /\ steps' = steps + 1

\* recordEdge(): in place, with neither a version nor a write.
RecordEdge(e) ==
    /\ session # Absent /\ steps < MaxUpdates
    /\ session' = [session EXCEPT !.edges = @ \cup {e}] /\ counts' = Counted(e)
    /\ steps' = steps + 1
    /\ UNCHANGED <<row, history, handed, handedLive, missed>>

PersistSession ==
    /\ session # Absent /\ Saves(session, counts)
    /\ UNCHANGED <<session, counts, history, handed, handedLive, steps>>

\* loadSession(): whatever is in memory gives way to the row, and the history stays.
LoadSession ==
    /\ row # Absent
    /\ session' = [version |-> row.version, edges |-> row.edges] /\ counts' = row.counts
    /\ history' = IF session = Absent THEN <<>> ELSE history
    /\ handedLive' = FALSE
    /\ missed' = (missed /\ session # Absent)
    /\ UNCHANGED <<row, handed, steps>>

ProcessRestarts ==
    /\ session' = Absent /\ history' = <<>> /\ counts' = NoCounts
    /\ handed' = Absent /\ handedLive' = FALSE
    /\ UNCHANGED <<row, missed, steps>>

SharedNext ==
    \/ CreateSession \/ CloseSession \/ PersistSession \/ LoadSession \/ ProcessRestarts
    \/ \E es \in {{}} \cup {{e} : e \in Edges} : Update(es)
    \/ \E e \in Edges : RecordEdge(e)

-----------------------------------------------------------------------------
(* Properties *)

\* While sessions are persisted and every write succeeded, the row is the session
\* as its last update left it, so that loading it, at any moment, loses at most the
\* edges recordEdge() counted since, and the transitions still lead, without a gap,
\* to the version the session has.
RowFollowsSession ==
    Persists /\ session # Absent /\ ~missed =>
        /\ row # Absent /\ row.version = session.version
        /\ \A e \in Edges : row.counts[e] <= counts[e]
        /\ history # <<>> => Last(history)[2] = session.version
        /\ \A i \in 1..Len(history) - 1 : history[i + 1][1] = history[i][2]

\* "Returns the new state; the old reference is unchanged" (shared-state.ts:164): a
\* state update() returned shows the counts it showed when it was returned.
StatesAreImmutable ==
    handed # Absent /\ handedLive => \A e \in handed.edges : counts[e] = handed.counts[e]
=============================================================================
