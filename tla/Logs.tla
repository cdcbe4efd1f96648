-------------------------------- MODULE Logs --------------------------------
(***************************************************************************)
(* The two loggers: the structured one (core/structured-logger.ts), whose  *)
(* two files are appended to at once, and the one every component writes   *)
(* to (core/logger.ts), whose flush waits for the disk and tries again.    *)
(* An entry is the number it was logged at.                                *)
(***************************************************************************)
EXTENDS Integers, Sequences, FiniteSets, SequencesExt, FiniteSetsExt

CONSTANTS
    MaxEntries,      \* bound: what is logged
    MaxRetained,     \* maxRetainedEntries; at least 1, since slice(-0) would keep everything
    MaxAttempts      \* MAX_FLUSH_RETRIES

VARIABLES
    logged,          \* entries so far
    streamed,        \* history: stream -> the entries the structured logger took for it
    retained,        \* its entries in memory
    streamBuffer, streamFile, streamLost,   \* by stream: what waits, the file, history: what could not be written
    streamClosed,
    accepted,        \* history: the entries the logger took
    buffer, flushed, tries, logFile, stderr,   \* its buffer, the lines of the flush in progress and the attempt
    closing,         \* of the logger: open, flushing, closed, or the process has ended
    behind           \* history: close() found a flush in progress

logVars == <<logged, streamed, retained, streamBuffer, streamFile, streamLost, streamClosed,
             accepted, buffer, flushed, tries, logFile, stderr, closing, behind>>
structured == <<streamed, retained, streamBuffer, streamFile, streamLost, streamClosed>>

Streams == {"structured", "audit"}
Entries == 1..MaxEntries

LogsTypeOK ==
    /\ logged \in 0..MaxEntries /\ accepted \subseteq Entries
    /\ streamed \in [Streams -> SUBSET Entries] /\ ToSet(retained) \subseteq Entries
    /\ \A s \in Streams : (ToSet(streamBuffer[s]) \cup ToSet(streamFile[s]) \cup streamLost[s]) \subseteq Entries
    /\ streamClosed \in BOOLEAN /\ behind \in BOOLEAN
    /\ \A q \in {buffer, flushed, logFile, stderr} : ToSet(q) \subseteq Entries
    /\ tries \in 0..MaxAttempts /\ closing \in {"open", "flushing", "closed", "ended"}

LogsInit ==
    /\ logged = 0 /\ retained = <<>> /\ streamClosed = FALSE /\ accepted = {}
    /\ streamed = [s \in Streams |-> {}] /\ streamLost = streamed
    /\ streamBuffer = [s \in Streams |-> <<>>] /\ streamFile = streamBuffer
    /\ buffer = <<>> /\ flushed = <<>> /\ tries = 0 /\ logFile = <<>> /\ stderr = <<>>
    /\ closing = "open" /\ behind = FALSE

Running == closing # "ended"

-----------------------------------------------------------------------------
(* Logging *)

\* The logger takes an entry that passes its level, until it is closed.
Takes(entry, passes) ==
    IF passes /\ closing = "open"
    THEN buffer' = Append(buffer, entry) /\ accepted' = accepted \cup {entry}
    ELSE UNCHANGED <<buffer, accepted>>

\* StructuredLogger.log() keeps the last entries, writes one line and forwards it;
\* auditACPMessage() writes to its own stream only.
FirstOnes(entries) == SubSeq(entries, 1, IF Len(entries) > MaxRetained THEN MaxRetained ELSE Len(entries))  \* seeded fault
LastOnes(entries) == IF Len(entries) > MaxRetained THEN Tail(entries) ELSE entries

Streamed(stream) ==
    /\ Running /\ ~streamClosed /\ logged < MaxEntries /\ logged' = logged + 1
    /\ streamed' = [streamed EXCEPT ![stream] = @ \cup {logged'}]
    /\ streamBuffer' = [streamBuffer EXCEPT ![stream] = Append(@, logged')]

Log(passes) ==
    /\ Streamed("structured") /\ retained' = LastOnes(Append(retained, logged')) /\ Takes(logged', passes)
    /\ UNCHANGED <<streamFile, streamLost, streamClosed, flushed, tries, logFile, stderr, closing, behind>>

AuditACPMessage ==
    /\ Streamed("audit") /\ UNCHANGED <<retained, buffer, accepted>>
    /\ UNCHANGED <<streamFile, streamLost, streamClosed, flushed, tries, logFile, stderr, closing, behind>>

\* A component logs without the structured logger.
LogDirectly ==
    /\ Running /\ logged < MaxEntries /\ logged' = logged + 1 /\ Takes(logged', TRUE)
    /\ UNCHANGED <<structured, flushed, tries, logFile, stderr, closing, behind>>

-----------------------------------------------------------------------------
(* The structured logger's flush, by its timer and by close(): each stream is written at
   once, and dropped when that fails. *)

WriteStreams ==
    \E written \in SUBSET Streams :
        /\ streamFile' = [s \in Streams |-> IF s \in written THEN streamFile[s] \o streamBuffer[s] ELSE streamFile[s]]
        /\ streamLost' = [s \in Streams |-> IF s \in written THEN streamLost[s] ELSE streamLost[s] \cup ToSet(streamBuffer[s])]
        /\ streamBuffer' = [s \in Streams |-> <<>>]

FlushStreams ==
    /\ Running /\ ~streamClosed /\ WriteStreams
    /\ UNCHANGED <<logged, streamed, retained, streamClosed, accepted, buffer, flushed, tries, logFile, stderr, closing, behind>>
CloseStreams ==
    /\ Running /\ ~streamClosed /\ streamClosed' = TRUE /\ WriteStreams
    /\ UNCHANGED <<logged, streamed, retained, accepted, buffer, flushed, tries, logFile, stderr, closing, behind>>

-----------------------------------------------------------------------------
(* The logger's flush *)

\* flush() takes the buffer, unless one is in progress.
Free == flushed = <<>> /\ buffer # <<>>
SwapLate == flushed' = buffer /\ tries' = 1 /\ UNCHANGED buffer        \* seeded fault: the buffer stays
Swap == flushed' = buffer /\ tries' = 1 /\ buffer' = <<>>

StartFlush ==
    /\ closing = "open" /\ Free /\ Swap
    /\ UNCHANGED <<logged, structured, accepted, logFile, stderr, closing, behind>>

\* close() flushes and waits for its own flush only.
NoFlush == closing' = "closed" /\ UNCHANGED <<buffer, flushed, tries>>   \* seeded fault
LastFlush ==
    IF Free THEN Swap /\ closing' = "flushing"
    ELSE closing' = "closed" /\ UNCHANGED <<buffer, flushed, tries>>
Close ==
    /\ closing = "open" /\ LastFlush /\ behind' = (flushed # <<>>)
    /\ UNCHANGED <<logged, structured, accepted, logFile, stderr>>

FlushEnds == /\ flushed' = <<>> /\ tries' = 0
             /\ closing' = IF closing = "flushing" THEN "closed" ELSE closing

\* An attempt appends the lines, or fails and is followed by another one; after the last the
\* lines go to stderr.
Written ==
    /\ Running /\ flushed # <<>> /\ logFile' = logFile \o flushed /\ FlushEnds
    /\ UNCHANGED <<logged, structured, accepted, buffer, stderr, behind>>
Failed ==
    /\ Running /\ flushed # <<>>
    /\ IF tries < MaxAttempts THEN tries' = tries + 1 /\ UNCHANGED <<flushed, stderr, closing>>
       ELSE stderr' = stderr \o flushed /\ FlushEnds
    /\ UNCHANGED <<logged, structured, accepted, buffer, logFile, behind>>

\* The process ends when the logger is closed, a flush in progress with it.
End ==
    /\ closing = "closed" /\ closing' = "ended"
    /\ UNCHANGED <<logged, structured, accepted, buffer, flushed, tries, logFile, stderr, behind>>

LogsNext ==
    \/ (\E passes \in BOOLEAN : Log(passes)) \/ AuditACPMessage
    \/ LogDirectly \/ FlushStreams \/ CloseStreams
    \/ StartFlush \/ Close \/ Written \/ Failed \/ End

-----------------------------------------------------------------------------
(* Properties *)

Ascending(q) == \A i, j \in DOMAIN q : i < j => q[i] < q[j]

\* Every line the logger took is in one place, once: the file, stderr, the flush in progress
\* or the buffer, each in the order of logging (log, flush and its retries).
EachLineOnce ==
    LET places == <<logFile, stderr, flushed, buffer>>
    IN /\ ToSet(logFile \o stderr \o flushed \o buffer) = accepted
       /\ Len(logFile \o stderr \o flushed \o buffer) = Cardinality(accepted)
       /\ \A i \in DOMAIN places : Ascending(places[i])

\* A logger that is closed has written everything, unless its close() came while a flush was
\* in progress: then it waited for nothing (logger.ts:100-117).
ClosedIsWritten == closing \in {"closed", "ended"} /\ ~behind => buffer = <<>> /\ flushed = <<>>

\* The structured logger remembers the last entries in order, and its lines are in their
\* file in order, dropped by a failed write, or waiting while it is open.
StreamsComplete ==
    /\ Ascending(retained)
    /\ ToSet(retained) = {e \in streamed["structured"] :
                            Cardinality({f \in streamed["structured"] : f > e}) < MaxRetained}
    /\ \A s \in Streams :
         /\ streamed[s] = ToSet(streamFile[s] \o streamBuffer[s]) \cup streamLost[s]
         /\ Ascending(streamFile[s] \o streamBuffer[s])
         /\ streamClosed => streamBuffer[s] = <<>>
=============================================================================
