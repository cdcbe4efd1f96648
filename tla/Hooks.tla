-------------------------------- MODULE Hooks --------------------------------
(***************************************************************************)
(* One file hook: its entry in HookRegistry (core/hooks/registry.ts) with  *)
(* reload(), the debounce timer and queue of DebounceManager (debounce.ts) *)
(* and the execution by BackgroundDispatcher (dispatcher.ts), whose result *)
(* is the handler's, a timeout or a cancellation.  Events are numbered.    *)
(***************************************************************************)
EXTENDS Naturals, Sequences, FiniteSets, SequencesExt

CONSTANTS
    MaxFileEvents,    \* bound: events
    MaxQueued,        \* maxQueuedPerHook
    NoEvent

VARIABLES
    hook,             \* absent, enabled, disabled; or reading: reload() awaits the directory
    happened,         \* events so far
    pending,          \* the event of the debounce timer
    queue,            \* events waiting for the running one
    runningHook,      \* running has the hook
    executing,        \* events being dispatched: in runningDispatches
    aborted,          \* those whose signal was aborted, and how: timeout or cancelled
    ended,            \* history: event -> how its dispatch ended
    dropped,          \* history: events given up for a later one, or cancelled
    disposed

hookVars == <<hook, happened, pending, queue, runningHook, executing, aborted, ended, dropped, disposed>>
debounceVars == <<happened, pending, queue, runningHook, dropped, disposed>>
dispatchVars == <<executing, aborted, ended>>

Events == 1..MaxFileEvents
Endings == {"success", "failure", "timeout", "cancelled"}

HooksTypeOK ==
    /\ hook \in {"absent", "enabled", "disabled", "reading"}
    /\ happened \in 0..MaxFileEvents /\ pending \in Events \cup {NoEvent}
    /\ queue \in BoundedSeq(Events, MaxQueued) /\ runningHook \in BOOLEAN
    /\ executing \subseteq Events /\ aborted \in [Events -> {"no", "timeout", "cancelled"}]
    /\ ended \in [Events -> {"none"} \cup Endings] /\ dropped \subseteq Events /\ disposed \in BOOLEAN

HooksInit ==
    /\ hook = "enabled" /\ happened = 0 /\ pending = NoEvent /\ queue = <<>> /\ runningHook = FALSE
    /\ executing = {} /\ aborted = [e \in Events |-> "no"] /\ ended = [e \in Events |-> "none"]
    /\ dropped = {} /\ disposed = FALSE

-----------------------------------------------------------------------------

\* reload() clears the hooks and reads them again; enableHook() finds what is there.
Reload == hook' = "reading" /\ hook # "reading" /\ UNCHANGED <<debounceVars, dispatchVars>>
HooksRead ==
    /\ hook = "reading" /\ hook' \in {"absent", "enabled", "disabled"}
    /\ UNCHANGED <<debounceVars, dispatchVars>>
EnableHook ==
    /\ hook \in {"enabled", "disabled"} /\ hook' \in {"enabled", "disabled"} \ {hook}
    /\ UNCHANGED <<debounceVars, dispatchVars>>

Begins(e) == runningHook' = TRUE /\ executing' = executing \cup {e}

\* An event the hook matches is scheduled: behind the running one, where the oldest
\* gives way when the queue is full, or with the timer started anew.
EnqueueOrDrop(e) ==
    IF Len(queue) >= MaxQueued
    THEN queue' = Append(Tail(queue), e) /\ dropped' = dropped \cup {Head(queue)}
    ELSE queue' = Append(queue, e) /\ UNCHANGED dropped

Schedule ==
    /\ hook = "enabled" /\ happened < MaxFileEvents
    /\ happened' = happened + 1
    /\ IF runningHook THEN EnqueueOrDrop(happened') /\ UNCHANGED pending
       ELSE /\ pending' = happened' /\ UNCHANGED queue
            /\ dropped' = dropped \cup ({pending} \ {NoEvent})
    /\ UNCHANGED <<hook, runningHook, disposed, dispatchVars>>

TimerFires ==
    /\ pending # NoEvent /\ pending' = NoEvent /\ Begins(pending)
    /\ UNCHANGED <<hook, happened, queue, dropped, disposed, aborted, ended>>

\* cancel() of the debounce: only the timer.
CancelPending ==
    /\ pending # NoEvent /\ pending' = NoEvent /\ dropped' = dropped \cup {pending}
    /\ UNCHANGED <<hook, happened, queue, runningHook, disposed, dispatchVars>>

\* The abort of a dispatch: by its timer, or by cancel(), which may come first.
Aborts(e, why) ==
    /\ e \in executing
    /\ aborted' = [aborted EXCEPT ![e] = IF why = "timeout" \/ @ = "no" THEN why ELSE @]
    /\ UNCHANGED <<hook, debounceVars, executing, ended>>

LeavesQueue(e) ==                                      \* seeded fault: the queue is not looked at
    runningHook' = FALSE /\ executing' = executing \ {e} /\ UNCHANGED queue
\* processQueue(): when one ends the next of the queue starts.
StartsNext(e) ==
    IF queue = <<>> THEN runningHook' = FALSE /\ executing' = executing \ {e} /\ UNCHANGED queue
    ELSE runningHook' = TRUE /\ executing' = (executing \ {e}) \cup {Head(queue)} /\ queue' = Tail(queue)

\* The race of the handler and the abort: an aborted dispatch says why it was.
DispatchEnds(e, how) ==
    /\ e \in executing
    /\ how \in (IF aborted[e] = "no" THEN {"success", "failure"} ELSE {aborted[e]})
    /\ ended' = [ended EXCEPT ![e] = how]
    /\ StartsNext(e)
    /\ UNCHANGED <<hook, happened, pending, dropped, disposed, aborted>>

\* dispose() forgets that a callback is running.
Dispose ==
    /\ disposed' = TRUE
    /\ dropped' = dropped \cup ({pending} \ {NoEvent}) \cup ToSet(queue)
    /\ pending' = NoEvent /\ queue' = <<>> /\ runningHook' = FALSE
    /\ UNCHANGED <<hook, happened, dispatchVars>>

HooksNext ==
    \/ Reload \/ HooksRead \/ EnableHook \/ Schedule \/ TimerFires \/ CancelPending \/ Dispose
    \/ \E e \in Events : Aborts(e, "timeout") \/ Aborts(e, "cancelled") \/ \E how \in Endings : DispatchEnds(e, how)

\* Timers fire; a dispatch has a timeout, and an aborted one ends.
HooksFairness ==
    /\ WF_hookVars(TimerFires)
    /\ \A e \in Events : WF_hookVars(e \in executing /\ aborted[e] = "no" /\ Aborts(e, "timeout"))
    /\ \A e \in Events : WF_hookVars(\E how \in Endings : DispatchEnds(e, how))

-----------------------------------------------------------------------------
(* Properties *)

\* Until it is disposed a hook runs alone: never twice at once, never with its timer
\* running, and the queue holds events only while something runs that will end.
HookRunsAlone ==
    ~disposed =>
        /\ Cardinality(executing) <= 1 /\ (runningHook <=> executing # {})
        /\ runningHook => pending = NoEvent
        /\ ~runningHook => queue = <<>>
        /\ \A e \in executing : \A i \in 1..Len(queue) : e < queue[i]

\* Every event is answered in the end by its own dispatch or given up for a later
\* one; what is given up although nobody cancelled it is never the newest.
EventsAnswered == \A e \in Events : happened >= e ~> (ended[e] # "none" \/ e \in dropped)
=============================================================================
