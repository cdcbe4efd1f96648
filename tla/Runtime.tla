------------------------------- MODULE Runtime -------------------------------
(***************************************************************************)
(* The life of one AETHER process: AetherRuntime (core/runtime.ts) started *)
(* by the command run, link or spawn of bin/aether.ts and stopped by its   *)
(* main function, by the handler of SIGINT and SIGTERM, or by both.  Every *)
(* await is a step of its own, so the two shutdowns interleave.  Resources *)
(* are told apart from the fields of the runtime that lead to them.        *)
(***************************************************************************)
EXTENDS Naturals, FiniteSets

VARIABLES
    command,      \* run, link or spawn
    hanging,      \* a registered plugin has a shutdown hook that never ends
    pc,           \* of the command
    field,        \* resources in a field of the runtime
    open,         \* resources that are open
    live,         \* running
    doomed,       \* the command found an error
    stage,        \* actor -> stage of its shutdown(); 0 before it
    awaiting,     \* actor -> its stage is awaited
    flusher,      \* the actor whose logger.close() flushes
    foundOpen,    \* history: actor -> what its shutdown() found
    exit          \* how the process ended

runtimeVars == <<command, hanging, pc, field, open, live, doomed, stage, awaiting, flusher, foundOpen, exit>>

Actors == {"main", "signal"}
Stops == <<"server", "plugins", "structured", "store", "logger">>
Resources == {"timer"} \cup {Stops[k] : k \in 1..5}
Initialising == {"opening", "configuring", "syncing", "indexing", "loading"}
Phases == Initialising \cup {"start", "starting", "executing", "serving", "asking", "leaving", "refused"}

RuntimeTypeOK ==
    /\ command \in {"run", "link", "spawn"} /\ hanging \in BOOLEAN /\ pc \in Phases
    /\ field \subseteq Resources /\ open \subseteq Resources /\ live \in BOOLEAN /\ doomed \in BOOLEAN
    /\ stage \in [Actors -> 0..6] /\ awaiting \in [Actors -> BOOLEAN] /\ flusher \in Actors \cup {"nobody"}
    /\ foundOpen \in [Actors -> SUBSET Resources]
    /\ exit \in {"no", "success", "failure", "signal", "forced", "fatal", "killed"}

RuntimeInit ==
    /\ command \in {"run", "link", "spawn"} /\ hanging \in BOOLEAN
    /\ pc = "start" /\ field = {"logger"} /\ open = {"logger"} /\ live = FALSE /\ doomed = FALSE
    /\ stage = [a \in Actors |-> 0] /\ awaiting = [a \in Actors |-> FALSE] /\ flusher = "nobody"
    /\ foundOpen = [a \in Actors |-> {}] /\ exit = "no"

stopVars == <<stage, awaiting, flusher, foundOpen>>
Alive == exit = "no"
Goes(from, to) == Alive /\ pc = from /\ pc' = to

-----------------------------------------------------------------------------
(* init(): each action runs to the next await *)

\* The database is opened at once, or opening fails before or after; the field is set
\* when the await returns.
OpenStore ==
    /\ Goes("start", "opening") /\ open' \in {open, open \cup {"store"}}
    /\ UNCHANGED <<command, hanging, field, live, doomed, stopVars, exit>>

NeedsStore ==                                            \* seeded fault: no going on without a store
    /\ Goes("opening", "configuring") /\ "store" \in open /\ field' = field \cup {"store"}
    /\ UNCHANGED <<command, hanging, open, live, doomed, stopVars, exit>>
StoreOpened ==
    /\ Goes("opening", "configuring")
    /\ \/ field' = field \ {"store"}
       \/ "store" \in open /\ field' = field \cup {"store"}
    /\ UNCHANGED <<command, hanging, open, live, doomed, stopVars, exit>>

\* An error thrown by init(): run shuts down, for link and spawn the process fails.
InitThrows ==
    /\ Alive /\ pc \in {"configuring", "syncing"}
    /\ pc' = "leaving" /\ doomed' = TRUE
    /\ exit' = IF command = "run" THEN exit ELSE "fatal"
    /\ UNCHANGED <<command, hanging, field, open, live, stopVars>>

\* The configuration is loaded or made, then the providers are detected.
ProvidersReady == Goes("configuring", "syncing") /\ UNCHANGED <<command, hanging, field, open, live, doomed, stopVars, exit>>

\* A store the signal's shutdown() has taken away ends the sync with an error (InitThrows).
AgentsSynced == Goes("syncing", "indexing") /\ UNCHANGED <<command, hanging, field, open, live, doomed, stopVars, exit>>

\* The index is ready, or failed; what follows is built without an await up to the
\* directories of hooks and powers.
BuildSubsystems ==
    /\ Goes("indexing", "loading")
    /\ LET built == {"structured", "timer", "plugins"}
       IN field' = field \cup built /\ open' = open \cup built
    /\ UNCHANGED <<command, hanging, live, doomed, stopVars, exit>>

\* init() is over: run executes its task, link starts the server, spawn looks for one.
InitDone ==
    /\ live' = TRUE
    /\ \/ command = "run" /\ Goes("loading", "executing") /\ UNCHANGED <<field, open>>
       \/ command = "spawn" /\ Goes("loading", "asking") /\ UNCHANGED <<field, open>>
       \/ /\ command = "link" /\ Goes("loading", "starting")
          /\ field' = field \cup {"server"} /\ open' \in {open, open \cup {"server"}}
    /\ UNCHANGED <<command, hanging, doomed, stopVars, exit>>

-----------------------------------------------------------------------------
(* The commands *)

\* startServer() is back, or its port was taken; then the handlers are installed.
ServerStarted ==
    /\ \/ "server" \in open /\ Goes("starting", "serving") /\ UNCHANGED exit
       \/ "server" \notin open /\ Goes("starting", "refused") /\ exit' = "fatal"
    /\ UNCHANGED <<command, hanging, field, open, live, doomed, stopVars>>

\* The task of run ends with a result or an error.
TaskDone ==
    /\ Goes("executing", "leaving") /\ doomed' \in BOOLEAN
    /\ UNCHANGED <<command, hanging, field, open, live, stopVars, exit>>

\* spawn has found its agent and heard from the server, or not.
AgentAsked ==
    /\ Goes("asking", "leaving") /\ doomed' \in BOOLEAN
    /\ UNCHANGED <<command, hanging, field, open, live, stopVars, exit>>

Handled == command = "run" \/ (command = "link" /\ pc = "serving")

\* A signal without a handler kills; the first one with a handler starts a shutdown().
Killed ==
    /\ Alive /\ ~Handled /\ exit' = "killed"
    /\ UNCHANGED <<command, hanging, pc, field, open, live, doomed, stopVars>>

BeginStop(a) ==
    /\ stage' = [stage EXCEPT ![a] = 1]
    /\ foundOpen' = [foundOpen EXCEPT ![a] = field \cap open]
    /\ open' = open \ (field \cap {"timer"}) /\ field' = field \ {"timer"}
    /\ UNCHANGED <<command, hanging, pc, live, doomed, awaiting, flusher, exit>>

Signal == Alive /\ Handled /\ stage["signal"] = 0 /\ BeginStop("signal")
Leave == Alive /\ pc = "leaving" /\ stage["main"] = 0 /\ BeginStop("main")

-----------------------------------------------------------------------------
(* shutdown() *)

Moves(a) == stage' = [stage EXCEPT ![a] = @ + 1]

NullsFirst(a) ==                                          \* seeded fault: the field is null during the await
    /\ Alive /\ stage[a] \in 1..5 /\ ~awaiting[a]
    /\ LET r == Stops[stage[a]]
       IN IF r \in field
            THEN /\ awaiting' = [awaiting EXCEPT ![a] = TRUE]
                 /\ open' = IF r \in {"server", "structured", "store"} THEN open \ {r} ELSE open
                 /\ flusher' = IF r = "logger" /\ flusher = "nobody" THEN a ELSE flusher
                 /\ field' = field \ ({r} \ {"logger"}) /\ UNCHANGED stage
            ELSE Moves(a) /\ UNCHANGED <<awaiting, open, flusher, field>>
    /\ UNCHANGED <<command, hanging, pc, live, doomed, foundOpen, exit>>
\* A stage is passed when its field is null, or what it holds is told to close; only
\* the first close() of the logger writes.
EnterStop(a) ==
    /\ Alive /\ stage[a] \in 1..5 /\ ~awaiting[a]
    /\ LET r == Stops[stage[a]]
       IN IF r \in field
            THEN /\ awaiting' = [awaiting EXCEPT ![a] = TRUE]
                 /\ open' = IF r \in {"server", "structured", "store"} THEN open \ {r} ELSE open
                 /\ flusher' = IF r = "logger" /\ flusher = "nobody" THEN a ELSE flusher
                 /\ UNCHANGED stage
            ELSE Moves(a) /\ UNCHANGED <<awaiting, open, flusher>>
    /\ UNCHANGED <<command, hanging, pc, field, live, doomed, foundOpen, exit>>

\* The await returns and the field is set to null; running after the last one.  The
\* plugins are registered once init() is over.
LeaveStop(a) ==
    /\ Alive /\ stage[a] \in 1..5 /\ awaiting[a]
    /\ LET r == Stops[stage[a]]
       IN /\ ~(r = "plugins" /\ hanging /\ live)
          /\ field' = field \ ({r} \ {"logger"})
          /\ open' = IF r = "plugins" \/ (r = "logger" /\ flusher = a) THEN open \ {r} ELSE open
          /\ live' = IF r = "logger" THEN FALSE ELSE live
    /\ Moves(a) /\ awaiting' = [awaiting EXCEPT ![a] = FALSE]
    /\ UNCHANGED <<command, hanging, pc, doomed, flusher, foundOpen, exit>>

\* process.exit() after the shutdown.
Exit(a) ==
    /\ Alive /\ stage[a] = 6
    /\ exit' = CASE a = "signal" -> "signal" [] doomed -> "failure" [] OTHER -> "success"
    /\ UNCHANGED <<command, hanging, pc, field, open, live, doomed, stopVars>>

\* 15 s after the signal.
ForceExit ==
    /\ Alive /\ stage["signal"] \in 1..5 /\ exit' = "forced"
    /\ UNCHANGED <<command, hanging, pc, field, open, live, doomed, stopVars>>

-----------------------------------------------------------------------------

Initialise == OpenStore \/ StoreOpened \/ ProvidersReady \/ AgentsSynced \/ BuildSubsystems \/ InitDone
CommandStep == Initialise \/ ServerStarted \/ TaskDone \/ AgentAsked \/ Leave
Shutdown(a) == EnterStop(a) \/ LeaveStop(a) \/ Exit(a)

RuntimeNext ==
    \/ CommandStep \/ InitThrows \/ Killed \/ Signal
    \/ \E a \in Actors : Shutdown(a)
    \/ ForceExit

\* Awaits return, tasks end (the executor's timeouts), and the timer of the handler fires.
RuntimeFairness ==
    /\ WF_runtimeVars(CommandStep) /\ \A a \in Actors : WF_runtimeVars(Shutdown(a))
    /\ WF_runtimeVars(ForceExit)

-----------------------------------------------------------------------------
(* Properties *)

\* A process that leaves through a shutdown() leaves nothing open that this shutdown()
\* found, though another one runs beside it (shutdown(), handleRun(), handleLink()):
\* only the writing of the log by the other one may be cut off.
CleanExit ==
    \A a \in Actors :
        (stage[a] = 6 /\ exit \in {"no"} \cup (IF a = "signal" THEN {"signal"} ELSE {"success", "failure"}))
            => foundOpen[a] \cap open \subseteq {r \in {"logger"} : flusher # a}

\* The store the runtime holds is open, unless a shutdown() is just closing it.
StoreAlive ==
    "store" \in field => "store" \in open \/ \E a \in Actors : awaiting[a] /\ Stops[stage[a]] = "store"

\* A signal ends the process, even when a plugin hangs; run ends by itself when none does.
CommandEnds ==
    (stage["signal"] > 0 \/ (command = "run" /\ ~hanging)) ~> (exit # "no")
=============================================================================
