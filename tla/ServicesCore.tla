---------------------------- MODULE ServicesCore ----------------------------
(***************************************************************************)
(* Those of the components of ServicesMC that have a number to keep to, or *)
(* rows, files and caches to keep in step, in one specification: a         *)
(* behaviour takes the steps of one component (part), the others stay as   *)
(* they start.                                                             *)
(***************************************************************************)
EXTENDS Escalation, Sequences, Functions

CONSTANTS
    Parts,                                       \* whose behaviours are taken
    Names, Models, Primary,                      \* providers, their models, that of the tier
    Items, BatchSize, MaxRetries, CheckInterval, \* of batches
    Crew, Monitors, MaxAgents,                   \* of the fleet
    RuleCount, CooldownMs, MaxFires, Signals, MaxInstant,   \* of reactions
    PowerNames, Callers, MaxMishaps,             \* of the installer
    Routed, Topics, RouteContexts, Requests, Configured, RouteCacheSize,  \* of the router
    Indexed, Texts, NoText, ItemLists, MaxWrites, MaxDocs, EmbedCacheSize, ApiFits,   \* of the index
    Queries, Spaces, Volatile, BitsOf, HotCacheSize, CacheAfterHits, TTL, MaxWait, MaxPending, MaxHour   \* of its cache

ASSUME ServicesAssumption ==
    /\ Names \in Seq(Range(Names)) /\ Len(Names) > 0 /\ IsInjective(Names) /\ "own" \notin Models
    /\ Items \in Nat /\ BatchSize \in Nat \ {0} /\ MaxRetries \in Nat /\ CheckInterval \in Nat \ {0}
    /\ IsFiniteSet(Crew) /\ MaxAgents \in Nat
    /\ RuleCount \in Nat /\ CooldownMs \in Nat /\ MaxFires \in Nat /\ IsFiniteSet(Signals)
    /\ MaxInstant \in Nat \ {0}
    /\ MaxMishaps \in Nat
    /\ Configured \in [RouteContexts -> SUBSET Routed] /\ NoAgent \notin Routed
    /\ RouteCacheSize \in Nat \ {0}
    /\ NoText \notin Texts /\ ItemLists \subseteq Seq([id : Indexed, text : Texts]) \ {<<>>}
    /\ MaxWrites \in Nat /\ MaxDocs \in Nat /\ EmbedCacheSize \in Nat \ {0} /\ ApiFits \in BOOLEAN
    /\ Volatile \subseteq Spaces /\ HotCacheSize \in Nat \ {0} /\ CacheAfterHits \in Nat /\ TTL \in Nat
    /\ MaxWait \in Nat /\ MaxPending \in Nat /\ MaxHour \in Nat

VARIABLES
    part,
    configured, chained, chain, fallbacks, using, stage, model, next, asked,
    batch, item, attempt, results, requestCount,
    crew, agentRow, agentFiles, ephemeral, paused, working, spawned, restarted,
    subscribed, ruleEnabled, lastFiredAt, fireCount, position, awaiting, instant, fires,
    folder, rows, call, mishaps, overlapped, disturbed,
    fallback, contexts, activeContext, cache, agentStatus, req,
    vectorMode, ready, docs, corpusDirty, savedDocs, vecs, ftsTexts, writes, embedded, latest,
    present, goneAt, hot, bloom, learned, freq, pending, hour

Providers == INSTANCE Providers WITH Own <- "own"
Batches == INSTANCE Batches
Fleet == INSTANCE Fleet WITH registered <- crew
Reactions == INSTANCE Reactions
Installer == INSTANCE Powers WITH Powers <- PowerNames
Router == INSTANCE Router WITH Agents <- Routed, Contexts <- RouteContexts, Tasks <- Topics, Resolves <- Requests,
                               Nobody <- NoAgent, MaxSize <- RouteCacheSize
Rag == INSTANCE RagIndex WITH Ids <- Indexed, Keys <- Queries, MaxCalls <- MaxDocs, CacheSize <- EmbedCacheSize,
                              MaxTime <- MaxHour

providerVars == <<configured, chained, chain, fallbacks, using, stage, model, next, asked>>
batchVars == <<batch, item, attempt, results, requestCount>>
fleetVars == <<crew, agentRow, agentFiles, ephemeral, paused, working, spawned, restarted>>
reactVars == <<subscribed, ruleEnabled, lastFiredAt, fireCount, position, awaiting, instant, fires>>
powerVars == <<folder, rows, call, mishaps, overlapped, disturbed>>
routerVars == <<fallback, contexts, activeContext, cache, agentStatus, req>>
ragVars == <<vectorMode, ready, docs, corpusDirty, savedDocs, vecs, ftsTexts, writes, embedded, latest>>
metaVars == <<present, goneAt, hot, bloom, learned, freq, pending, hour>>
coreVars == <<part, escVars, providerVars, batchVars, fleetVars, reactVars, powerVars, routerVars, ragVars, metaVars>>

-----------------------------------------------------------------------------

\* The part that moves starts in any of its initial states, the others in one.
CoreInit ==
    /\ part \in Parts
    /\ EscInit
    /\ Providers!ProvidersInit
    /\ (part # "providers" => configured = {} /\ ~chained /\ chain = <<>> /\ fallbacks = <<>>)
    /\ Batches!BatchInit
    /\ Fleet!FleetInit /\ (part # "fleet" => agentFiles = {})
    /\ Reactions!ReactInit
    /\ Installer!PowersInit
    /\ Router!RouterInit /\ (part # "router" => fallback /\ activeContext = CHOOSE c \in RouteContexts : TRUE)
    /\ Rag!RagInit /\ (part # "rag" => vectorMode = "tfidf")
    /\ Rag!MetaInit

CoreOthers ==
    /\ IF part = "escalation" THEN TRUE ELSE UNCHANGED escVars
    /\ IF part = "providers" THEN TRUE ELSE UNCHANGED providerVars
    /\ IF part = "batches" THEN TRUE ELSE UNCHANGED batchVars
    /\ IF part = "fleet" THEN TRUE ELSE UNCHANGED fleetVars
    /\ IF part = "reactions" THEN TRUE ELSE UNCHANGED reactVars
    /\ IF part = "powers" THEN TRUE ELSE UNCHANGED powerVars
    /\ IF part = "router" THEN TRUE ELSE UNCHANGED routerVars
    /\ IF part = "rag" THEN TRUE ELSE UNCHANGED ragVars
    /\ IF part = "ragmeta" THEN TRUE ELSE UNCHANGED metaVars
    /\ UNCHANGED part

CoreNext ==
    \/ part = "escalation" /\ EscNext /\ CoreOthers
    \/ part = "providers" /\ Providers!ProvidersNext /\ CoreOthers
    \/ part = "batches" /\ Batches!BatchNext /\ CoreOthers
    \/ part = "fleet" /\ Fleet!FleetNext /\ CoreOthers
    \/ part = "reactions" /\ Reactions!ReactNext /\ CoreOthers
    \/ part = "powers" /\ Installer!PowersNext /\ CoreOthers
    \/ part = "router" /\ Router!RouterNext /\ CoreOthers
    \/ part = "rag" /\ Rag!RagNext /\ CoreOthers
    \/ part = "ragmeta" /\ Rag!MetaNext /\ CoreOthers

CoreSpec == CoreInit /\ [][CoreNext]_coreVars

-----------------------------------------------------------------------------
(* Properties: those of the components, by what they are about.  The variables of the
   components that do not move stay as they start. *)

Of(p, holds) == part = p => holds

\* The breaker of the escalation manager holds over restarts and its rate.
BreakersHold == Of("escalation", BreakerSurvivesRestart /\ RateBound)

\* Registry, rows and files agree about every agent, the pause of the swarm ends, and the
\* powers that have a row are those whose directory is there and whole.
FleetConsistent ==
    /\ Of("fleet", Fleet!FleetAgrees /\ Fleet!FleetBounded)
    /\ Of("powers", Installer!RowsFollowFolders /\ Installer!FoldersWhole)

\* Nothing is tried, fired or run more often than its settings allow.
EffortLimited ==
    /\ Of("reactions", Reactions!FiringsLimited)
    /\ Of("providers", Providers!GivesUpLast)
    /\ Of("batches", Batches!BatchesInOrder)

\* What the router has cached and what the index and its cache answer holds now.
AgentsCurrent ==
    /\ Of("router", Router!CacheFresh)
    /\ Of("rag", Rag!VectorsHaveTexts /\ Rag!LastCallWins /\ Rag!CorpusSaved)
    /\ Of("ragmeta", Rag!StaleAtMostTTL /\ Rag!FilterComplete /\ Rag!HotEarned)
=============================================================================
