------------------------------ MODULE Providers ------------------------------
(***************************************************************************)
(* sendForTier() of providers/manager.ts over the chains of                *)
(* core/fallback/chain-manager.ts: the models of the tier's chain with     *)
(* every provider, then the tier's own provider, then the configured       *)
(* fallbacks.  A provider may stay silent for ever: no send has a timeout.  *)
(***************************************************************************)
EXTENDS Naturals, Sequences, FiniteSets, SequencesExt

CONSTANTS
    Names,        \* the providers, in the order of initializeProviders()
    Models, Own,  \* models of chains; the model of the tier itself
    Primary       \* the tier's provider

VARIABLES
    configured,   \* which of them have a key
    chained,      \* whether a FallbackChainManager is set
    chain,        \* its models for the tier
    fallbacks,    \* config.fallbackChain: the providers
    using,        \* the chain the running request iterates
    stage, model, next,  \* where it is: the stage, which model, which provider
    asked         \* history: whom it asked, and for which model

providerVars == <<configured, chained, chain, fallbacks, using, stage, model, next, asked>>
settings == <<configured, chained, chain, fallbacks>>

Providing == {"chain", "primary", "fallback"}
Chains == UNION {[1..n -> Models] : n \in 0..2}

ProvidersTypeOK ==
    /\ configured \subseteq ToSet(Names) /\ chained \in BOOLEAN /\ chain \in Chains /\ using \in Chains
    /\ fallbacks \in SubSeqs(Names)
    /\ stage \in Providing \cup {"none", "answered", "failed"}
    /\ model \in 1..3 /\ next \in 1..Len(Names) + 1
    /\ \A i \in 1..Len(asked) : asked[i] \in ToSet(Names) \X (Models \cup {Own})

ProvidersInit ==
    /\ configured \in SUBSET ToSet(Names) /\ chained \in BOOLEAN /\ chain \in Chains
    /\ fallbacks \in SubSeqs(Names)
    /\ using = <<>> /\ stage = "none" /\ model = 1 /\ next = 1 /\ asked = <<>>

-----------------------------------------------------------------------------

At(s, m, n) == stage' = s /\ model' = m /\ next' = n

\* Without a chain, or with an empty one, the chain manager throws at once.
SendForTier ==
    /\ stage = "none"
    /\ using' = IF chained THEN chain ELSE <<>>
    /\ At(IF chained /\ chain # <<>> THEN "chain" ELSE "primary", 1, 1)
    /\ UNCHANGED <<settings, asked>>

\* Whom the request asks now, and for what.
Provider == CASE stage = "chain" -> Names[next] [] stage = "primary" -> Primary [] OTHER -> fallbacks[next]
Model == IF stage = "chain" THEN using[model] ELSE Own
Exhausted == stage = "fallback" /\ next > Len(fallbacks)

FirstModelOnly == IF next < Len(Names) THEN At("chain", model, next + 1)
                  ELSE At("primary", 1, 1)             \* seeded fault: one model tried
\* After a provider that has no key, or that failed: the next one, or, after the
\* last one, the next model.
NextModel == IF next < Len(Names) THEN At("chain", model, next + 1)
             ELSE IF model < Len(using) THEN At("chain", model + 1, 1) ELSE At("primary", 1, 1)
NextFallback == At("fallback", 1, IF stage = "primary" THEN 1 ELSE next + 1)
Onward == IF stage = "chain" THEN NextModel ELSE NextFallback

Skip ==
    /\ stage \in Providing /\ ~Exhausted /\ Provider \notin configured
    /\ Onward
    /\ UNCHANGED <<settings, using, asked>>

Ask ==
    /\ stage \in Providing /\ ~Exhausted /\ Provider \in configured
    /\ asked' = Append(asked, <<Provider, Model>>)
    /\ At("answered", 1, 1) \/ Onward
    /\ UNCHANGED <<settings, using>>

GiveUp ==
    /\ Exhausted /\ At("failed", 1, 1)
    /\ UNCHANGED <<settings, using, asked>>

\* setChain() puts another array in place; setFallbackChain() another manager.
SetChain ==
    /\ chained' = TRUE /\ \E c \in Chains : chain' = c
    /\ UNCHANGED <<configured, fallbacks, using, stage, model, next, asked>>

ProvidersNext == SendForTier \/ Skip \/ Ask \/ GiveUp \/ SetChain
-----------------------------------------------------------------------------
(* Properties *)

\* A request fails only when every provider with a key has refused every model of
\* the chain it started with and everybody its own; it asks for its own model last
\* and nobody more often than the settings say, also when the chain changes.
GivesUpLast ==
    /\ stage = "failed" =>
         /\ \A p \in configured, i \in 1..Len(using) : <<p, using[i]>> \in ToSet(asked)
         /\ \A p \in configured \cap ({Primary} \cup ToSet(fallbacks)) : <<p, Own>> \in ToSet(asked)
    /\ \A i \in 1..Len(asked) : asked[i][2] # Own => \A j \in 1..Len(asked) : asked[j][2] = Own => i < j
    /\ Len(asked) <= Len(using) * Cardinality(configured) + 1 + Len(fallbacks)
=============================================================================
