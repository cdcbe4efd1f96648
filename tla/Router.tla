------------------------------- MODULE Router -------------------------------
(***************************************************************************)
(* The agent router of core/router.ts: contexts, the routing cache and     *)
(* resolve(), which awaits the strategies between reading the cache and    *)
(* writing it.  Its caller passes copies of the agents.  Which agent the   *)
(* strategies prefer is data: any candidate may come out, except that the  *)
(* last resort, load balancing, takes available ones.  The hash of context *)
(* and task that is the key of the cache is taken to be injective.         *)
(***************************************************************************)
EXTENDS Naturals, Sequences, SequencesExt

CONSTANTS
    Agents, Tasks, Contexts, Resolves,
    Nobody,
    Configured,    \* settings.routing.contexts: context -> its agents
    MaxSize        \* cache.maxSize

VARIABLES
    fallback,      \* contextFallback
    contexts, activeContext,
    cache,         \* the entries, oldest first
    agentStatus,   \* of the registry: available, or offline and the like
    req            \* the calls of resolve()

routerVars == <<fallback, contexts, activeContext, cache, agentStatus, req>>

Status == {"idle", "offline"}
NoRequest == [step |-> "none", task |-> Nobody, candidates |-> {}, was |-> [a \in Agents |-> "idle"],
              agent |-> Nobody, disturbed |-> FALSE]
Done(how, a) == [NoRequest EXCEPT !.step = how, !.agent = a]
Open == {"first", "second"}

RouterTypeOK ==
    /\ fallback \in BOOLEAN
    /\ contexts \in [Contexts -> SUBSET Agents] /\ activeContext \in Contexts
    /\ \A i \in 1..Len(cache) : cache[i].ctx \in Contexts /\ cache[i].agent \in Agents
    /\ agentStatus \in [Agents -> Status]
    /\ \A r \in Resolves : req[r].step \in Open \cup {"none", "direct", "cached", "chosen"}

RouterInit ==
    /\ fallback \in BOOLEAN
    /\ contexts = Configured /\ activeContext \in Contexts
    /\ cache = <<>>
    /\ agentStatus = [a \in Agents |-> "idle"]
    /\ req = [r \in Resolves |-> NoRequest]

-----------------------------------------------------------------------------
(* The cache *)

\* The members of s that are in S, in their order.
Kept(s, S) ==
    LET F[i \in 0..Len(s)] == IF i = 0 THEN <<>> ELSE IF s[i] \in S THEN Append(F[i - 1], s[i]) ELSE F[i - 1]
    IN F[Len(s)]

Fits(e, ctx, t) == e.ctx = ctx /\ e.task = t
Without(ctx, t) == Kept(cache, {e \in Range(cache) : ~Fits(e, ctx, t)})
InvalidateAgent(a) == Kept(cache, {e \in Range(cache) : e.agent # a})

\* set() makes room even for a key that is there; such a key keeps its place.
Set(entry) ==
    LET kept == IF Len(cache) >= MaxSize THEN Tail(cache) ELSE cache
        same == {i \in 1..Len(kept) : Fits(kept[i], entry.ctx, entry.task)}
    IN IF same = {} THEN Append(kept, entry)
       ELSE [i \in 1..Len(kept) |-> IF i \in same THEN entry ELSE kept[i]]

\* setContext(): only a change of the active context empties the cache.
KeepsRoutes(c) == cache                                \* seeded fault: entries kept
Invalidated(c) == IF c = activeContext THEN <<>> ELSE cache

\* A context changes while a request waits for its strategies.
Disturbed == [r \in Resolves |-> [req[r] EXCEPT !.disturbed = @ \/ req[r].step \in Open]]

-----------------------------------------------------------------------------
(* resolve() *)

DirectMatch(r, a) ==
    /\ req[r].step = "none"
    /\ req' = [req EXCEPT ![r] = Done("direct", Nobody)]
    /\ UNCHANGED <<fallback, contexts, activeContext, cache, agentStatus>>

\* The entry of the key, if there is one; it may be too old.
Cached(t) == {e \in Range(cache) : Fits(e, activeContext, t)}

\* get() moves an entry to the young end; its agent is the copy that was cached.
ResolveCached(r, t) ==
    /\ req[r].step = "none"
    /\ \E e \in Cached(t) :
         /\ e.was = "idle"
         /\ req' = [req EXCEPT ![r] = Done("cached", e.agent)]
         /\ cache' = Append(Without(activeContext, t), e)
    /\ UNCHANGED <<fallback, contexts, activeContext, agentStatus>>

\* No entry, one that has expired, or one of an agent that was not available.
ResolveAnew(r, t) ==
    /\ req[r].step = "none"
    /\ \/ Cached(t) = {} /\ UNCHANGED cache
       \/ Cached(t) # {} /\ cache' = Without(activeContext, t)
       \/ \E e \in Cached(t) : e.was # "idle" /\ cache' = InvalidateAgent(e.agent)
    /\ req' = [req EXCEPT ![r] = [NoRequest EXCEPT !.step = "first", !.task = t,
                                    !.candidates = contexts[activeContext], !.was = agentStatus]]
    /\ UNCHANGED <<fallback, contexts, activeContext, agentStatus>>

\* What the strategies may find: by file ownership or capabilities, and by
\* history or section, any candidate; in the end an available one.
Capable(q) == q.candidates
Experienced(q) == q.candidates
LoadBalanced(q) == {a \in q.candidates : q.was[a] = "idle"}

\* runStrategies(): a strategy that is sure enough, or else the last resort.
Outcomes(q) ==
    Capable(q) \cup Experienced(q) \cup (IF LoadBalanced(q) = {} THEN {Nobody} ELSE LoadBalanced(q))

KeyOf(q) == activeContext

\* The decision is cached under the context that is active by now.
Decided(r) ==
    /\ req[r].step \in Open
    /\ \E a \in Outcomes(req[r]) :
         LET again == req[r].step = "first" /\ a = Nobody /\ fallback /\ req[r].candidates # Agents IN
         /\ req' = [req EXCEPT ![r] = IF again THEN [@ EXCEPT !.step = "second", !.candidates = Agents]
                                      ELSE Done("chosen", Nobody)]
         /\ cache' = IF a = Nobody THEN cache
                     ELSE Set([ctx |-> KeyOf(req[r]), task |-> req[r].task, agent |-> a,
                               was |-> req[r].was[a], disturbed |-> req[r].disturbed])
    /\ UNCHANGED <<fallback, contexts, activeContext, agentStatus>>

-----------------------------------------------------------------------------
(* Its surroundings *)

SetActiveContext(c) ==
    /\ c # activeContext
    /\ activeContext' = c /\ cache' = <<>> /\ req' = Disturbed
    /\ UNCHANGED <<fallback, contexts, agentStatus>>

SetContext(c, S) ==
    /\ contexts' = [contexts EXCEPT ![c] = S]
    /\ cache' = Invalidated(c)
    /\ req' = IF c = activeContext THEN Disturbed ELSE req
    /\ UNCHANGED <<fallback, activeContext, agentStatus>>

\* clearCache(), and configureCache() that keeps it on: a new cache.
ClearCache ==
    /\ cache' = <<>>
    /\ UNCHANGED <<fallback, contexts, activeContext, agentStatus, req>>

\* updateStatus() of the registry: nothing sets its callback, which would drop the
\* agent's entries (onAgentStatusChange), so the cache is not told.
ChangeStatus(a) ==
    /\ agentStatus' = [agentStatus EXCEPT ![a] = IF @ = "idle" THEN "offline" ELSE "idle"]
    /\ UNCHANGED <<fallback, contexts, activeContext, cache, req>>

RouterNext ==
    \/ \E r \in Resolves : \/ \E a \in Agents : DirectMatch(r, a)
                           \/ \E t \in Tasks : ResolveCached(r, t) \/ ResolveAnew(r, t)
                           \/ Decided(r)
    \/ \E c \in Contexts : SetActiveContext(c) \/ \E S \in SUBSET Agents \ {{}} : SetContext(c, S)
    \/ ClearCache
    \/ \E a \in Agents : ChangeStatus(a)

RouterSpec == RouterInit /\ [][RouterNext]_routerVars
-----------------------------------------------------------------------------
(* Properties *)

\* The cache has one entry for a key and keeps its size, whatever requests race;
\* every entry is of the active context; its agent is in that context, unless a
\* context changed between the request's start and its decision.
CacheFresh ==
    /\ Len(cache) <= MaxSize
    /\ \A i, j \in 1..Len(cache) : Fits(cache[i], cache[j].ctx, cache[j].task) => i = j
    /\ \A i \in 1..Len(cache) :
         /\ cache[i].ctx = activeContext
         /\ cache[i].agent \in contexts[activeContext] \/ fallback \/ cache[i].disturbed

\* A decision from the cache is for an agent that is available: "Verify agent is
\* still available (not offline/error)" (router.ts:274).
CachedAgentAvailable ==
    [][\A r \in Resolves : req[r].step = "none" /\ req'[r].step = "cached"
                              => agentStatus[req'[r].agent] = "idle"]_routerVars
=============================================================================
