----------------------------- MODULE ServicesMC -----------------------------
(***************************************************************************)
(* The components that share no state with the rest, in one run: those of  *)
(* ServicesCore, those of ServicesRecords and these.  A behaviour takes    *)
(* the steps of one component (part; among the records, the keeper), the   *)
(* others stay as they start: interleaving them would add states and no    *)
(* behaviour.                                                              *)
(***************************************************************************)
EXTENDS ServicesCore, ServicesRecords

CONSTANTS q1, q2, none

AllParts == {"escalation", "providers", "batches", "fleet", "reactions", "powers", "records",
             "builder", "router", "dsl", "rag", "ragmeta", "conflicts"}
AllKeepers == {"sync", "shared", "logs", "mcpserver", "flows", "conversations", "progress", "graph", "tiers", "nobody"}

ASSUME PartsAssumption == Parts \subseteq AllParts /\ "nobody" \in Keepers /\ Keepers \subseteq AllKeepers

VARIABLES
    deps, last, groups,
    mode, braces, lastToken, stack, nodes, status, opened, bracesTaken, output, written, outFiles,
    outputs, atOutput, atSentence, sentenceSeen, strategy, winner

-----------------------------------------------------------------------------
(* The instances and their bounds *)

Above == [worker |-> "manager", manager |-> "master", master |-> NoAgent]
Ranks == [a \in Agents |-> a]
NobodyLate == {}
ThreeProviders == <<"claude", "openai", "ollama">>
AllOrOne == [all |-> {q1, q2}, one |-> {q1}]
TwoBits == [q \in {q1, q2} |-> IF q = q1 THEN {1, 2} ELSE {2, 3}]
OneOrTwo == {<<[id |-> q1, text |-> "x"]>>, <<[id |-> q1, text |-> "y"]>>,
             <<[id |-> q2, text |-> "y"], [id |-> q1, text |-> "x"]>>}
TwoMoves == [f \in Files |-> IF f = "b.md" THEN "b" ELSE "a"]

Builder == INSTANCE WorkflowBuilder WITH MaxSteps <- 4
Dsl == INSTANCE Dsl WITH MaxNodes <- 2, MaxTaken <- 1, NoNode <- 0
Conflicts == INSTANCE Conflicts WITH Sentences <- {{}, {1, 2}, {1, 2, 3}, {2, 3}}, Agents <- {q1, q2}, OutputCount <- 3,
                     Texts <- {<<{1, 2}>>, <<{1, 2, 3}>>, <<{2, 3}>>, <<{}>>, <<{1, 2}, {2, 3}>>,
                               <<{1, 2, 3}, {}>>, <<{}, {2, 3}>>}

-----------------------------------------------------------------------------
builderVars == <<deps, last, groups>>
dslVars == <<mode, braces, lastToken, stack, nodes, status, opened, bracesTaken, output, written, outFiles>>
conflictVars == <<outputs, atOutput, atSentence, sentenceSeen, strategy, winner>>
restVars == <<builderVars, dslVars, conflictVars>>

\* The part that moves starts in any of its initial states, the others in one.
Init ==
    /\ CoreInit
    /\ RecordsInit /\ (part = "records" <=> keeper # "nobody")
    /\ Builder!Init
    /\ Dsl!DslInit
    /\ Conflicts!ConflictsInit /\ (part # "conflicts" => \A o \in DOMAIN outputs : outputs[o] = [agent |-> q1, sentences |-> <<{}>>])

Others ==
    /\ IF part = "builder" THEN TRUE ELSE UNCHANGED builderVars
    /\ IF part = "dsl" THEN TRUE ELSE UNCHANGED dslVars
    /\ IF part = "conflicts" THEN TRUE ELSE UNCHANGED conflictVars
    /\ UNCHANGED <<coreVars, recordsVars>>

Next ==
    \/ CoreNext /\ UNCHANGED <<recordsVars, restVars>>
    \/ RecordsNext /\ UNCHANGED <<coreVars, restVars>>
    \/ part = "builder" /\ Builder!Next /\ Others
    \/ part = "dsl" /\ Dsl!DslNext /\ Others
    \/ part = "conflicts" /\ Conflicts!ConflictsNext /\ Others

vars == <<coreVars, recordsVars, restVars>>

Spec == Init /\ [][Next]_vars

-----------------------------------------------------------------------------
(* Properties *)

\* Every variable has its type.
ServicesTypeOK ==
    /\ part \in Parts /\ keeper \in Keepers
    /\ Of("escalation", EscTypeOK)
    /\ Of("builder", Builder!TypeOK)
    /\ Of("router", Router!RouterTypeOK)
    /\ By("sync", Sync!SyncTypeOK)
    /\ Of("providers", Providers!ProvidersTypeOK)
    /\ Of("batches", Batches!BatchTypeOK)
    /\ By("shared", Shared!SharedTypeOK)
    /\ By("conversations", Conversations!ConversationsTypeOK)
    /\ By("progress", Progress!ProgressTypeOK)
    /\ By("graph", Progress!GraphTypeOK)
    /\ Of("fleet", Fleet!FleetTypeOK)
    /\ By("tiers", Tiers!TiersTypeOK)
    /\ Of("reactions", Reactions!ReactTypeOK)
    /\ By("mcpserver", Mcp!McpServersTypeOK)
    /\ Of("dsl", Dsl!DslTypeOK)
    /\ By("flows", Flows!TaskFlowsTypeOK)
    /\ Of("rag", Rag!RagTypeOK)
    /\ Of("ragmeta", Rag!MetaTypeOK)
    /\ By("logs", Logs!LogsTypeOK)
    /\ Of("conflicts", Conflicts!ConflictsTypeOK)
    /\ Of("powers", Installer!PowersTypeOK)

\* Every workflow that is built runs its steps in the order of the calls, every source the
\* DSL compiler accepts is well nested and its files are those of its nodes, and what is
\* merged of several outputs leaves none of them out.
BuildsInOrder ==
    /\ Of("builder", Builder!WaitsForEarlierCalls /\ Builder!SiblingsIndependent /\ Builder!BuildsWellFormed)
    /\ Of("dsl", Dsl!WellNested /\ Dsl!FilesOfNodes)
    /\ Of("conflicts", Conflicts!NothingLeftOut /\ Conflicts!AgreementsShared /\ Conflicts!MajorityWins)

\* The violation of the promise of router.ts:274, which nothing connects.
CachedAgentAvailable == Router!CachedAgentAvailable
=============================================================================
