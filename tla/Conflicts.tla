------------------------------ MODULE Conflicts ------------------------------
(***************************************************************************)
(* ConflictResolver (core/conflict-resolution.ts): the sentences of        *)
(* several agents' outputs are gathered one after the other under the      *)
(* first that is similar, and one output wins or all are merged.  A        *)
(* sentence is the set of its words of three letters and more; short ones  *)
(* are skipped by the code and left out, and so are the contradictions.    *)
(***************************************************************************)
EXTENDS Integers, Sequences, FiniteSets, SequencesExt, FiniteSetsExt

CONSTANTS
    Sentences,       \* sets of words: of at most 3 words in all
    Agents,
    OutputCount,
    Texts            \* what an output may say: sequences of sentences

VARIABLES
    outputs,         \* the agent and the sentences of each
    atOutput, atSentence,   \* what is gathered next
    sentenceSeen,    \* the sentences kept, each with its agents
    strategy,        \* none before it is chosen
    winner           \* the output that won; 0: they are merged

conflictVars == <<outputs, atOutput, atSentence, sentenceSeen, strategy, winner>>

Votes == {"majority-vote", "weighted", "merge"}

ConflictsTypeOK ==
    /\ Len(outputs) = OutputCount
    /\ \A o \in ToSet(outputs) : o.agent \in Agents /\ ToSet(o.sentences) \subseteq Sentences
    /\ atOutput \in 1..(OutputCount + 1) /\ (\E t \in Texts : atSentence \in DOMAIN t)
    /\ \A s \in ToSet(sentenceSeen) : s.sentence \in Sentences /\ s.agents \subseteq Agents
    /\ strategy \in Votes \cup {"none"} /\ winner \in 0..OutputCount

ConflictsInit ==
    /\ outputs \in [1..OutputCount -> [agent : Agents, sentences : Texts]]
    /\ atOutput = 1 /\ atSentence = 1 /\ sentenceSeen = <<>> /\ strategy = "none" /\ winner = 0

\* textSimilarity(), in 60ths; a text without such words resembles nothing, itself included.
Similarity(a, b) ==
    IF a = {} \/ b = {} THEN 0 ELSE (60 * 2 * Cardinality(a \cap b)) \div (Cardinality(a) + Cardinality(b))
Similar(a, b) == Similarity(a, b) > 42

Words(o) == UNION ToSet(outputs[o].sentences)

-----------------------------------------------------------------------------
(* analyze() *)

\* The sentence joins the first one that is similar, or is kept itself; one that was kept but
\* resembles nothing begins anew.
JoinsEach(s, agent, alike) ==                           \* seeded fault: a new sentence replaces the one it resembles
    IF alike = {} THEN Append(sentenceSeen, [sentence |-> s, agents |-> {agent}])
    ELSE [sentenceSeen EXCEPT ![Max(alike)] = [sentence |-> s, agents |-> {agent}]]
Joins(s, agent, alike) ==
    LET same == {k \in DOMAIN sentenceSeen : sentenceSeen[k].sentence = s}
    IN IF alike # {} THEN [sentenceSeen EXCEPT ![Min(alike)].agents = @ \cup {agent}]
       ELSE IF same # {} THEN [sentenceSeen EXCEPT ![Min(same)].agents = {agent}]
       ELSE Append(sentenceSeen, [sentence |-> s, agents |-> {agent}])

Gather ==
    /\ atOutput <= OutputCount
    /\ LET o == outputs[atOutput]
           s == o.sentences[atSentence]
           last == atSentence = Len(o.sentences)
       IN /\ sentenceSeen' = Joins(s, o.agent, {k \in DOMAIN sentenceSeen : Similar(s, sentenceSeen[k].sentence)})
          /\ atOutput' = IF last THEN atOutput + 1 ELSE atOutput
          /\ atSentence' = IF last THEN 1 ELSE atSentence + 1
    /\ UNCHANGED <<outputs, strategy, winner>>

Agreements == {s.sentence : s \in {x \in ToSet(sentenceSeen) : Cardinality(x.agents) >= 2}}

\* An output's unique sentences are those that were kept themselves, for one agent.
Unique(o) ==
    {s \in ToSet(outputs[o].sentences) :
        \E x \in ToSet(sentenceSeen) : x.sentence = s /\ Cardinality(x.agents) = 1}

-----------------------------------------------------------------------------
(* resolve() *)

\* resolveMajorityVote(): the first output that resembles the others most.
Resemblance(i) == FoldFunctionOnSet(+, 0, [j \in 1..OutputCount |-> Similarity(Words(i), Words(j))], 1..OutputCount \ {i})
OtherWay == {i \in 1..OutputCount : \A j \in 1..OutputCount : Resemblance(i) <= Resemblance(j)}   \* seeded fault
Best == {i \in 1..OutputCount : \A j \in 1..OutputCount : Resemblance(i) >= Resemblance(j)}

\* By tier or confidence the first of those with the greatest weight wins, whoever they are.
Resolve(vote) ==
    /\ atOutput > OutputCount /\ strategy = "none" /\ strategy' = vote
    /\ \/ vote = "majority-vote" /\ winner' = Min(Best)
       \/ vote = "weighted" /\ winner' \in 1..OutputCount
       \/ vote = "merge" /\ winner' = 0
    /\ UNCHANGED <<outputs, atOutput, atSentence, sentenceSeen>>

ConflictsNext == Gather \/ \E vote \in Votes : Resolve(vote)

-----------------------------------------------------------------------------
(* Properties *)

Alike(s, t) == s = t \/ Similar(s, t)

\* What is merged leaves no agent's sentence out: each, or one like it, is agreed upon or is
\* listed for that agent, though what is similar to the first need not be to the second
\* (analyze, resolveMerge).
NothingLeftOut ==
    strategy = "merge" =>
        \A o \in 1..OutputCount : \A s \in ToSet(outputs[o].sentences) :
            \/ \E t \in Agreements : Alike(s, t)
            \/ \E p \in 1..OutputCount : outputs[p].agent = outputs[o].agent /\ \E t \in Unique(p) : Alike(s, t)

\* What is agreed upon was said by two agents, not twice by one.
AgreementsShared ==
    strategy # "none" =>
        \A t \in Agreements :
            Cardinality({outputs[o].agent : o \in {p \in 1..OutputCount :
                            \E s \in ToSet(outputs[p].sentences) : Alike(s, t)}}) >= 2

\* An answer that more than half of the outputs give in the same words wins the vote.
MajorityWins ==
    strategy = "majority-vote" =>
        \A i \in 1..OutputCount :
            LET same == {j \in 1..OutputCount : Words(j) = Words(i)}
            IN 2 * Cardinality(same) > OutputCount /\ Words(i) # {} => Words(winner) = Words(i)
=============================================================================
