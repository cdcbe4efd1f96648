----------------------------- MODULE NetProofs ------------------------------
(***************************************************************************)
(* Proofs about NetScheduler.tla for any nets, any batch size and any      *)
(* garbage threshold: nothing is reduced or executed twice, the cache of   *)
(* active pairs misses none, and the net is done when the loop says so.    *)
(***************************************************************************)
EXTENDS NetScheduler, FiniteSetTheorems, TLAPS

-----------------------------------------------------------------------------
(* The invariant *)

\* Two different nodes of the net.
LivePairs == {p \in SUBSET live : \E n, m \in live : n # m /\ p = {n, m}}

NetShape == NetTypeOK /\ IsFiniteSet(live) /\ cache \subseteq LivePairs

\* The reductions in flight keep their nodes in the net and away from the other
\* claims; the nodes they add are not there yet.
FlightOK(f) ==
    /\ f \in Flight /\ f.pair \in LivePairs /\ f.remove \subseteq f.pair /\ f.running \subseteq f.pair
    /\ f.add \subseteq Nodes \ live /\ IsFiniteSet(f.add)
    /\ \A n \in f.add : f.addKind[n] # "task"
    /\ \A n \in f.pair : status[n] # "idle"

FlightsOK == IsFiniteSet(flights) /\ \A f \in flights : FlightOK(f)

\* Where the loop is, and what it holds then.
LoopOK ==
    /\ loop \in {"check", "claim", "wait", "done", "gaveUp"}
    /\ executor \in BOOLEAN /\ attempts \in 0..MaxConcurrency /\ sinceGC \in 0..(GcThreshold - 1)
    /\ iterations \in 0..MaxIterations
    /\ loop \in {"claim", "wait"} => iterations < MaxIterations
    /\ batch \subseteq LivePairs /\ IsFiniteSet(batch)
    /\ loop # "claim" => batch = {}
    /\ loop \notin {"claim", "wait"} => flights = {}
    /\ Cardinality(flights) + Cardinality(batch) <= MaxConcurrency

\* What the executor was called for is a task no longer, or not idle.
RunsOnce ==
    /\ executed \in [Nodes -> {0, 1}]
    /\ \A n \in Nodes : executed[n] = 1 => status[n] # "idle" \/ kind[n] # "task"

IInv == /\ NetShape /\ FlightsOK /\ LoopOK /\ RunsOnce
        /\ ReductionsDisjoint /\ CacheComplete /\ DoneMeansNormalForm

-----------------------------------------------------------------------------
(* Pairs *)

LEMMA ReadyFacts ==
    /\ Ready \subseteq LivePairs
    /\ \A p \in Ready : PrincipalWire(p) \in wires /\ \A n \in p : status[n] = "idle"
<1>1. ASSUME NEW p \in Ready PROVE p \in LivePairs
  <2>1. PICK n \in live : \E m \in live : p = {n, m}
    BY DEF Ready
  <2>2. PICK m \in live : p = {n, m}
    BY <2>1
  <2>3. n # m
    <3>1. Cardinality(p) = 2
      BY DEF Ready, IsReady
    <3>2. Cardinality({n}) = 1
      BY FS_Singleton
    <3> QED BY <2>2, <3>1, <3>2
  <2> QED BY <2>2, <2>3 DEF LivePairs
<1> QED BY <1>1 DEF Ready, IsReady

\* A live pair is one of the model's pairs.
LEMMA LivePairFacts ==
    ASSUME live \subseteq Nodes, NEW p \in LivePairs
    PROVE  p \in Pairs /\ p \subseteq live /\ p # {} /\ \E n, m \in live : n # m /\ p = {n, m}
<1>1. PICK n \in live : \E m \in live : n # m /\ p = {n, m}
  BY DEF LivePairs
<1>2. PICK m \in live : n # m /\ p = {n, m}
  BY <1>1
<1> QED BY <1>2 DEF Pairs

\* Only finitely many pairs of a finite net.
LEMMA FinitePairs == ASSUME IsFiniteSet(live) PROVE IsFiniteSet(LivePairs)
  BY FS_SUBSET, FS_Subset DEF LivePairs

\* Nothing becomes ready while no node becomes idle and the net stays.
LEMMA FewerReady ==
    ASSUME live' = live, wires' = wires,
           \A n \in live : status'[n] = "idle" => status[n] = "idle"
    PROVE  Ready' \subseteq Ready
<1>1. ASSUME NEW p \in Ready' PROVE p \in Ready
  <2>1. PICK n \in live : \E m \in live : p = {n, m}
    BY <1>1 DEF Ready
  <2>2. PICK m \in live : p = {n, m}
    BY <2>1
  <2>3. p \subseteq live /\ Cardinality(p) = 2 /\ PrincipalWire(p) \in wires
    BY <1>1 DEF Ready, IsReady, PrincipalWire
  <2>4. \A x \in p : status[x] = "idle"
    BY <1>1, <2>3 DEF Ready, IsReady
  <2> QED BY <2>2, <2>3, <2>4 DEF Ready, IsReady
<1> QED BY <1>1

-----------------------------------------------------------------------------
(* The rules *)

\* What every rule promises of the reduction it returns for a claimed pair.
Sound(f, pair) ==
    /\ f \in Flight /\ f.pair = pair /\ f.remove \subseteq pair /\ f.add \subseteq Free /\ IsFiniteSet(f.add)
    /\ \A n \in f.add : f.addKind[n] # "task"
    /\ f.running \subseteq {n \in pair : kind[n] = "task"}

LEMMA FreeFacts ==
    /\ Free \subseteq Nodes \ live
    /\ \A f \in flights : Free \cap f.add = {}
  BY DEF Free

\* New ids are free ones.
LEMMA NewIdsFacts == ASSUME NEW k \in Nat, NEW ids \in NewIds(k) PROVE ids \in [1..k -> Free]
<1>1. \E new \in [1..k -> Free] : Distinct(new)
  BY DEF NewIds
<1>2. (CHOOSE new \in [1..k -> Free] : Distinct(new)) \in [1..k -> Free]
  BY <1>1
<1> QED BY <1>1, <1>2 DEF NewIds

LEMMA FourFinite == ASSUME NEW a, NEW b, NEW c, NEW d PROVE IsFiniteSet({a, b, c, d})
<1>1. IsFiniteSet({a})
  BY FS_Singleton
<1>2. IsFiniteSet({a} \cup {b})
  BY <1>1, FS_AddElement
<1>3. IsFiniteSet(({a} \cup {b}) \cup {c})
  BY <1>2, FS_AddElement
<1>4. IsFiniteSet((({a} \cup {b}) \cup {c}) \cup {d})
  BY <1>3, FS_AddElement
<1>5. {a, b, c, d} = (({a} \cup {b}) \cup {c}) \cup {d}
  OBVIOUS
<1> QED BY <1>4, <1>5

LEMMA WirePorts ==
    ASSUME NEW n \in Nodes, NEW m \in Nodes, NEW i \in {0, 1, 2}, NEW j \in {0, 1, 2}
    PROVE  Wire(n, i, m, j) \in SUBSET Ports
  BY DEF Wire, Ports

LEMMA NoChangeFacts ==
    ASSUME NetTypeOK, NEW pair \in LivePairs
    PROVE  /\ NoChange(pair) \in Flight /\ NoChange(pair).pair = pair
           /\ NoChange(pair).remove = {} /\ NoChange(pair).add = {} /\ NoChange(pair).running = {}
           /\ NoChange(pair).addKind = kind
<1>1. pair \in Pairs /\ kind \in [Nodes -> Kinds]
  BY LivePairFacts DEF NetTypeOK
<1> QED BY <1>1 DEF NoChange, Flight

LEMMA ExecutionSound ==
    ASSUME NetTypeOK, executor \in BOOLEAN, NEW pair \in LivePairs
    PROVE  Sound(Execution(pair), pair)
<1> DEFINE tasks == {n \in pair : kind[n] = "task"}
           runs == IF executor THEN tasks ELSE {}
           f == NoChange(pair)
           g == [f EXCEPT !.running = runs, !.dropped = (tasks = pair), !.fails = ~executor]
<1>1. runs \subseteq tasks /\ runs \in SUBSET Nodes
  BY LivePairFacts DEF NetTypeOK
<1>2. f \in Flight /\ f.pair = pair /\ f.remove = {} /\ f.add = {}
  BY NoChangeFacts
<1>3. Execution(pair) = g
  BY DEF Execution
<1> HIDE DEF f, tasks, runs
<1>4. g \in Flight
  BY <1>1, <1>2 DEF Flight
<1>5. g.pair = pair /\ g.remove = {} /\ g.add = {} /\ g.running = runs
  BY <1>2 DEF Flight
<1> HIDE DEF g
<1> QED BY <1>1, <1>3, <1>4, <1>5, FS_EmptySet DEF Sound, tasks

\* The common part of the rules that replace the pair.
LEMMA ReplacedSound ==
    ASSUME NetTypeOK, NEW pair \in LivePairs, NEW add \in SUBSET Free, IsFiniteSet(add),
           NEW kinds \in [Nodes -> Kinds], \A n \in add : kinds[n] # "task",
           NEW new \in SUBSET SUBSET Ports
    PROVE  Sound([NoChange(pair) EXCEPT !.remove = pair, !.dropped = TRUE, !.add = add,
                                        !.addKind = kinds, !.addWires = new], pair)
<1> DEFINE f == NoChange(pair)
           g == [f EXCEPT !.remove = pair, !.dropped = TRUE, !.add = add,
                          !.addKind = kinds, !.addWires = new]
<1>1. f \in Flight /\ f.pair = pair /\ f.running = {}
  BY NoChangeFacts
<1>2. pair \in SUBSET Nodes /\ add \in SUBSET Nodes
  BY LivePairFacts, FreeFacts DEF NetTypeOK
<1> HIDE DEF f
<1>3. g \in Flight
  BY <1>1, <1>2 DEF Flight
<1>4. g.pair = pair /\ g.remove = pair /\ g.add = add /\ g.addKind = kinds /\ g.running = {}
  BY <1>1 DEF Flight
<1> HIDE DEF g
<1> QED BY <1>3, <1>4 DEF Sound, g, f

\* A rule that adds no nodes.
LEMMA RemovedSound ==
    ASSUME NetTypeOK, NEW pair \in LivePairs, NEW new \in SUBSET SUBSET Ports
    PROVE  Sound([NoChange(pair) EXCEPT !.remove = pair, !.dropped = TRUE, !.addWires = new], pair)
<1> DEFINE f == NoChange(pair)
           g == [f EXCEPT !.remove = pair, !.dropped = TRUE, !.addWires = new]
<1>1. f \in Flight /\ f.pair = pair /\ f.running = {} /\ f.add = {}
  BY NoChangeFacts
<1>2. pair \in SUBSET Nodes
  BY LivePairFacts DEF NetTypeOK
<1> HIDE DEF f
<1>3. g \in Flight
  BY <1>1, <1>2 DEF Flight
<1>4. g.pair = pair /\ g.remove = pair /\ g.add = {} /\ g.running = {}
  BY <1>1 DEF Flight
<1> HIDE DEF g
<1> QED BY <1>3, <1>4, FS_EmptySet DEF Sound, g, f

LEMMA NoPropagationSound ==
    ASSUME NetTypeOK, NEW pair \in LivePairs PROVE Sound(NoPropagation(pair), pair)
<1> DEFINE f == NoChange(pair)
           g == [f EXCEPT !.remove = pair, !.dropped = TRUE]
<1>1. f \in Flight /\ f.pair = pair /\ f.running = {} /\ f.add = {} /\ pair \in SUBSET Nodes
  BY NoChangeFacts, LivePairFacts DEF NetTypeOK
<1>2. NoPropagation(pair) = g
  BY DEF NoPropagation
<1> HIDE DEF f
<1>3. g \in Flight /\ g.pair = pair /\ g.remove = pair /\ g.add = {} /\ g.running = {}
  BY <1>1 DEF Flight
<1> HIDE DEF g
<1> QED BY <1>2, <1>3, FS_EmptySet DEF Sound

LEMMA AnnihilationSound ==
    ASSUME NetTypeOK, NEW pair \in LivePairs PROVE Sound(Annihilation(pair), pair)
<1> DEFINE a == CHOOSE n \in pair : TRUE
           b == CHOOSE n \in pair : n # a
           new == IF kind[a] = "eraser" THEN {} ELSE {Wire(a, 1, b, 1), Wire(a, 2, b, 2)}
<1>1. live \subseteq Nodes
  BY DEF NetTypeOK
<1>2. \E n, m \in live : n # m /\ pair = {n, m}
  BY <1>1, LivePairFacts
<1>3. pair \subseteq Nodes /\ a \in pair
  BY <1>1, <1>2
<1> HIDE DEF a
<1>4. \E n \in pair : n # a
  BY <1>2
<1>5. b \in pair
  BY <1>4
<1>6. a \in Nodes /\ b \in Nodes
  BY <1>3, <1>5
<1> HIDE DEF b
<1>7. new \in SUBSET SUBSET Ports
  BY <1>6, WirePorts
<1>8. Annihilation(pair) = [NoChange(pair) EXCEPT !.remove = pair, !.dropped = TRUE, !.addWires = new]
  BY DEF Annihilation, a, b
<1> HIDE DEF new
<1>9. Sound([NoChange(pair) EXCEPT !.remove = pair, !.dropped = TRUE, !.addWires = new], pair)
  BY <1>7, RemovedSound
<1> QED BY <1>8, <1>9, Zenon

LEMMA CommutationSound ==
    ASSUME NetTypeOK, NEW pair \in LivePairs, NEW new \in NewIds(4)
    PROVE  Sound(Commutation(pair, new[1], new[2], new[3], new[4]), pair)
<1>1. new \in [1..4 -> Free]
  BY NewIdsFacts
<1>2. PICK c1 \in Free, c2 \in Free, d1 \in Free, d2 \in Free :
        c1 = new[1] /\ c2 = new[2] /\ d1 = new[3] /\ d2 = new[4]
  BY <1>1
<1>3. c1 \in Nodes /\ c2 \in Nodes /\ d1 \in Nodes /\ d2 \in Nodes
  BY <1>2, FreeFacts
<1> DEFINE add == {c1, c2, d1, d2}
           kinds == [kind EXCEPT ![c1] = "constructor", ![c2] = "constructor",
                                 ![d1] = "duplicator", ![d2] = "duplicator"]
           links == {Wire(c1, 1, d1, 0), Wire(c1, 2, d2, 0), Wire(c2, 1, d1, 1), Wire(c2, 2, d2, 1)}
<1>4. add \in SUBSET Free
  OBVIOUS
<1>5. IsFiniteSet(add)
  BY FourFinite
<1>6. kinds \in [Nodes -> Kinds]
  BY DEF NetTypeOK, Kinds
<1>7. \A n \in add : kinds[n] # "task"
  BY <1>3 DEF NetTypeOK
<1>8. links \in SUBSET SUBSET Ports
  BY <1>3, WirePorts
<1>9. Commutation(pair, new[1], new[2], new[3], new[4])
      = [NoChange(pair) EXCEPT !.remove = pair, !.dropped = TRUE, !.add = add,
                               !.addKind = kinds, !.addWires = links]
  BY <1>2 DEF Commutation
<1> HIDE DEF add, kinds, links
<1>10. Sound([NoChange(pair) EXCEPT !.remove = pair, !.dropped = TRUE, !.add = add,
                                    !.addKind = kinds, !.addWires = links], pair)
  BY <1>4, <1>5, <1>6, <1>7, <1>8, ReplacedSound
<1> QED BY <1>9, <1>10, Zenon

LEMMA ErasureSound ==
    ASSUME NetTypeOK, NEW pair \in LivePairs, NEW x, NEW new \in NewIds(2),
           NEW t \in PropagationTargets(x, pair)
    PROVE  Sound(Erasure(pair, new, t), pair)
<1>1. new \in [1..2 -> Free]
  BY NewIdsFacts
<1>2. DOMAIN t \subseteq {1, 2} /\ \A i \in DOMAIN t : t[i] \in live
  BY DEF PropagationTargets
<1>3. \A i \in DOMAIN t : new[i] \in Free /\ new[i] \in Nodes /\ t[i] \in Nodes
  BY <1>1, <1>2, FreeFacts DEF NetTypeOK
<1> DEFINE add == {new[i] : i \in DOMAIN t}
           kinds == [n \in Nodes |-> IF \E i \in DOMAIN t : n = new[i] THEN "eraser" ELSE kind[n]]
           links == {Wire(new[i], 0, t[i], 0) : i \in DOMAIN t}
<1>4. add \in SUBSET Free
  BY <1>3
<1>5. IsFiniteSet(add)
  <2>1. IsFiniteSet({new[1], new[2], new[1], new[2]})
    BY FourFinite
  <2>2. add \subseteq {new[1], new[2], new[1], new[2]}
    BY <1>2
  <2> QED BY <2>1, <2>2, FS_Subset
<1>6. kinds \in [Nodes -> Kinds]
  BY DEF NetTypeOK, Kinds
<1>7. \A n \in add : kinds[n] # "task"
  BY <1>3
<1>8. links \in SUBSET SUBSET Ports
  BY <1>3, WirePorts
<1>9. Erasure(pair, new, t)
      = [NoChange(pair) EXCEPT !.remove = pair, !.dropped = TRUE, !.add = add,
                               !.addKind = kinds, !.addWires = links]
  BY DEF Erasure
<1> HIDE DEF add, kinds, links
<1>10. Sound([NoChange(pair) EXCEPT !.remove = pair, !.dropped = TRUE, !.add = add,
                                    !.addKind = kinds, !.addWires = links], pair)
  BY <1>4, <1>5, <1>6, <1>7, <1>8, ReplacedSound
<1> QED BY <1>9, <1>10, Zenon

\* Whichever rule the kinds of a pair select.
LEMMA RulesSound ==
    ASSUME NetTypeOK, executor \in BOOLEAN, NEW pair \in LivePairs, NEW f \in Reductions(pair)
    PROVE  Sound(f, pair)
<1>1. CASE "task" \in KindsOf(pair)
  BY <1>1, ExecutionSound DEF Reductions
<1>2. CASE "task" \notin KindsOf(pair) /\ Cardinality(KindsOf(pair)) = 1
  BY <1>2, AnnihilationSound DEF Reductions
<1>3. CASE "task" \notin KindsOf(pair) /\ Cardinality(KindsOf(pair)) # 1
           /\ KindsOf(pair) = {"constructor", "duplicator"}
  <2>1. PICK new \in NewIds(4) : f = Commutation(pair, new[1], new[2], new[3], new[4])
    BY <1>3 DEF Reductions
  <2> QED BY <2>1, CommutationSound
<1>4. CASE "task" \notin KindsOf(pair) /\ Cardinality(KindsOf(pair)) # 1
           /\ KindsOf(pair) # {"constructor", "duplicator"}
  <2> DEFINE x == CHOOSE n \in pair : kind[n] # "eraser"
  <2>1. f \in {NoPropagation(pair)} \cup
               {Erasure(pair, new, t) : new \in NewIds(2), t \in PropagationTargets(x, pair)}
    BY <1>4 DEF Reductions
  <2> HIDE DEF x
  <2>2. CASE f = NoPropagation(pair)
    BY <2>2, NoPropagationSound
  <2>3. CASE f # NoPropagation(pair)
    <3>1. PICK new \in NewIds(2), t \in PropagationTargets(x, pair) : f = Erasure(pair, new, t)
      BY <2>1, <2>3
    <3> QED BY <3>1, ErasureSound
  <2> QED BY <2>2, <2>3
<1> QED BY <1>1, <1>2, <1>3, <1>4

-----------------------------------------------------------------------------
(* Each action *)

LEMMA SizeFacts ==
    ASSUME IInv
    PROVE  /\ IsFiniteSet(flights) /\ Cardinality(flights) \in Nat
           /\ IsFiniteSet(batch) /\ Cardinality(batch) \in Nat /\ live \subseteq Nodes
  BY FS_CardinalityType DEF IInv, FlightsOK, LoopOK, NetShape, NetTypeOK

\* The pairs found are in the net, finitely many, and all that are ready.
LEMMA FoundFacts ==
    ASSUME IInv PROVE Found \subseteq LivePairs /\ IsFiniteSet(Found) /\ Ready \subseteq Found
<1>1. Found \subseteq LivePairs /\ Ready \subseteq Found
  BY ReadyFacts DEF Found, IInv, NetShape, CacheComplete
<1> QED BY <1>1, FinitePairs, FS_Subset DEF IInv, NetShape

LEMMA LookAndFindNoneInv == ASSUME IInv, LookAndFindNone PROVE IInv'
<1>1. /\ loop = "check" /\ iterations < MaxIterations /\ Found = {}
      /\ UNCHANGED <<netVars, batch, attempts, flights, sinceGC, executor, executed>>
      /\ (loop' = "done" /\ ~Reducing /\ iterations' = iterations)
           \/ (loop' = "check" /\ iterations' = iterations + 1)
  BY DEF LookAndFindNone, MayFinish
<1>2. UNCHANGED <<live, kind, status, wires, cache>>
  BY <1>1 DEF netVars
<1>3. Ready = {} /\ flights = {}
  BY <1>1, FoundFacts DEF IInv, LoopOK
<1>4. NetShape' /\ FlightsOK' /\ RunsOnce' /\ ReductionsDisjoint' /\ CacheComplete'
  BY <1>1, <1>2 DEF IInv, NetShape, NetTypeOK, LivePairs, FlightsOK, FlightOK, RunsOnce,
     ReductionsDisjoint, CacheComplete, Ready, IsReady, PrincipalWire
<1>5. LoopOK'
  BY <1>1, <1>2, SchedulerAssumption DEF IInv, LoopOK, LivePairs
<1>6. DoneMeansNormalForm'
  BY <1>1, <1>2, <1>3 DEF DoneMeansNormalForm, Ready, IsReady, PrincipalWire, Reducing
<1> QED BY <1>4, <1>5, <1>6 DEF IInv

LEMMA TakeBatchInv == ASSUME IInv, TakeBatch PROVE IInv'
<1>1. /\ loop = "check" /\ iterations < MaxIterations /\ cache' = Found /\ loop' = "claim"
      /\ UNCHANGED <<live, kind, status, wires, flights, iterations, sinceGC, executor, executed>>
  BY DEF TakeBatch
<1>2. PICK b \in SUBSET Found : /\ Cardinality(b) = MaxConcurrency \/ Cardinality(b) < MaxConcurrency
                               /\ batch' = b /\ attempts' = Cardinality(b)
  BY DEF TakeBatch
<1>3. IsFiniteSet(b) /\ Cardinality(b) \in Nat /\ b \subseteq LivePairs
  BY FoundFacts, FS_Subset, FS_CardinalityType
<1>4. flights = {} /\ Cardinality(flights) = 0
  BY <1>1, FS_EmptySet DEF IInv, LoopOK
<1>5. Found \subseteq Pairs
  BY FoundFacts, SizeFacts, LivePairFacts
<1>6. NetShape'
  BY <1>1, <1>5, FoundFacts DEF IInv, NetShape, NetTypeOK, LivePairs
<1>7. LoopOK'
  BY <1>1, <1>2, <1>3, <1>4, SchedulerAssumption DEF IInv, LoopOK, LivePairs
<1>8. FlightsOK' /\ RunsOnce' /\ ReductionsDisjoint'
  BY <1>1, <1>4 DEF IInv, FlightsOK, RunsOnce, ReductionsDisjoint
<1>9. CacheComplete'
  BY <1>1, FoundFacts DEF CacheComplete, Ready, IsReady, PrincipalWire
<1>10. DoneMeansNormalForm'
  BY <1>1 DEF DoneMeansNormalForm
<1> QED BY <1>6, <1>7, <1>8, <1>9, <1>10 DEF IInv

\* A claim makes two idle nodes busy or takes a pair off that is not ready.
LEMMA ClaimFacts ==
    ASSUME IInv, NEW pair \in LivePairs,
           ClaimPair(pair, cache), UNCHANGED <<live, kind, wires>>
    PROVE  /\ NetShape' /\ CacheComplete'
           /\ \A n \in Nodes : status'[n] = IF n \in pair /\ Claimable(pair) THEN "reducing" ELSE status[n]
<1>1. /\ cache' = cache \ {pair}
      /\ status' = [n \in Nodes |-> IF n \in pair /\ Claimable(pair) THEN "reducing" ELSE status[n]]
  BY DEF ClaimPair
<1>2. live \subseteq Nodes
  BY SizeFacts
<1>3. NetTypeOK'
  BY <1>1, <1>2, LivePairFacts DEF IInv, NetShape, NetTypeOK, Statuses
<1>4. NetShape'
  BY <1>1, <1>3 DEF IInv, NetShape, LivePairs
<1>5. \A n \in live : status'[n] = "idle" => status[n] = "idle"
  BY <1>1, <1>2
<1>6. Ready' \subseteq Ready
  BY <1>5, FewerReady
<1>7. pair \notin Ready'
  <2>1. \E n \in pair : status'[n] # "idle"
    BY <1>1, <1>2, LivePairFacts DEF Claimable
  <2> QED BY <2>1 DEF Ready, IsReady
<1>8. CacheComplete'
  BY <1>1, <1>6, <1>7 DEF IInv, CacheComplete
<1> QED BY <1>1, <1>4, <1>8

LEMMA ClaimNextInv == ASSUME IInv, ClaimNext PROVE IInv'
<1>1. /\ loop = "claim" /\ UNCHANGED <<live, kind, wires, loop, attempts, iterations, sinceGC, executor>>
  BY DEF ClaimNext
<1>2. PICK pair \in batch :
         /\ ClaimPair(pair, cache) /\ batch' = batch \ {pair}
         /\ IF Claimable(pair)
            THEN \E f \in Reductions(pair) :
                   /\ flights' = flights \cup {f}
                   /\ executed' = [n \in Nodes |-> IF n \in f.running THEN executed[n] + 1
                                                   ELSE executed[n]]
            ELSE UNCHANGED <<flights, executed>>
  BY DEF ClaimNext
<1>3. pair \in LivePairs /\ pair \subseteq live /\ live \subseteq Nodes
  BY SizeFacts, LivePairFacts DEF IInv, LoopOK
<1>4. /\ NetShape' /\ CacheComplete'
      /\ \A n \in Nodes : status'[n] = IF n \in pair /\ Claimable(pair) THEN "reducing" ELSE status[n]
  BY <1>1, <1>2, <1>3, ClaimFacts
<1>5. IsFiniteSet(batch') /\ Cardinality(batch') + 1 = Cardinality(batch) /\ Cardinality(batch') \in Nat
  <2>1. IsFiniteSet(batch') /\ Cardinality(batch') = Cardinality(batch) - 1
    BY <1>2, SizeFacts, FS_RemoveElement
  <2> QED BY <2>1, SizeFacts, FS_CardinalityType
<1>6. LivePairs' = LivePairs /\ DoneMeansNormalForm'
  BY <1>1 DEF LivePairs, DoneMeansNormalForm
<1>7. ASSUME NEW f \in flights PROVE FlightOK(f)'
  <2>1. FlightOK(f) /\ f.pair \subseteq Nodes
    BY SizeFacts, LivePairFacts DEF IInv, FlightsOK, FlightOK
  <2>2. \A n \in f.pair : status'[n] # "idle"
    BY <1>4, <2>1 DEF FlightOK
  <2> QED BY <1>1, <1>6, <2>1, <2>2 DEF FlightOK
<1>8. CASE ~Claimable(pair)
  <2>1. UNCHANGED <<flights, executed>>
    BY <1>2, <1>8
  <2>2. FlightsOK' /\ ReductionsDisjoint'
    BY <1>7, <2>1 DEF IInv, FlightsOK, ReductionsDisjoint
  <2>3. RunsOnce'
    BY <1>1, <1>4, <1>8, <2>1 DEF IInv, RunsOnce
  <2>4. LoopOK'
    BY <1>1, <1>2, <1>5, <1>6, <2>1, SizeFacts, SchedulerAssumption DEF IInv, LoopOK
  <2> QED BY <1>4, <1>6, <2>2, <2>3, <2>4 DEF IInv
<1>9. CASE Claimable(pair)
  <2>1. PICK f \in Reductions(pair) :
           /\ flights' = flights \cup {f}
           /\ executed' = [n \in Nodes |-> IF n \in f.running THEN executed[n] + 1 ELSE executed[n]]
    BY <1>2, <1>9
  <2>2. Sound(f, pair)
    BY <1>3, <2>1, RulesSound DEF IInv, NetShape, LoopOK
  <2>3. \A n \in pair : status[n] = "idle" /\ status'[n] = "reducing"
    BY <1>3, <1>4, <1>9 DEF Claimable
  <2>4. FlightOK(f)'
    BY <1>1, <1>3, <1>6, <2>2, <2>3, FreeFacts DEF FlightOK, Sound
  <2>5. \A g \in flights : g.pair \cap pair = {} /\ g.add \cap f.add = {}
    BY <2>2, <2>3, FreeFacts DEF IInv, FlightsOK, FlightOK, Sound
  <2>6. f \notin flights
    BY <1>3, <2>2, <2>5, LivePairFacts DEF Sound
  <2>7. IsFiniteSet(flights') /\ Cardinality(flights') = Cardinality(flights) + 1
    BY <2>1, <2>6, SizeFacts, FS_AddElement
  <2>8. FlightsOK'
    BY <1>7, <2>1, <2>4, <2>7 DEF FlightsOK
  <2>9. ReductionsDisjoint'
    BY <2>1, <2>2, <2>5 DEF IInv, ReductionsDisjoint, Sound
  <2>10. LoopOK'
    BY <1>1, <1>2, <1>5, <1>6, <2>7, SizeFacts, SchedulerAssumption DEF IInv, LoopOK
  <2>11. RunsOnce'
    <3>1. \A n \in f.running : n \in Nodes /\ executed[n] = 0 /\ status'[n] = "reducing"
      BY <1>3, <2>2, <2>3 DEF IInv, RunsOnce, Sound
    <3>2. \A n \in Nodes : executed'[n] = IF n \in f.running THEN 1 ELSE executed[n]
      BY <2>1, <3>1
    <3>3. executed' \in [Nodes -> {0, 1}]
      BY <2>1, <3>2 DEF IInv, RunsOnce
    <3>4. \A n \in Nodes : status'[n] = "idle" => status[n] = "idle"
      BY <1>4
    <3> QED BY <1>1, <3>1, <3>2, <3>3, <3>4 DEF IInv, RunsOnce
  <2> QED BY <1>4, <1>6, <2>8, <2>9, <2>10, <2>11 DEF IInv
<1> QED BY <1>8, <1>9

LEMMA AllClaimedInv == ASSUME IInv, AllClaimed PROVE IInv'
<1>1. /\ loop = "claim" /\ batch = {} /\ loop' = "wait"
      /\ UNCHANGED <<live, kind, status, wires, cache, batch, attempts, flights,
                     iterations, sinceGC, executor, executed>>
  BY DEF AllClaimed, netVars
<1>2. NetShape' /\ FlightsOK' /\ RunsOnce' /\ ReductionsDisjoint' /\ CacheComplete'
  BY <1>1 DEF IInv, NetShape, NetTypeOK, LivePairs, FlightsOK, FlightOK, RunsOnce,
     ReductionsDisjoint, CacheComplete, Ready, IsReady, PrincipalWire
<1>3. LoopOK' /\ DoneMeansNormalForm'
  BY <1>1 DEF IInv, LoopOK, LivePairs, DoneMeansNormalForm
<1> QED BY <1>2, <1>3 DEF IInv

\* Nodes that leave the idle ones for good.
LEMMA StatusFacts ==
    ASSUME IInv, status' \in [Nodes -> Statuses], UNCHANGED <<live, kind, wires, cache>>,
           \A n \in Nodes : status'[n] = "idle" => status[n] = "idle"
    PROVE  /\ NetShape' /\ CacheComplete' /\ LivePairs' = LivePairs
           /\ \A f \in flights : FlightOK(f)'
           /\ executed' = executed => RunsOnce'
<1>1. LivePairs' = LivePairs
  BY DEF LivePairs
<1>2. NetShape'
  BY <1>1 DEF IInv, NetShape, NetTypeOK
<1>3. Ready' \subseteq Ready
  BY SizeFacts, FewerReady
<1>4. CacheComplete'
  BY <1>3 DEF IInv, CacheComplete
<1>5. ASSUME NEW f \in flights PROVE FlightOK(f)'
  BY <1>1, SizeFacts, LivePairFacts DEF IInv, FlightsOK, FlightOK
<1>6. executed' = executed => RunsOnce'
  BY DEF IInv, RunsOnce
<1> QED BY <1>1, <1>2, <1>4, <1>5, <1>6

LEMMA TaskEndsInv == ASSUME IInv, NEW f \in flights, NEW t \in f.running, TaskEnds(f, t) PROVE IInv'
<1> DEFINE g == [f EXCEPT !.running = @ \ {t}]
<1>1. /\ loop = "wait" /\ status' = [status EXCEPT ![t] = "completed"]
      /\ flights' = (flights \ {f}) \cup {g}
      /\ UNCHANGED <<live, kind, wires, cache, loop, batch, attempts, iterations, sinceGC,
                     executor, executed>>
  BY DEF TaskEnds
<1>2. FlightOK(f)
  BY DEF IInv, FlightsOK
<1>3. f \in Flight /\ f.running \subseteq f.pair /\ f.pair \subseteq Nodes
  BY <1>2, SizeFacts, LivePairFacts DEF FlightOK
<1>4. /\ g \in Flight /\ g.pair = f.pair /\ g.remove = f.remove /\ g.add = f.add
      /\ g.addKind = f.addKind /\ g.running \subseteq f.running
  BY <1>3 DEF Flight
<1> HIDE DEF g
<1>5. /\ status' \in [Nodes -> Statuses]
      /\ \A n \in Nodes : status'[n] = "idle" => status[n] = "idle"
  BY <1>1, <1>3 DEF IInv, NetShape, NetTypeOK, Statuses
<1>6. /\ NetShape' /\ CacheComplete' /\ LivePairs' = LivePairs /\ RunsOnce'
      /\ \A h \in flights : FlightOK(h)'
  BY <1>1, <1>5, StatusFacts
<1>7. FlightOK(g)'
  BY <1>4, <1>6 DEF FlightOK
<1>8. IsFiniteSet(flights') /\ Cardinality(flights') \in Nat /\ Cardinality(flights') <= Cardinality(flights)
  <2>1. IsFiniteSet(flights \ {f}) /\ Cardinality(flights \ {f}) = Cardinality(flights) - 1
    BY SizeFacts, FS_RemoveElement
  <2>2. IsFiniteSet(flights') /\ (Cardinality(flights') = Cardinality(flights \ {f})
                                  \/ Cardinality(flights') = Cardinality(flights \ {f}) + 1)
    BY <1>1, <2>1, FS_AddElement
  <2>3. Cardinality(flights') \in Nat /\ Cardinality(flights \ {f}) \in Nat
    BY <2>1, <2>2, FS_CardinalityType
  <2> QED BY <2>1, <2>2, <2>3, SizeFacts
<1>9. FlightsOK'
  BY <1>1, <1>6, <1>7, <1>8 DEF FlightsOK
<1>10. ReductionsDisjoint'
  BY <1>1, <1>4 DEF IInv, ReductionsDisjoint
<1>11. LoopOK' /\ DoneMeansNormalForm'
  BY <1>1, <1>6, <1>8, SizeFacts, SchedulerAssumption DEF IInv, LoopOK, DoneMeansNormalForm
<1> QED BY <1>6, <1>9, <1>10, <1>11 DEF IInv

\* A reduction that is over leaves the others as they were.
LEMMA LandsFacts ==
    ASSUME IInv, NEW f \in flights, loop = "wait", flights' = flights \ {f},
           UNCHANGED <<loop, batch, attempts, iterations, sinceGC, executor, executed>>
    PROVE  /\ LoopOK' /\ ReductionsDisjoint' /\ DoneMeansNormalForm' /\ IsFiniteSet(flights')
<1>1. IsFiniteSet(flights') /\ Cardinality(flights') = Cardinality(flights) - 1
  BY SizeFacts, FS_RemoveElement
<1>2. Cardinality(flights') \in Nat
  BY <1>1, FS_CardinalityType
<1>3. LoopOK'
  BY <1>1, <1>2, SizeFacts, SchedulerAssumption DEF IInv, LoopOK
<1>4. ReductionsDisjoint' /\ DoneMeansNormalForm'
  BY DEF IInv, ReductionsDisjoint, DoneMeansNormalForm
<1> QED BY <1>1, <1>3, <1>4

\* The nodes a reduction removes are in no other pair, those it adds in no other
\* reduction, and new ones are no tasks.
LEMMA EndReductionInv == ASSUME IInv, NEW f \in flights, EndReduction(f) PROVE IInv'
<1>1. /\ loop = "wait" /\ f.running = {} /\ flights' = flights \ {f}
      /\ UNCHANGED <<loop, batch, attempts, iterations, sinceGC, executor, executed>>
  BY DEF EndReduction
<1>2. LoopOK' /\ ReductionsDisjoint' /\ DoneMeansNormalForm' /\ IsFiniteSet(flights')
  BY <1>1, LandsFacts
<1>3. FlightOK(f) /\ f \in Flight /\ f.pair \subseteq live /\ live \subseteq Nodes /\ f.add \in SUBSET (Nodes \ live)
  BY SizeFacts, LivePairFacts DEF IInv, FlightsOK, FlightOK
<1>4. CASE f.fails
  <2>1. status' = AfterFailure(f.pair) /\ UNCHANGED <<live, kind, wires, cache>>
    BY <1>4 DEF EndReduction
  <2>2. /\ status' \in [Nodes -> Statuses]
        /\ \A n \in Nodes : status'[n] = "idle" => status[n] = "idle"
    BY <2>1 DEF AfterFailure, IInv, NetShape, NetTypeOK, Statuses
  <2>3. /\ NetShape' /\ CacheComplete' /\ RunsOnce' /\ \A h \in flights : FlightOK(h)'
    BY <1>1, <2>1, <2>2, StatusFacts
  <2> QED BY <1>1, <1>2, <2>3 DEF IInv, FlightsOK
<1>5. CASE ~f.fails
  <2>1. /\ live' = (live \ f.remove) \cup f.add
        /\ kind' = [n \in Nodes |-> IF n \in f.add THEN f.addKind[n] ELSE kind[n]]
        /\ \A w \in wires' : w \in wires \/ w \in f.addWires
        /\ cache' = {}
        /\ status' = [n \in Nodes |-> IF n \in f.add THEN "idle" ELSE status[n]]
    BY <1>5 DEF EndReduction, ApplyReduction
  <2>2. NetTypeOK'
    BY <1>3, <2>1 DEF IInv, NetShape, NetTypeOK, Flight, Statuses
  <2>3. IsFiniteSet(live')
    <3>1. IsFiniteSet(live \ f.remove)
      BY FS_Subset DEF IInv, NetShape
    <3> QED BY <1>3, <2>1, <3>1, FS_Union DEF FlightOK
  <2>4. NetShape' /\ CacheComplete'
    BY <2>1, <2>2, <2>3 DEF NetShape, CacheComplete
  <2>5. ASSUME NEW g \in flights' PROVE FlightOK(g)'
    <3>1. g \in flights /\ g # f /\ FlightOK(g) /\ g.pair \cap f.pair = {} /\ g.add \cap f.add = {}
      BY <1>1 DEF IInv, FlightsOK, ReductionsDisjoint
    <3>2. g.pair \subseteq live' /\ g.pair \subseteq live /\ \E n, m \in live : n # m /\ g.pair = {n, m}
      BY <1>3, <2>1, <3>1, LivePairFacts DEF FlightOK
    <3>3. g.pair \in LivePairs'
      BY <3>2 DEF LivePairs
    <3>4. \A n \in g.pair : status'[n] # "idle"
      BY <1>3, <2>1, <3>1, <3>2 DEF FlightOK
    <3>5. g.add \subseteq Nodes \ live'
      BY <2>1, <3>1 DEF FlightOK
    <3> QED BY <3>1, <3>3, <3>4, <3>5 DEF FlightOK
  <2>6. FlightsOK'
    BY <1>2, <2>5 DEF FlightsOK
  <2>7. RunsOnce'
    <3>1. \A n \in f.add : kind'[n] # "task"
      BY <1>3, <2>1 DEF FlightOK
    <3> QED BY <1>1, <2>1, <3>1 DEF IInv, RunsOnce
  <2> QED BY <1>2, <2>4, <2>6, <2>7 DEF IInv
<1> QED BY <1>4, <1>5

LEMMA BatchDoneInv == ASSUME IInv, BatchDone PROVE IInv'
<1>1. /\ loop = "wait" /\ flights = {} /\ iterations' = iterations + 1 /\ loop' = "check"
      /\ UNCHANGED <<kind, status, batch, attempts, flights, executor, executed>>
  BY DEF BatchDone
<1>2. \/ /\ WithoutNodes(Garbage) /\ sinceGC' = 0
      \/ /\ UNCHANGED <<live, wires, cache>> /\ sinceGC' = sinceGC + attempts
         /\ sinceGC + attempts < GcThreshold
  BY SchedulerAssumption DEF BatchDone, IInv, LoopOK
<1>3. LoopOK'
  BY <1>1, <1>2, SchedulerAssumption DEF IInv, LoopOK
<1>4. FlightsOK' /\ RunsOnce' /\ ReductionsDisjoint' /\ DoneMeansNormalForm'
  BY <1>1 DEF IInv, FlightsOK, RunsOnce, ReductionsDisjoint, DoneMeansNormalForm
<1>5. CASE UNCHANGED <<live, wires, cache>>
  BY <1>1, <1>3, <1>4, <1>5 DEF IInv, NetShape, NetTypeOK, LivePairs, CacheComplete, Ready, IsReady, PrincipalWire
<1>6. CASE WithoutNodes(Garbage) /\ Garbage = {}
  <2>1. UNCHANGED <<live, cache>> /\ wires' \subseteq wires
    BY <1>6 DEF WithoutNodes
  <2>2. wires \subseteq wires'
    BY <1>6 DEF WithoutNodes
  <2> QED BY <1>1, <1>3, <1>4, <2>1, <2>2 DEF IInv, NetShape, NetTypeOK, LivePairs, CacheComplete, Ready, IsReady, PrincipalWire
<1>7. CASE WithoutNodes(Garbage) /\ Garbage # {}
  <2>1. live' \subseteq live /\ wires' \subseteq wires /\ cache' = {}
    BY <1>7 DEF WithoutNodes
  <2>2. IsFiniteSet(live')
    BY <2>1, FS_Subset DEF IInv, NetShape
  <2>3. NetShape' /\ CacheComplete'
    BY <1>1, <2>1, <2>2 DEF IInv, NetShape, NetTypeOK, CacheComplete
  <2> QED BY <1>3, <1>4, <2>3 DEF IInv
<1> QED BY <1>2, <1>5, <1>6, <1>7

LEMMA GiveUpInv == ASSUME IInv, GiveUp \/ UNCHANGED netSchedVars PROVE IInv'
<1>1. UNCHANGED <<live, kind, status, wires, cache, batch, attempts, flights, iterations, sinceGC,
                  executor, executed>>
  BY DEF GiveUp, netSchedVars, netVars, schedVars
<1>2. loop' = loop \/ (loop = "check" /\ loop' = "gaveUp")
  BY DEF GiveUp, netSchedVars, schedVars
<1>3. NetShape' /\ FlightsOK' /\ RunsOnce' /\ ReductionsDisjoint' /\ CacheComplete'
  BY <1>1 DEF IInv, NetShape, NetTypeOK, LivePairs, FlightsOK, FlightOK, RunsOnce,
     ReductionsDisjoint, CacheComplete, Ready, IsReady, PrincipalWire
<1>4. LoopOK' /\ DoneMeansNormalForm'
  BY <1>1, <1>2 DEF IInv, LoopOK, LivePairs, DoneMeansNormalForm, Ready, IsReady, PrincipalWire, Reducing
<1> QED BY <1>3, <1>4 DEF IInv

-----------------------------------------------------------------------------
LEMMA InitInv == SchedInit => IInv
<1> SUFFICES ASSUME SchedInit PROVE IInv
  OBVIOUS
<1>1. PICK net \in InitialNets : /\ live = DOMAIN net.kind
                                /\ kind = [n \in Nodes |-> IF n \in live THEN net.kind[n] ELSE "task"]
                                /\ wires = net.wires
  BY DEF SchedInit
<1>2. /\ status = [n \in Nodes |-> "idle"] /\ cache = {} /\ loop = "check" /\ batch = {} /\ attempts = 0
      /\ flights = {} /\ iterations = 0 /\ sinceGC = 0 /\ executor \in BOOLEAN
      /\ executed = [n \in Nodes |-> 0]
  BY DEF SchedInit
<1>3. IsFiniteSet(flights) /\ Cardinality(flights) = 0 /\ IsFiniteSet(batch) /\ Cardinality(batch) = 0
  BY <1>2, FS_EmptySet
<1>4. /\ live \subseteq Nodes /\ IsFiniteSet(live) /\ \A n \in live : net.kind[n] \in Kinds
      /\ \A w \in wires : w \subseteq Ports
  BY <1>1, SchedulerAssumption
<1>5. kind \in [Nodes -> Kinds]
  BY <1>1, <1>4 DEF Kinds
<1>6. NetShape
  BY <1>2, <1>4, <1>5 DEF NetShape, NetTypeOK, Statuses
<1>7. LoopOK
  BY <1>2, <1>3, SchedulerAssumption DEF LoopOK
<1> QED BY <1>2, <1>3, <1>6, <1>7 DEF IInv, FlightsOK, RunsOnce, ReductionsDisjoint, CacheComplete, DoneMeansNormalForm

LEMMA StepInv == IInv /\ [SchedNext]_netSchedVars => IInv'
  BY LookAndFindNoneInv, TakeBatchInv, ClaimNextInv, AllClaimedInv, BatchDoneInv, GiveUpInv,
     EndReductionInv, TaskEndsInv DEF SchedNext

LEMMA Invariance == SchedSpec => []IInv
  BY InitInv, StepInv, PTL DEF SchedSpec

\* The net stays a net, at most a batch of reductions is in flight, and the ids
\* they are about to create are in nobody's use.
THEOREM TypeCorrect == SchedSpec => []SchedTypeOK
<1>1. ASSUME IInv PROVE SchedTypeOK
  <2>1. NetTypeOK /\ executed \in [Nodes -> Nat]
    BY <1>1 DEF IInv, NetShape, RunsOnce
  <2>2. /\ loop \in {"check", "claim", "wait", "done", "gaveUp"} /\ attempts \in 0..MaxConcurrency
        /\ iterations \in 0..MaxIterations /\ sinceGC \in 0..(GcThreshold - 1)
    BY <1>1 DEF IInv, LoopOK
  <2>3. batch \subseteq Pairs
    BY <1>1, SizeFacts, LivePairFacts DEF IInv, LoopOK
  <2>4. Cardinality(flights) <= MaxConcurrency
    BY <1>1, SizeFacts, SchedulerAssumption DEF IInv, LoopOK
  <2>5. ASSUME NEW f \in flights
        PROVE  /\ DOMAIN f = {"pair", "remove", "add", "addKind", "addWires", "dropped", "running", "fails"}
               /\ f.pair \in Pairs /\ f.remove \subseteq f.pair
               /\ f.add \subseteq Nodes \ live /\ f.running \subseteq f.pair
    BY <1>1 DEF IInv, FlightsOK, FlightOK, Flight
  <2> QED BY <2>1, <2>2, <2>3, <2>4, <2>5 DEF SchedTypeOK
<1> QED BY <1>1, Invariance, PTL

\* No node is in two reductions, no id created twice, and no task handed to the
\* executor twice, though the pairs of a batch share nodes.
THEOREM NothingTwice == SchedSpec => []ReducedOnce
<1>1. ASSUME IInv PROVE ReducedOnce
  <2>1. ReductionsDisjoint
    BY <1>1 DEF IInv
  <2>2. TaskRunsOnce
    BY <1>1 DEF IInv, RunsOnce, TaskRunsOnce
  <2> QED BY <2>1, <2>2 DEF ReducedOnce
<1> QED BY <1>1, Invariance, PTL

\* A cache of active pairs that is not empty misses none.
THEOREM CacheMissesNone == SchedSpec => []CacheComplete
<1>1. IInv => CacheComplete
  BY DEF IInv
<1> QED BY <1>1, Invariance, PTL

\* When the loop ends as done, nothing is ready, reducing or in flight.
THEOREM DoneIsNormalForm == SchedSpec => []DoneMeansNormalForm
<1>1. IInv => DoneMeansNormalForm
  BY DEF IInv
<1> QED BY <1>1, Invariance, PTL
=============================================================================
