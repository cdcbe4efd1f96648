--------------------------- MODULE ExecutorProofs ---------------------------
(***************************************************************************)
(* Proofs about Executor.tla for any agents, escalation targets, depth,    *)
(* requests and breakers: the metrics balance and nobody stays busy.       *)
(***************************************************************************)
EXTENDS Executor, FiniteSetTheorems, SequenceTheorems, TLAPS

-----------------------------------------------------------------------------
(* The invariant *)

\* Only a frame within the depth limit is ever started, and only a request that
\* was executed has frames.
Depths ==
    \A r \in Requests :
        /\ \A i \in 1..Len(stack[r]) : stack[r][i].phase # "call" => stack[r][i].depth <= MaxDepth
        /\ result[r] = "new" => stack[r] = <<>>

\* The frames that count as in progress.
InProgress == UNION {{<<r, i>> : i \in Started(r)} : r \in Requests}

Balanced ==
    /\ IsFiniteSet(InProgress)
    /\ metrics.total = metrics.success + metrics.failure + metrics.escalated + Cardinality(InProgress)
    /\ tasksTable.total = tasksTable.success + tasksTable.failure + tasksTable.escalated

IInv == ExecTypeOK /\ Depths /\ Balanced /\ NoStuckAgent

-----------------------------------------------------------------------------
(* Operators of the model *)

\* One counter goes up by one, the others stay.
LEMMA CountFacts ==
    ASSUME NEW m \in Counts, NEW kind \in {"total", "success", "failure", "escalated"}
    PROVE  /\ Count(m, kind) \in Counts
           /\ Count(m, kind).total = IF kind = "total" THEN m.total + 1 ELSE m.total
           /\ Count(m, kind).success = IF kind = "success" THEN m.success + 1 ELSE m.success
           /\ Count(m, kind).failure = IF kind = "failure" THEN m.failure + 1 ELSE m.failure
           /\ Count(m, kind).escalated = IF kind = "escalated" THEN m.escalated + 1 ELSE m.escalated
  BY DEF Count, Counts

\* A recorded result is a task and its outcome.
LEMMA RecordedFacts ==
    ASSUME tasksTable \in Counts, NEW value \in Final,
           tasksTable.total = tasksTable.success + tasksTable.failure + tasksTable.escalated
    PROVE  /\ Recorded(value) \in Counts
           /\ Recorded(value).total =
                Recorded(value).success + Recorded(value).failure + Recorded(value).escalated
<1> DEFINE once == Count(tasksTable, "total")
<1>1. /\ once \in Counts /\ once.total = tasksTable.total + 1 /\ once.success = tasksTable.success
      /\ once.failure = tasksTable.failure /\ once.escalated = tasksTable.escalated
  BY CountFacts
<1>2. tasksTable.success \in Nat /\ tasksTable.failure \in Nat /\ tasksTable.escalated \in Nat
  BY DEF Counts
<1> HIDE DEF once
<1>3. value \in {"success", "failure", "escalated"} /\ Recorded(value) = Count(once, value)
  BY DEF Recorded, once, Final
<1> DEFINE twice == Count(once, value)
<1>4. /\ twice \in Counts /\ twice.total = once.total
      /\ twice.success = IF value = "success" THEN once.success + 1 ELSE once.success
      /\ twice.failure = IF value = "failure" THEN once.failure + 1 ELSE once.failure
      /\ twice.escalated = IF value = "escalated" THEN once.escalated + 1 ELSE once.escalated
  BY <1>1, <1>3, CountFacts
<1> HIDE DEF twice
<1>5. twice.total = twice.success + twice.failure + twice.escalated
  BY <1>1, <1>2, <1>3, <1>4
<1> QED BY <1>3, <1>4, <1>5 DEF twice

\* What is left when the top frame is taken off, and what is on top when one is put on.
LEMMA StackFacts ==
    ASSUME NEW S, NEW s \in Seq(S), s # <<>>, NEW f \in S
    PROVE  LET n == Len(s)  low == SubSeq(s, 1, n - 1) IN
           /\ n \in Nat \ {0} /\ s[n] \in S
           /\ low \in Seq(S) /\ Len(low) = n - 1
           /\ \A i \in 1..(n - 1) : low[i] = s[i]
           /\ Append(low, f) \in Seq(S) /\ Len(Append(low, f)) = n
           /\ \A i \in 1..n : Append(low, f)[i] = IF i = n THEN f ELSE s[i]
<1> DEFINE n == Len(s)
           low == SubSeq(s, 1, n - 1)
<1>1. n \in Nat \ {0}
  OBVIOUS
<1>2. s[n] \in S
  BY <1>1
<1>3. low \in Seq(S) /\ Len(low) = n - 1 /\ \A i \in 1..(n - 1) : low[i] = s[i]
  <2>1. n - 1 \in Int /\ 1 \in Int /\ \A i \in 1..(n - 1) : s[i] \in S
    BY <1>1
  <2>2. /\ low \in Seq(S) /\ Len(low) = IF 1 <= n - 1 THEN (n - 1) - 1 + 1 ELSE 0
        /\ \A i \in 1..((n - 1) - 1 + 1) : low[i] = s[1 + i - 1]
    BY <2>1, SubSeqProperties
  <2> HIDE DEF low, n
  <2>3. ((n - 1) - 1) + 1 = n - 1 /\ (n - 1 < 1 => n - 1 = 0)
    BY <1>1
  <2>4. \A i \in 1..(n - 1) : (1 + i) - 1 = i
    BY <1>1
  <2> QED BY <1>1, <2>2, <2>3, <2>4
<1> HIDE DEF low
<1>4. Append(low, f) \in Seq(S) /\ Len(Append(low, f)) = n
  BY <1>1, <1>3
<1>5. \A i \in 1..n : Append(low, f)[i] = IF i = n THEN f ELSE s[i]
  BY <1>1, <1>3
<1> QED BY <1>1, <1>2, <1>3, <1>4, <1>5 DEF low

-----------------------------------------------------------------------------
(* What a step does to the stack of its request, and to nothing else *)

\* The frames in progress change at one place at most.
LEMMA InProgressFacts ==
    /\ \A r, i : <<r, i>> \in InProgress <=> r \in Requests /\ i \in Started(r)
    /\ \A x \in InProgress : \E r \in Requests : \E i \in Started(r) : x = <<r, i>>
  BY DEF InProgress

LEMMA StartsOne ==
    ASSUME NEW r \in Requests, NEW n,
           \A q \in Requests : q # r => Started(q)' = Started(q),
           Started(r)' = Started(r) \cup {n}, n \notin Started(r), IsFiniteSet(InProgress)
    PROVE  /\ IsFiniteSet(InProgress') /\ Cardinality(InProgress') = Cardinality(InProgress) + 1
           /\ Cardinality(InProgress) \in Nat
<1>1. InProgress' = InProgress \cup {<<r, n>>} /\ <<r, n>> \notin InProgress
  BY DEF InProgress
<1> QED BY <1>1, FS_AddElement, FS_CardinalityType

LEMMA EndsOne ==
    ASSUME NEW r \in Requests, NEW n \in Started(r),
           \A q \in Requests : q # r => Started(q)' = Started(q),
           Started(r)' = Started(r) \ {n}, IsFiniteSet(InProgress)
    PROVE  /\ IsFiniteSet(InProgress') /\ Cardinality(InProgress') + 1 = Cardinality(InProgress)
           /\ Cardinality(InProgress') \in Nat
<1>1. InProgress' = InProgress \ {<<r, n>>} /\ <<r, n>> \in InProgress
  BY DEF InProgress
<1>2. IsFiniteSet(InProgress') /\ Cardinality(InProgress') = Cardinality(InProgress) - 1
  BY <1>1, FS_RemoveElement
<1>3. Cardinality(InProgress') \in Nat /\ Cardinality(InProgress) \in Nat
  BY <1>2, FS_CardinalityType
<1> QED BY <1>2, <1>3

\* A frame on top: its place, and whether it has started.
LEMMA TopFacts ==
    ASSUME ExecTypeOK, Depths, NEW r \in Requests, NEW phase, Active(r, phase)
    PROVE  /\ stack[r] \in Seq(Frame) /\ stack[r] # <<>> /\ Len(stack[r]) \in Nat \ {0}
           /\ Top(r) \in Frame /\ Top(r).phase = phase /\ Top(r) = stack[r][Len(stack[r])]
           /\ (Len(stack[r]) \in Started(r)) <=> phase # "call"
           /\ phase # "call" => Top(r).depth <= MaxDepth
           /\ result[r] # "new" /\ result[r] \in {"active"} \cup Final
<1>1. stack[r] \in Seq(Frame) /\ stack[r] # <<>> /\ Top(r) = stack[r][Len(stack[r])] /\ Top(r).phase = phase
  BY DEF ExecTypeOK, Active, Top
<1>2. Len(stack[r]) \in Nat \ {0} /\ Len(stack[r]) \in 1..Len(stack[r])
  BY <1>1
<1>3. Top(r) \in Frame
  BY <1>1, <1>2
<1>4. result[r] # "new" /\ result[r] \in {"active"} \cup Final
  BY <1>1 DEF Depths, ExecTypeOK
<1> QED BY <1>1, <1>2, <1>3, <1>4 DEF Started, Depths

\* A frame returns.
LEMMA ReturnFacts ==
    ASSUME ExecTypeOK, Depths, NEW r \in Requests, NEW phase, Active(r, phase),
           NEW value \in Final, Return(r, value)
    PROVE  /\ stack' \in [Requests -> Seq(Frame)]
           /\ result' \in [Requests -> {"new", "active"} \cup Final] /\ Depths'
           /\ \A q \in Requests : q # r => Started(q)' = Started(q) /\ stack'[q] = stack[q]
           /\ Started(r)' = Started(r) \ {Len(stack[r])}
           /\ \A i \in Started(r)' : stack'[r][i] = stack[r][i]
<1> DEFINE n == Len(stack[r])
<1>1. /\ stack[r] \in Seq(Frame) /\ stack[r] # <<>> /\ n \in Nat \ {0} /\ Top(r) \in Frame
      /\ result[r] # "new"
  BY TopFacts
<1>2. /\ stack' = [stack EXCEPT ![r] = Below(r)]
      /\ Below(r) \in Seq(Frame) /\ Len(Below(r)) = n - 1 /\ \A i \in 1..(n - 1) : Below(r)[i] = stack[r][i]
  BY <1>1, StackFacts DEF Return, Below
<1>3. \A q \in Requests : stack'[q] = IF q = r THEN Below(r) ELSE stack[q]
  BY <1>2 DEF ExecTypeOK
<1>4. stack' \in [Requests -> Seq(Frame)]
  BY <1>2 DEF ExecTypeOK
<1>5. \A q \in Requests : result'[q] \in {IF q = r THEN value ELSE result[q], result[q]}
  BY DEF Return, ExecTypeOK
<1>6. result' \in [Requests -> {"new", "active"} \cup Final]
  BY DEF Return, ExecTypeOK
<1>7. \A q \in Requests : q # r => Started(q)' = Started(q)
  BY <1>3 DEF Started
<1>8. Started(r)' = Started(r) \ {n}
  BY <1>1, <1>2, <1>3 DEF Started
<1>9. \A i \in Started(r)' : i \in 1..(n - 1)
  BY <1>1, <1>8 DEF Started
<1>10. Depths'
  BY <1>1, <1>2, <1>3, <1>5 DEF Depths, Final
<1> QED BY <1>2, <1>3, <1>4, <1>6, <1>7, <1>8, <1>9, <1>10

\* A frame is replaced.
LEMMA ReplaceFacts ==
    ASSUME ExecTypeOK, Depths, NEW r \in Requests, NEW phase, Active(r, phase),
           NEW f \in Frame, f.phase # "call" => f.depth <= MaxDepth, Replace(r, f)
    PROVE  /\ stack' \in [Requests -> Seq(Frame)] /\ result' = result /\ Depths'
           /\ \A q \in Requests : q # r => Started(q)' = Started(q) /\ stack'[q] = stack[q]
           /\ Started(r)' = (Started(r) \ {Len(stack[r])})
                            \cup (IF f.phase = "call" THEN {} ELSE {Len(stack[r])})
           /\ \A i \in Started(r)' : stack'[r][i] = IF i = Len(stack[r]) THEN f ELSE stack[r][i]
<1> DEFINE n == Len(stack[r])
           new == Append(Below(r), f)
<1>1. stack[r] \in Seq(Frame) /\ stack[r] # <<>> /\ n \in Nat \ {0} /\ result[r] # "new"
  BY TopFacts
<1>2. /\ stack' = [stack EXCEPT ![r] = new] /\ result' = result
      /\ new \in Seq(Frame) /\ Len(new) = n
      /\ \A i \in 1..n : new[i] = IF i = n THEN f ELSE stack[r][i]
  BY <1>1, StackFacts DEF Replace, Below
<1> HIDE DEF new
<1>3. \A q \in Requests : stack'[q] = IF q = r THEN new ELSE stack[q]
  BY <1>2 DEF ExecTypeOK
<1>4. stack' \in [Requests -> Seq(Frame)]
  BY <1>2 DEF ExecTypeOK
<1>5. \A q \in Requests : q # r => Started(q)' = Started(q)
  BY <1>3 DEF Started
<1>6. Started(r)' = {i \in 1..n : new[i].phase # "call"}
  BY <1>2, <1>3 DEF Started
<1>7. \A i \in 1..n : new[i].phase # "call" <=> IF i = n THEN f.phase # "call" ELSE stack[r][i].phase # "call"
  BY <1>2
<1>8. Started(r)' = (Started(r) \ {n}) \cup (IF f.phase = "call" THEN {} ELSE {n})
  BY <1>1, <1>6, <1>7 DEF Started
<1>9. Depths'
  <2>1. \A i \in 1..n : new[i].phase # "call" => new[i].depth <= MaxDepth
    BY <1>1, <1>2 DEF Depths
  <2> QED BY <1>1, <1>2, <1>3, <2>1 DEF Depths
<1> QED BY <1>2, <1>3, <1>4, <1>5, <1>6, <1>8, <1>9

\* Who stays busy keeps a frame in progress; who becomes busy has one.
LEMMA StuckFacts ==
    ASSUME NoStuckAgent, NEW r \in Requests,
           \A q \in Requests : q # r => Started(q)' = Started(q) /\ stack'[q] = stack[q],
           \A a \in Agents : status'[a] = "busy" =>
              \/ \E j \in Started(r)' : stack'[r][j].agent = a
              \/ /\ status[a] = "busy"
                 /\ \A i \in Started(r) : stack[r][i].agent = a =>
                      i \in Started(r)' /\ stack'[r][i].agent = a
    PROVE  NoStuckAgent'
<1> SUFFICES ASSUME NEW a \in Agents, status'[a] = "busy"
             PROVE  \E q \in Requests : \E i \in Started(q)' : stack'[q][i].agent = a
  BY DEF NoStuckAgent
<1>1. CASE \E j \in Started(r)' : stack'[r][j].agent = a
  BY <1>1
<1>2. CASE /\ status[a] = "busy"
           /\ \A i \in Started(r) : stack[r][i].agent = a => i \in Started(r)' /\ stack'[r][i].agent = a
  <2>1. PICK q \in Requests : \E i \in Started(q) : stack[q][i].agent = a
    BY <1>2 DEF NoStuckAgent
  <2>2. CASE q = r
    BY <1>2, <2>1, <2>2
  <2>3. CASE q # r
    BY <2>1, <2>3
  <2> QED BY <2>2, <2>3
<1> QED BY <1>1, <1>2

\* Releasing an agent lets nobody else go.
LEMMA ReleasedFacts ==
    ASSUME status \in [Agents -> {"idle", "busy"}], NEW a
    PROVE  /\ Released(a) \in [Agents -> {"idle", "busy"}]
           /\ \A b \in Agents : Released(a)[b] = "busy" => status[b] = "busy" /\ b # a
  BY DEF Released

\* Nothing in progress changes.
LEMMA SameProgress ==
    ASSUME \A q \in Requests : Started(q)' = Started(q)
    PROVE  InProgress' = InProgress
  BY DEF InProgress

-----------------------------------------------------------------------------
(* Each action *)

\* The numbers of the invariant are naturals.
LEMMA NumberFacts ==
    ASSUME IInv
    PROVE  /\ metrics \in Counts /\ tasksTable \in Counts
           /\ metrics.success \in Nat /\ metrics.failure \in Nat /\ metrics.escalated \in Nat
           /\ metrics.total \in Nat /\ IsFiniteSet(InProgress) /\ Cardinality(InProgress) \in Nat
<1>1. metrics \in Counts /\ tasksTable \in Counts /\ IsFiniteSet(InProgress)
  BY DEF IInv, ExecTypeOK, Balanced
<1> QED BY <1>1, FS_CardinalityType DEF Counts

\* A request that is new has no frames, so its first one is the only one.
LEMMA ExecuteInv ==
    ASSUME IInv, NEW r \in Requests, NEW t \in Agents \cup {NoAgent}, NEW p \in {3, 4}, Execute(r, t, p)
    PROVE  IInv'
<1> DEFINE f == Call(t, 0, p)
<1>1. /\ stack[r] = <<>> /\ stack' = [stack EXCEPT ![r] = <<f>>]
      /\ result' = [result EXCEPT ![r] = "active"] /\ UNCHANGED <<status, metrics, tasksTable>>
  BY DEF Execute, IInv, Depths
<1>2. f \in Frame /\ f.phase = "call"
  BY ExecutorAssumption DEF Call, Frame, Priorities
<1> HIDE DEF f
<1>3. <<f>> \in Seq(Frame) /\ Len(<<f>>) = 1 /\ <<f>>[1] = f
  BY <1>2
<1>4. \A q \in Requests : stack'[q] = IF q = r THEN <<f>> ELSE stack[q]
  BY <1>1 DEF IInv, ExecTypeOK
<1>5. ExecTypeOK'
  BY <1>1, <1>3 DEF IInv, ExecTypeOK
<1>6. Started(r) = {} /\ Started(r)' = {}
  BY <1>1, <1>2, <1>3, <1>4 DEF Started
<1>7. \A q \in Requests : q # r => Started(q)' = Started(q)
  BY <1>4 DEF Started
<1>8. Depths'
  <2>1. \A q \in Requests : result'[q] = IF q = r THEN "active" ELSE result[q]
    BY <1>1 DEF IInv, ExecTypeOK
  <2>2. \A q \in Requests : \A i \in 1..Len(stack'[q]) :
          stack'[q][i].phase # "call" => stack'[q][i].depth <= MaxDepth
    <3>1. \A i \in 1..Len(<<f>>) : <<f>>[i].phase = "call"
      BY <1>2, <1>3
    <3> QED BY <1>4, <3>1 DEF IInv, Depths
  <2>3. \A q \in Requests : result'[q] = "new" => stack'[q] = <<>>
    BY <1>4, <2>1 DEF IInv, Depths
  <2> QED BY <2>2, <2>3 DEF Depths
<1>9. InProgress' = InProgress
  BY <1>6, <1>7, SameProgress
<1>10. Balanced'
  BY <1>1, <1>9 DEF IInv, Balanced
<1>11. NoStuckAgent'
  BY <1>1, <1>4, <1>6, <1>7, StuckFacts DEF IInv
<1> QED BY <1>5, <1>8, <1>10, <1>11 DEF IInv

\* A call that is refused was not in progress: it counts as started and ended.
LEMMA RefuseInv == ASSUME IInv, NEW r \in Requests, Refuse(r) PROVE IInv'
<1> DEFINE n == Len(stack[r])
<1>1. Active(r, "call") /\ Return(r, "failure") /\ tasksTable' = tasksTable
  BY DEF Refuse
<1>2. /\ stack' \in [Requests -> Seq(Frame)]
      /\ result' \in [Requests -> {"new", "active"} \cup Final] /\ Depths'
      /\ \A q \in Requests : q # r => Started(q)' = Started(q) /\ stack'[q] = stack[q]
      /\ Started(r)' = Started(r) \ {n}
      /\ \A i \in Started(r)' : stack'[r][i] = stack[r][i]
  BY <1>1, ReturnFacts DEF IInv, Final
<1>3. n \notin Started(r)
  BY <1>1, TopFacts DEF IInv
<1>4. \A q \in Requests : Started(q)' = Started(q)
  BY <1>2, <1>3
<1>5. /\ status' \in [Agents -> {"idle", "busy"}]
      /\ \A a \in Agents : status'[a] = "busy" => status[a] = "busy"
  BY ReleasedFacts DEF Refuse, IInv, ExecTypeOK
<1>6. InProgress' = InProgress
  BY <1>4, SameProgress
<1> DEFINE once == Count(metrics, "total")
<1>7. /\ metrics' = Count(once, "failure") /\ once \in Counts
      /\ once.total = metrics.total + 1 /\ once.success = metrics.success
      /\ once.failure = metrics.failure /\ once.escalated = metrics.escalated
  BY NumberFacts, CountFacts DEF Refuse
<1> HIDE DEF once
<1>8. /\ metrics' \in Counts /\ metrics'.total = once.total /\ metrics'.success = once.success
      /\ metrics'.failure = once.failure + 1 /\ metrics'.escalated = once.escalated
  BY <1>7, CountFacts
<1>9. Balanced'
  BY <1>1, <1>6, <1>7, <1>8, NumberFacts DEF IInv, Balanced
<1>10. NoStuckAgent'
  BY <1>2, <1>4, <1>5, StuckFacts DEF IInv
<1> QED BY <1>1, <1>2, <1>5, <1>8, <1>9, <1>10 DEF IInv, ExecTypeOK

\* A frame that is asked starts.
LEMMA AskInv == ASSUME IInv, NEW r \in Requests, Ask(r) PROVE IInv'
<1> DEFINE n == Len(stack[r])
           f == [Top(r) EXCEPT !.phase = "answer"]
<1>1. /\ Active(r, "call") /\ ~TooDeep(Top(r).depth) /\ Replace(r, f) /\ tasksTable' = tasksTable
      /\ metrics' = Count(metrics, "total")
      /\ status' = [status EXCEPT ![Top(r).agent] = "busy"]
  BY DEF Ask
<1>2. Top(r) \in Frame /\ n \notin Started(r)
  BY <1>1, TopFacts DEF IInv
<1>3. f \in Frame /\ f.phase = "answer" /\ f.depth <= MaxDepth /\ f.agent = Top(r).agent
  BY <1>1, <1>2, ExecutorAssumption DEF Frame, TooDeep
<1> HIDE DEF f
<1>4. /\ stack' \in [Requests -> Seq(Frame)] /\ result' = result /\ Depths'
      /\ \A q \in Requests : q # r => Started(q)' = Started(q) /\ stack'[q] = stack[q]
      /\ Started(r)' = (Started(r) \ {n}) \cup (IF f.phase = "call" THEN {} ELSE {n})
      /\ \A i \in Started(r)' : stack'[r][i] = IF i = n THEN f ELSE stack[r][i]
  BY <1>1, <1>3, ReplaceFacts DEF IInv
<1>5. Started(r)' = Started(r) \cup {n}
  BY <1>2, <1>3, <1>4
<1>6. /\ IsFiniteSet(InProgress') /\ Cardinality(InProgress') = Cardinality(InProgress) + 1
  BY <1>2, <1>4, <1>5, StartsOne, NumberFacts
<1>7. /\ metrics' \in Counts /\ metrics'.total = metrics.total + 1 /\ metrics'.success = metrics.success
      /\ metrics'.failure = metrics.failure /\ metrics'.escalated = metrics.escalated
  BY <1>1, NumberFacts, CountFacts
<1>8. Balanced'
  BY <1>1, <1>6, <1>7, NumberFacts DEF IInv, Balanced
<1>9. /\ status' \in [Agents -> {"idle", "busy"}]
      /\ \A a \in Agents : status'[a] = "busy" => status[a] = "busy" \/ a = f.agent
  BY <1>1, <1>3 DEF IInv, ExecTypeOK
<1>10. n \in Started(r)' /\ stack'[r][n].agent = f.agent
  BY <1>4, <1>5
<1>11. \A i \in Started(r) : i \in Started(r)' /\ stack'[r][i].agent = stack[r][i].agent
  BY <1>2, <1>4, <1>5
<1>12. NoStuckAgent'
  BY <1>4, <1>9, <1>10, <1>11, StuckFacts DEF IInv
<1> QED BY <1>1, <1>4, <1>7, <1>8, <1>9, <1>12 DEF IInv, ExecTypeOK

\* A frame in progress that is counted by its outcome, recorded and released ends.
LEMMA EndInv ==
    ASSUME IInv, NEW r \in Requests, NEW phase \in {"answer", "subs"}, Active(r, phase),
           NEW value \in Final, Return(r, value), metrics' = Count(metrics, value),
           status' = Released(Top(r).agent), tasksTable' = Recorded(value)
    PROVE  IInv'
<1> DEFINE n == Len(stack[r])
<1>1. /\ stack' \in [Requests -> Seq(Frame)]
      /\ result' \in [Requests -> {"new", "active"} \cup Final] /\ Depths'
      /\ \A q \in Requests : q # r => Started(q)' = Started(q) /\ stack'[q] = stack[q]
      /\ Started(r)' = Started(r) \ {n}
      /\ \A i \in Started(r)' : stack'[r][i] = stack[r][i]
  BY ReturnFacts DEF IInv
<1>2. n \in Started(r) /\ stack[r][n].agent = Top(r).agent
  BY TopFacts DEF IInv
<1>3. /\ IsFiniteSet(InProgress') /\ Cardinality(InProgress') + 1 = Cardinality(InProgress)
      /\ Cardinality(InProgress') \in Nat
  BY <1>1, <1>2, EndsOne, NumberFacts
<1>4. /\ metrics' \in Counts /\ metrics'.total = metrics.total
      /\ metrics'.success = IF value = "success" THEN metrics.success + 1 ELSE metrics.success
      /\ metrics'.failure = IF value = "failure" THEN metrics.failure + 1 ELSE metrics.failure
      /\ metrics'.escalated = IF value = "escalated" THEN metrics.escalated + 1 ELSE metrics.escalated
  BY NumberFacts, CountFacts DEF Final
<1>5. /\ tasksTable' \in Counts
      /\ tasksTable'.total = tasksTable'.success + tasksTable'.failure + tasksTable'.escalated
  BY RecordedFacts, NumberFacts DEF IInv, Balanced
<1>6. metrics'.total = metrics'.success + metrics'.failure + metrics'.escalated + Cardinality(InProgress')
  <2>1. metrics.total = metrics.success + metrics.failure + metrics.escalated + Cardinality(InProgress)
    BY DEF IInv, Balanced
  <2>2. value \in {"success", "failure", "escalated"}
    BY DEF Final
  <2> QED BY <1>3, <1>4, <2>1, <2>2, NumberFacts
<1>7. Balanced'
  BY <1>3, <1>5, <1>6 DEF Balanced
<1>8. /\ status' \in [Agents -> {"idle", "busy"}]
      /\ \A a \in Agents : status'[a] = "busy" => status[a] = "busy" /\ a # Top(r).agent
  BY ReleasedFacts DEF IInv, ExecTypeOK
<1>9. NoStuckAgent'
  BY <1>1, <1>2, <1>8, StuckFacts DEF IInv
<1> QED BY <1>1, <1>4, <1>5, <1>7, <1>8, <1>9 DEF IInv, ExecTypeOK

\* A frame that goes on to its sub-tasks stays in progress.
LEMMA AskForSubTasksInv ==
    ASSUME IInv, NEW r \in Requests, NEW k \in 1..MaxSubTasks, AskForSubTasks(r, k)
    PROVE  IInv'
<1> DEFINE n == Len(stack[r])
           f == [Top(r) EXCEPT !.phase = "subs", !.left = k]
<1>1. Active(r, "answer") /\ Replace(r, f) /\ UNCHANGED <<status, metrics, tasksTable>>
  BY DEF AskForSubTasks
<1>2. Top(r) \in Frame /\ n \in Started(r) /\ Top(r).depth <= MaxDepth /\ Top(r) = stack[r][n]
  BY <1>1, TopFacts DEF IInv
<1>3. f \in Frame /\ f.phase = "subs" /\ f.depth <= MaxDepth /\ f.agent = Top(r).agent
  <2>1. k \in 0..MaxSubTasks
    BY ExecutorAssumption
  <2> QED BY <1>2, <2>1 DEF Frame
<1> HIDE DEF f
<1>4. /\ stack' \in [Requests -> Seq(Frame)] /\ result' = result /\ Depths'
      /\ \A q \in Requests : q # r => Started(q)' = Started(q) /\ stack'[q] = stack[q]
      /\ Started(r)' = (Started(r) \ {n}) \cup (IF f.phase = "call" THEN {} ELSE {n})
      /\ \A i \in Started(r)' : stack'[r][i] = IF i = n THEN f ELSE stack[r][i]
  BY <1>1, <1>3, ReplaceFacts DEF IInv
<1>5. Started(r)' = Started(r)
  BY <1>2, <1>3, <1>4
<1>6. InProgress' = InProgress
  BY <1>4, <1>5, SameProgress
<1>7. Balanced'
  BY <1>1, <1>6 DEF IInv, Balanced
<1>8. \A i \in Started(r) : stack'[r][i].agent = stack[r][i].agent
  BY <1>2, <1>3, <1>4, <1>5
<1>9. NoStuckAgent'
  BY <1>1, <1>4, <1>5, <1>8, StuckFacts DEF IInv
<1> QED BY <1>1, <1>4, <1>7, <1>9 DEF IInv, ExecTypeOK

\* The call of a sub-task is put on top of the frame that waits for it.
LEMMA SubTaskInv ==
    ASSUME IInv, NEW r \in Requests, NEW t \in Agents \cup {NoAgent}, NEW p \in {3, 4}, SubTask(r, t, p)
    PROVE  IInv'
<1> DEFINE n == Len(stack[r])
           f == [Top(r) EXCEPT !.left = @ - 1]
           g == Call(t, Top(r).depth + 1, p)
           low == Append(Below(r), f)
           new == Append(low, g)
<1>1. /\ Active(r, "subs") /\ Top(r).left > 0 /\ stack' = [stack EXCEPT ![r] = new]
      /\ UNCHANGED <<result, status, metrics, tasksTable>>
  BY DEF SubTask
<1>2. /\ stack[r] \in Seq(Frame) /\ stack[r] # <<>> /\ n \in Nat \ {0}
      /\ Top(r) \in Frame /\ Top(r) = stack[r][n] /\ Top(r).phase = "subs"
      /\ Top(r).depth <= MaxDepth /\ result[r] # "new"
  BY <1>1, TopFacts DEF IInv
<1>3. f \in Frame /\ f.phase = "subs" /\ f.depth = Top(r).depth /\ f.agent = Top(r).agent
  <2>1. Top(r).left - 1 \in 0..MaxSubTasks
    BY <1>1, <1>2, ExecutorAssumption, SMTT(30) DEF Frame
  <2> QED BY <1>2, <2>1 DEF Frame
<1>4. g \in Frame /\ g.phase = "call"
  <2>1. Top(r).depth + 1 \in 0..(MaxDepth + 1)
    BY <1>2, ExecutorAssumption DEF Frame
  <2> QED BY <2>1, ExecutorAssumption DEF Call, Frame, Priorities
<1> HIDE DEF f, g
<1>5. low \in Seq(Frame) /\ Len(low) = n /\ \A i \in 1..n : low[i] = IF i = n THEN f ELSE stack[r][i]
  BY <1>2, <1>3, StackFacts DEF Below
<1> HIDE DEF low
<1>6. /\ new \in Seq(Frame) /\ Len(new) = n + 1 /\ new[n + 1] = g
      /\ \A i \in 1..n : new[i] = IF i = n THEN f ELSE stack[r][i]
  BY <1>2, <1>4, <1>5
<1> HIDE DEF new
<1>7. \A q \in Requests : stack'[q] = IF q = r THEN new ELSE stack[q]
  BY <1>1 DEF IInv, ExecTypeOK
<1>8. ExecTypeOK'
  BY <1>1, <1>6 DEF IInv, ExecTypeOK
<1>9. \A q \in Requests : q # r => Started(q)' = Started(q)
  BY <1>7 DEF Started
<1>10. Started(r)' = Started(r)
  <2>1. Started(r)' = {i \in 1..(n + 1) : new[i].phase # "call"}
    BY <1>6, <1>7 DEF Started
  <2>2. \A i \in 1..n : new[i].phase # "call" <=> stack[r][i].phase # "call"
    BY <1>2, <1>3, <1>6
  <2>3. new[n + 1].phase = "call" /\ \A i \in 1..(n + 1) : i \in 1..n \/ i = n + 1
    BY <1>2, <1>4, <1>6
  <2> QED BY <1>2, <2>1, <2>2, <2>3, SMTT(30) DEF Started
<1>11. Depths'
  <2>1. \A i \in 1..(n + 1) : new[i].phase # "call" => new[i].depth <= MaxDepth
    <3> SUFFICES ASSUME NEW i \in 1..(n + 1), new[i].phase # "call" PROVE new[i].depth <= MaxDepth
      OBVIOUS
    <3>1. i \in 1..n
      BY <1>2, <1>4, <1>6
    <3>2. CASE i = n
      BY <1>2, <1>3, <1>6, <3>1, <3>2
    <3>3. CASE i # n
      BY <1>2, <1>6, <3>1, <3>3 DEF IInv, Depths
    <3> QED BY <3>2, <3>3
  <2> QED BY <1>1, <1>2, <1>6, <1>7, <2>1 DEF IInv, Depths
<1>12. InProgress' = InProgress
  BY <1>9, <1>10, SameProgress
<1>13. Balanced'
  BY <1>1, <1>12 DEF IInv, Balanced
<1>14. \A i \in Started(r) : stack'[r][i].agent = stack[r][i].agent
  BY <1>2, <1>3, <1>6, <1>7 DEF Started
<1>15. NoStuckAgent'
  BY <1>1, <1>7, <1>9, <1>10, <1>14, StuckFacts DEF IInv
<1> QED BY <1>8, <1>11, <1>13, <1>15 DEF IInv

\* A call that throws ends the frame or hands its place to the target.
LEMMA FailInv == ASSUME IInv, NEW r \in Requests, NEW o \in Outcomes, Fail(r, o) PROVE IInv'
<1> DEFINE n == Len(stack[r])
           f == Top(r)
<1>1. Active(r, "answer") /\ status' = Released(f.agent)
  BY DEF Fail
<1>2. CASE o = "broken" /\ metrics' = CountEscalated(metrics, o) /\ tasksTable' = Recorded("escalated")
           /\ Return(r, "escalated")
  BY <1>1, <1>2, EndInv DEF CountEscalated, Final
<1>3. CASE o = "none" /\ metrics' = Count(metrics, "failure") /\ tasksTable' = Recorded("failure")
           /\ Return(r, "failure")
  BY <1>1, <1>3, EndInv DEF Final
<1>4. CASE o \in Agents /\ metrics' = CountEscalated(metrics, o) /\ Replace(r, EscalatedCall(f, o))
           /\ UNCHANGED tasksTable
  <2> DEFINE g == EscalatedCall(f, o)
  <2>1. f \in Frame /\ n \in Started(r) /\ f.depth <= MaxDepth /\ f = stack[r][n]
    BY <1>1, TopFacts DEF IInv
  <2>2. g \in Frame /\ g.phase = "call"
    <3>1. f.depth + 1 \in 0..(MaxDepth + 1)
      BY <2>1, ExecutorAssumption, SMTT(30) DEF Frame
    <3>2. (IF f.priority < 5 THEN f.priority + 1 ELSE 5) \in Priorities
      BY <2>1 DEF Frame, Priorities
    <3> QED BY <1>4, <3>1, <3>2, ExecutorAssumption DEF EscalatedCall, Call, Frame
  <2> HIDE DEF g
  <2>3. /\ stack' \in [Requests -> Seq(Frame)] /\ result' = result /\ Depths'
        /\ \A q \in Requests : q # r => Started(q)' = Started(q) /\ stack'[q] = stack[q]
        /\ Started(r)' = (Started(r) \ {n}) \cup (IF g.phase = "call" THEN {} ELSE {n})
        /\ \A i \in Started(r)' : stack'[r][i] = IF i = n THEN g ELSE stack[r][i]
    BY <1>1, <1>4, <2>2, ReplaceFacts DEF IInv, g
  <2>4. Started(r)' = Started(r) \ {n}
    BY <2>2, <2>3
  <2>5. /\ IsFiniteSet(InProgress') /\ Cardinality(InProgress') + 1 = Cardinality(InProgress)
        /\ Cardinality(InProgress') \in Nat
    BY <2>1, <2>3, <2>4, EndsOne, NumberFacts
  <2>6. /\ metrics' \in Counts /\ metrics'.total = metrics.total
        /\ metrics'.success = metrics.success /\ metrics'.failure = metrics.failure
        /\ metrics'.escalated = metrics.escalated + 1
    BY <1>4, NumberFacts, CountFacts DEF CountEscalated
  <2>7. Balanced'
    BY <1>4, <2>5, <2>6, NumberFacts DEF IInv, Balanced
  <2>8. /\ status' \in [Agents -> {"idle", "busy"}]
        /\ \A a \in Agents : status'[a] = "busy" => status[a] = "busy" /\ a # f.agent
    BY <1>1, ReleasedFacts DEF IInv, ExecTypeOK
  <2>9. \A i \in Started(r) : stack[r][i].agent # f.agent => i \in Started(r)' /\ stack'[r][i] = stack[r][i]
    BY <2>1, <2>3, <2>4
  <2>10. NoStuckAgent'
    BY <2>3, <2>8, <2>9, StuckFacts DEF IInv
  <2> QED BY <1>4, <2>3, <2>6, <2>7, <2>8, <2>10 DEF IInv, ExecTypeOK
<1> QED BY <1>2, <1>3, <1>4 DEF Fail

\* With no task in progress the table counts what the metrics counted or less:
\* the restarted counters balance because every recorded task has one outcome.
LEMMA RestartInv == ASSUME IInv, RestartProcess PROVE IInv'
<1>1. /\ metrics' = tasksTable /\ UNCHANGED <<stack, result, status, tasksTable>>
      /\ \A r \in Requests : Started(r) = {}
  BY DEF RestartProcess, Started
<1>2. \A q \in Requests : Started(q)' = Started(q)
  BY <1>1 DEF Started
<1>3. InProgress' = {}
  BY <1>1, <1>2 DEF InProgress
<1>4. IsFiniteSet(InProgress') /\ Cardinality(InProgress') = 0
  BY <1>3, FS_EmptySet
<1>5. tasksTable.success \in Nat /\ tasksTable.failure \in Nat /\ tasksTable.escalated \in Nat
  BY NumberFacts DEF Counts
<1>6. Balanced'
  BY <1>1, <1>4, <1>5 DEF IInv, Balanced
<1>7. ExecTypeOK' /\ Depths'
  BY <1>1 DEF IInv, ExecTypeOK, Depths
<1>8. NoStuckAgent'
  BY <1>1, <1>2 DEF IInv, NoStuckAgent
<1> QED BY <1>6, <1>7, <1>8 DEF IInv

LEMMA SameInv == ASSUME IInv, UNCHANGED execVars PROVE IInv'
<1>1. UNCHANGED <<stack, result, status, metrics, tasksTable>>
  BY DEF execVars
<1>2. \A q \in Requests : Started(q)' = Started(q)
  BY <1>1 DEF Started
<1>3. Balanced'
  BY <1>1, <1>2, SameProgress DEF IInv, Balanced
<1>4. NoStuckAgent'
  BY <1>1, <1>2 DEF IInv, NoStuckAgent
<1> QED BY <1>1, <1>3, <1>4 DEF IInv, ExecTypeOK, Depths

-----------------------------------------------------------------------------
LEMMA InitInv == ExecInit => IInv
<1> SUFFICES ASSUME ExecInit PROVE IInv
  OBVIOUS
<1>1. \A r \in Requests : stack[r] = <<>> /\ Started(r) = {}
  BY DEF ExecInit, Started
<1>2. InProgress = {}
  BY <1>1 DEF InProgress
<1>3. IsFiniteSet(InProgress) /\ Cardinality(InProgress) = 0
  BY <1>2, FS_EmptySet
<1>4. Balanced
  BY <1>3 DEF ExecInit, NoCounts, Balanced
<1>5. ExecTypeOK
  BY DEF ExecInit, ExecTypeOK, NoCounts, Counts
<1>6. Depths /\ NoStuckAgent
  BY <1>1 DEF ExecInit, Depths, NoStuckAgent
<1> QED BY <1>4, <1>5, <1>6 DEF IInv

LEMMA StepInv == IInv /\ [ExecNext]_allVars => IInv'
<1> SUFFICES ASSUME IInv, [ExecNext]_allVars PROVE IInv'
  OBVIOUS
<1>1. CASE \E r \in Requests, t \in Agents \cup {NoAgent}, p \in {3, 4} : Execute(r, t, p)
  BY <1>1, ExecuteInv
<1>2. ASSUME NEW r \in Requests, Step(r) PROVE IInv'
  <2>1. CASE Refuse(r)
    BY <1>2, <2>1, RefuseInv
  <2>2. CASE Ask(r)
    BY <1>2, <2>2, AskInv
  <2>3. CASE Answer(r)
    BY <1>2, <2>3, EndInv DEF Answer, Finish, Final
  <2>4. CASE ExternalFailure(r)
    BY <1>2, <2>4, EndInv DEF ExternalFailure, Finish, Final
  <2>5. CASE CombineSubTasks(r)
    BY <1>2, <2>5, EndInv DEF CombineSubTasks, Finish, Final
  <2>6. CASE \E k \in 1..MaxSubTasks : AskForSubTasks(r, k)
    BY <1>2, <2>6, AskForSubTasksInv
  <2>7. CASE \E t \in Agents \cup {NoAgent}, p \in {3, 4} : SubTask(r, t, p)
    BY <1>2, <2>7, SubTaskInv
  <2>8. CASE \E o \in Outcomes : Fail(r, o)
    BY <1>2, <2>8, FailInv
  <2> QED BY <1>2, <2>1, <2>2, <2>3, <2>4, <2>5, <2>6, <2>7, <2>8 DEF Step
<1>3. CASE RestartProcess
  BY <1>3, RestartInv
<1>4. CASE UNCHANGED execVars
  BY <1>4, SameInv
<1> QED BY <1>1, <1>2, <1>3, <1>4 DEF ExecNext, allVars

LEMMA Invariance == ExecSpec => []IInv
  BY InitInv, StepInv, PTL DEF ExecSpec

\* Every variable of the executor keeps its type: no depth beyond the one that
\* is refused, no priority beyond 5, through any nesting of sub-tasks and
\* escalations.
THEOREM TypeCorrect == ExecSpec => []ExecTypeOK
<1>1. IInv => ExecTypeOK
  BY DEF IInv
<1> QED BY <1>1, Invariance, PTL

\* The metrics count every call of executeInternal once as started and once as
\* ended.
THEOREM MetricsBalanced == ExecSpec => []MetricsBalance
<1>1. IInv => MetricsBalance
  BY DEF IInv, Balanced, MetricsBalance, InProgress
<1> QED BY <1>1, Invariance, PTL

\* An agent marked busy works for a task in progress.
THEOREM NobodyStuck == ExecSpec => []NoStuckAgent
<1>1. IInv => NoStuckAgent
  BY DEF IInv
<1> QED BY <1>1, Invariance, PTL
=============================================================================
