-------------------------- MODULE WorkerPoolProofs --------------------------
(***************************************************************************)
(* Theorems about WorkerPool, for any tasks, workers and configuration.    *)
(* DispatchNext is part of five actions, so what it does to the queue, the *)
(* workers and the executions is stated once, of explicit arguments.       *)
(***************************************************************************)
EXTENDS WorkerPool, FiniteSetTheorems, TLAPS

In(q, t) == \E i \in 1..Len(q) : q[i] = t

\* TypeOK and TaskHeldOnce of a queue, worker statuses, current tasks and
\* executions that need not be those of the current state.
TypeOf(q, st, c, r) ==
    /\ q \in Seq(Tasks)
    /\ st \in [Workers -> {"idle", "busy", "draining", "dead"}]
    /\ c \in [Workers -> Tasks \cup {NoTask}]
    /\ r \in [Tasks -> Workers \cup {NoWorker}]

Distinct(q) == \A i, j \in 1..Len(q) : q[i] = q[j] => i = j

Held(q, c, r) ==
    /\ Distinct(q)
    /\ \A t \in Tasks : In(q, t) => r[t] = NoWorker
    /\ \A w \in Workers : c[w] # NoTask => r[c[w]] = w

-----------------------------------------------------------------------------
(* Sequences *)

\* What InsertAt returns, element by element.
LEMMA InsertAtElements ==
    ASSUME NEW S, NEW q \in Seq(S), NEW t \in S, NEW p \in 1..(Len(q) + 1)
    PROVE  /\ InsertAt(q, p, t) \in Seq(S)
           /\ Len(InsertAt(q, p, t)) = Len(q) + 1
           /\ \A i \in 1..(Len(q) + 1) :
                InsertAt(q, p, t)[i] = IF i < p THEN q[i]
                                       ELSE IF i = p THEN t ELSE q[i - 1]
<1> DEFINE front == SubSeq(q, 1, p - 1)
           back == SubSeq(q, p, Len(q))
<1>1. Len(q) \in Nat /\ p \in Nat /\ 1 <= p /\ p <= Len(q) + 1
  OBVIOUS
<1>2. /\ front \in Seq(S) /\ Len(front) = p - 1
      /\ \A i \in 1..(p - 1) : front[i] = q[i]
  BY <1>1
<1>3. /\ back \in Seq(S) /\ Len(back) = Len(q) + 1 - p
      /\ \A i \in 1..(Len(q) + 1 - p) : back[i] = q[p + i - 1]
  BY <1>1
<1>4. InsertAt(q, p, t) = (front \o <<t>>) \o back
  BY DEF InsertAt
<1> HIDE DEF front, back
<1> DEFINE left == front \o <<t>>
<1>5. /\ left \in Seq(S) /\ Len(left) = p
      /\ \A i \in 1..p : left[i] = IF i < p THEN q[i] ELSE t
  BY <1>1, <1>2
<1> HIDE DEF left
<1>6. /\ left \o back \in Seq(S) /\ Len(left \o back) = Len(q) + 1
      /\ \A i \in 1..(Len(q) + 1) :
           (left \o back)[i] = IF i <= p THEN left[i] ELSE back[i - p]
  BY <1>1, <1>3, <1>5
<1>7. ASSUME NEW i \in 1..(Len(q) + 1)
      PROVE  (left \o back)[i] = IF i < p THEN q[i]
                                  ELSE IF i = p THEN t ELSE q[i - 1]
  <2>1. CASE i <= p
    BY <1>1, <1>5, <1>6, <2>1
  <2>2. CASE i > p
    <3>1. i - p \in 1..(Len(q) + 1 - p) /\ p + (i - p) - 1 = i - 1
      BY <1>1, <2>2
    <3> QED BY <1>1, <1>3, <1>6, <2>2, <3>1
  <2>3. i <= p \/ i > p
    BY <1>1
  <2> QED BY ONLY <2>1, <2>2, <2>3
<1> QED BY <1>4, <1>6, <1>7 DEF left

\* Inserting a new task keeps the elements distinct and adds just that task.
LEMMA InsertDistinct ==
    ASSUME NEW q \in Seq(Tasks), NEW t \in Tasks, NEW p \in 1..(Len(q) + 1),
           Distinct(q), ~In(q, t)
    PROVE  /\ Distinct(InsertAt(q, p, t))
           /\ \A u \in Tasks : In(InsertAt(q, p, t), u) <=> In(q, u) \/ u = t
<1> DEFINE new == InsertAt(q, p, t)
<1>1. /\ Len(new) = Len(q) + 1
      /\ \A i \in 1..(Len(q) + 1) :
           new[i] = IF i < p THEN q[i] ELSE IF i = p THEN t ELSE q[i - 1]
  BY InsertAtElements
<1>2. Len(q) \in Nat
  OBVIOUS
<1> HIDE DEF new
<1>3. Distinct(new)
  <2>1. ASSUME NEW i \in 1..(Len(q) + 1), NEW j \in 1..(Len(q) + 1), i < j
        PROVE  new[i] # new[j]
    <3>1. CASE j < p
      BY <1>1, <1>2, <2>1, <3>1 DEF Distinct
    <3>2. CASE j = p
      <4>1. new[i] = q[i] /\ new[j] = t /\ i \in 1..Len(q)
        BY <1>1, <1>2, <2>1, <3>2
      <4> QED BY <4>1 DEF In
    <3>3. CASE j > p /\ i = p
      <4>1. new[i] = t /\ new[j] = q[j - 1] /\ j - 1 \in 1..Len(q)
        BY <1>1, <1>2, <2>1, <3>3
      <4> QED BY <4>1 DEF In
    <3>4. CASE j > p /\ i < p
      <4>1. new[i] = q[i] /\ new[j] = q[j - 1] /\ i \in 1..Len(q) /\ j - 1 \in 1..Len(q) /\ i # j - 1
        BY <1>1, <1>2, <2>1, <3>4
      <4> QED BY <4>1 DEF Distinct
    <3>5. CASE j > p /\ i > p
      <4>1. new[i] = q[i - 1] /\ new[j] = q[j - 1] /\ i - 1 \in 1..Len(q) /\ j - 1 \in 1..Len(q) /\ i - 1 # j - 1
        BY <1>1, <1>2, <2>1, <3>5
      <4> QED BY <4>1 DEF Distinct
    <3> QED BY <1>2, <2>1, <3>1, <3>2, <3>3, <3>4, <3>5
  <2> QED BY <1>1, <1>2, <2>1 DEF Distinct
<1>4. ASSUME NEW u \in Tasks PROVE In(new, u) <=> In(q, u) \/ u = t
  <2>1. CASE u = t
    BY <1>1, <1>2, <2>1 DEF In
  <2>2. ASSUME In(q, u) PROVE In(new, u)
    <3>1. PICK i \in 1..Len(q) : q[i] = u
      BY <2>2 DEF In
    <3>2. CASE i < p
      BY <1>1, <1>2, <3>1, <3>2 DEF In
    <3>3. CASE i >= p
      <4>1. i + 1 \in 1..(Len(q) + 1) /\ new[i + 1] = q[i]
        BY <1>1, <1>2, <3>3
      <4> QED BY <1>1, <3>1, <4>1 DEF In
    <3> QED BY <3>2, <3>3, <1>2
  <2>3. ASSUME In(new, u), u # t PROVE In(q, u)
    <3>1. PICK i \in 1..(Len(q) + 1) : new[i] = u
      BY <1>1, <2>3 DEF In
    <3>2. CASE i < p
      BY <1>1, <1>2, <3>1, <3>2 DEF In
    <3>3. CASE i > p
      <4>1. i - 1 \in 1..Len(q) /\ q[i - 1] = u
        BY <1>1, <1>2, <3>1, <3>3
      <4> QED BY <4>1 DEF In
    <3> QED BY <1>1, <2>3, <3>1, <3>2, <3>3, <1>2
  <2> QED BY <2>1, <2>2, <2>3
<1> QED BY <1>3, <1>4 DEF new

\* Removing a prefix keeps the elements distinct and takes out just the prefix.
LEMMA SuffixDistinct ==
    ASSUME NEW q \in Seq(Tasks), NEW n \in 0..Len(q), Distinct(q)
    PROVE  LET rest == SubSeq(q, n + 1, Len(q)) IN
           /\ rest \in Seq(Tasks) /\ Distinct(rest)
           /\ \A u \in Tasks : In(rest, u) <=> \E i \in (n + 1)..Len(q) : q[i] = u
           /\ \A u \in Tasks : In(rest, u) => ~\E i \in 1..n : q[i] = u
           /\ \A u \in Tasks : In(q, u) <=> In(rest, u) \/ \E i \in 1..n : q[i] = u
<1> DEFINE rest == SubSeq(q, n + 1, Len(q))
<1>1. Len(q) \in Nat /\ n \in Nat /\ n <= Len(q)
  OBVIOUS
<1>2. /\ rest \in Seq(Tasks) /\ Len(rest) = Len(q) - n
      /\ \A i \in 1..(Len(q) - n) : rest[i] = q[n + i]
  BY <1>1
<1> HIDE DEF rest
<1>3. Distinct(rest)
  BY <1>1, <1>2 DEF Distinct
<1>4. ASSUME NEW u \in Tasks
      PROVE  In(rest, u) <=> \E i \in (n + 1)..Len(q) : q[i] = u
  <2>1. ASSUME In(rest, u) PROVE \E i \in (n + 1)..Len(q) : q[i] = u
    <3>1. PICK i \in 1..(Len(q) - n) : rest[i] = u
      BY <1>2, <2>1 DEF In
    <3>2. n + i \in (n + 1)..Len(q) /\ q[n + i] = u
      BY <1>1, <1>2, <3>1
    <3> QED BY <3>2
  <2>2. ASSUME NEW i \in (n + 1)..Len(q), q[i] = u PROVE In(rest, u)
    <3>1. i - n \in 1..Len(rest) /\ rest[i - n] = u
      BY <1>1, <1>2, <2>2
    <3> QED BY <3>1 DEF In
  <2> QED BY <2>1, <2>2
<1>5. ASSUME NEW u \in Tasks, In(rest, u) PROVE ~\E i \in 1..n : q[i] = u
  BY <1>1, <1>4, <1>5 DEF Distinct
<1>6. ASSUME NEW u \in Tasks
      PROVE  In(q, u) <=> In(rest, u) \/ \E i \in 1..n : q[i] = u
  BY <1>1, <1>4 DEF In
<1> QED BY <1>2, <1>3, <1>4, <1>5, <1>6 DEF rest

-----------------------------------------------------------------------------
(* The binary search of enqueue().  The library's induction theorems take  *)
(* an operator as their parameter, so induction is stated over sets here,  *)
(* from the well-foundedness of strict inclusion on finite sets.           *)

\* Induction in the form the provers can use, without an operator parameter:
\* a nonempty set of natural numbers has a least element.
LEMMA LeastElement ==
    ASSUME NEW S \in SUBSET Nat, S # {}
    PROVE  \E m \in S : \A n \in S : m <= n
<1> DEFINE R == StrictSubsetOrdering(Nat)
           F == FiniteSubsetsOf(Nat)
           T == {0..n : n \in S}
<1>1. IsWellFoundedOn(R, F)
  BY FS_StrictSubsetOrderingWellFounded
<1>2. T \subseteq F /\ T # {}
  <2>1. ASSUME NEW n \in S PROVE 0..n \in F
    <3>1. n \in Nat /\ IsFiniteSet(0..n)
      BY FS_Interval
    <3> QED BY <3>1 DEF FiniteSubsetsOf
  <2> HIDE DEF F
  <2> QED BY <2>1
<1>3. \E x \in T : \A y \in T : ~(<<y, x>> \in R)
  <2> HIDE DEF R, F, T
  <2> QED BY <1>1, <1>2, WFMin
<1>4. PICK m \in S : \A n \in S : ~(<<0..n, 0..m>> \in R)
  <2> HIDE DEF R
  <2> QED BY <1>3
<1>5. ASSUME NEW n \in S, n < m PROVE FALSE
  <2>1. 0..n \subseteq 0..m /\ 0..n # 0..m /\ 0..n \subseteq Nat /\ 0..m \subseteq Nat
    <3>1. m \in 0..m /\ m \notin 0..n
      BY <1>5
    <3>2. 0..n \subseteq 0..m /\ 0..n \subseteq Nat /\ 0..m \subseteq Nat
      BY <1>5
    <3> QED BY ONLY <3>1, <3>2
  <2>2. <<0..n, 0..m>> \in R
    <3> DEFINE a == 0..n
               b == 0..m
    <3> HIDE DEF a, b
    <3>1. a \subseteq b /\ a # b /\ a \subseteq Nat /\ b \subseteq Nat
      BY <2>1 DEF a, b
    <3>2. <<a, b>> \in R
      BY <3>1 DEF StrictSubsetOrdering
    <3> QED BY <3>2 DEF a, b
  <2> QED BY <2>2, <1>4
<1> QED BY <1>5

\* A set of numbers up to N that holds 0 and each successor holds them all.
LEMMA CountUp ==
    ASSUME NEW N \in Nat, NEW S, 0 \in S, \A k \in 1..N : k - 1 \in S => k \in S
    PROVE  0..N \subseteq S
<1> DEFINE Out == {k \in 0..N : k \notin S}
<1>1. ASSUME Out # {} PROVE FALSE
  <2>1. Out \in SUBSET Nat
    OBVIOUS
  <2>2. PICK m \in Out : \A n \in Out : m <= n
    BY <1>1, <2>1, LeastElement
  <2>3. m # 0 /\ m \in 1..N /\ m - 1 \in 0..N
    BY <2>2
  <2>4. m - 1 \in S
    BY <2>2, <2>3
  <2> QED BY <2>2, <2>3, <2>4
<1> QED BY <1>1

\* f is the function of the bounds after up to N rounds, from b0 on.
AreBounds(f, prios, p, b0, N) ==
    f = [k \in 0..N |-> IF k = 0 THEN b0 ELSE Narrow(prios, p, f[k - 1])]

\* The function that Search defines by recursion exists.
LEMMA BoundsDefined ==
    ASSUME NEW prios, NEW p, NEW b0, NEW N \in Nat
    PROVE  \E f : AreBounds(f, prios, p, b0, N)
<1> DEFINE Is(f, n) == AreBounds(f, prios, p, b0, n)
           S == {n \in Nat : \E f : Is(f, n)}
<1>1. 0 \in S
  <2> DEFINE f == [k \in 0..0 |-> b0]
  <2>1. Is(f, 0)
    BY DEF AreBounds
  <2> QED BY <2>1
<1>2. ASSUME NEW n \in 1..N, n - 1 \in S PROVE n \in S
  <2>1. PICK f : Is(f, n - 1)
    BY <1>2
  <2> DEFINE g == [k \in 0..n |-> IF k = n THEN Narrow(prios, p, f[n - 1]) ELSE f[k]]
  <2>2. ASSUME NEW k \in 0..n
        PROVE  g[k] = IF k = 0 THEN b0 ELSE Narrow(prios, p, g[k - 1])
    <3>1. CASE k = n
      BY <3>1
    <3>2. CASE k # n
      <4>1. k \in 0..(n - 1) /\ (k # 0 => k - 1 \in 0..n /\ k - 1 # n)
        BY <3>2
      <4>2. g[k] = f[k] /\ (k # 0 => g[k - 1] = f[k - 1])
        BY <3>2, <4>1
      <4>3. f[k] = IF k = 0 THEN b0 ELSE Narrow(prios, p, f[k - 1])
        BY <2>1, <4>1 DEF AreBounds
      <4> QED BY <4>2, <4>3
    <3> QED BY <3>1, <3>2
  <2>3. Is(g, n)
    <3> DEFINE h == [k \in 0..n |-> IF k = 0 THEN b0 ELSE Narrow(prios, p, g[k - 1])]
    <3>1. g = h
      BY <2>2
    <3> QED BY <3>1 DEF AreBounds
  <2> HIDE DEF g
  <2>4. \E h : Is(h, n)
    BY <2>3
  <2> QED BY <2>4
<1>3. N \in S
  <2> HIDE DEF S
  <2>1. 0..N \subseteq S
    BY <1>1, <1>2, CountUp
  <2> QED BY <2>1
<1> QED BY <1>3

\* What is known of the bounds after k rounds over a queue of falling
\* priorities: all before lo are higher than p, none from hi on is.
Between(prios, p, b) ==
    /\ b \in [lo : 0..Len(prios), hi : 0..Len(prios)] /\ b.lo <= b.hi
    /\ \A i \in 1..b.lo : prios[i] > p
    /\ \A i \in (b.hi + 1)..Len(prios) : prios[i] <= p

LEMMA NarrowKeeps ==
    ASSUME NEW prios \in Seq(Nat), NEW p \in Nat, NEW b, Between(prios, p, b),
           \A i, j \in 1..Len(prios) : i < j => prios[i] >= prios[j]
    PROVE  LET c == Narrow(prios, p, b)
           IN /\ Between(prios, p, c)
              /\ IF b.lo = b.hi THEN c = b ELSE c.hi - c.lo < b.hi - b.lo
<1> DEFINE L == Len(prios)
           mid == (b.lo + b.hi) \div 2
<1>1. L \in Nat /\ b.lo \in 0..L /\ b.hi \in 0..L /\ b.lo <= b.hi
  BY DEF Between
<1>2. CASE b.lo = b.hi
  BY <1>1, <1>2 DEF Narrow
<1>3. CASE b.lo < b.hi
  <2>1. mid \in 0..(L - 1) /\ b.lo <= mid /\ mid < b.hi
    BY <1>1, <1>3, SMTT(30)
  <2> HIDE DEF mid
  <2>2. mid + 1 \in 1..L /\ prios[mid + 1] \in Nat
    BY <1>1, <2>1
  <2>3. CASE prios[mid + 1] > p
    <3> DEFINE c == [b EXCEPT !.lo = mid + 1]
    <3>1. Narrow(prios, p, b) = c
      BY <1>1, <1>3, <2>3 DEF Narrow, Before, mid
    <3>2. c \in [lo : 0..L, hi : 0..L] /\ c.lo = mid + 1 /\ c.hi = b.hi
      BY <2>1, SMTT(30) DEF Between
    <3>3. ASSUME NEW i \in 1..(mid + 1) PROVE prios[i] > p
      <4>1. i \in 1..L /\ prios[i] \in Nat /\ prios[i] >= prios[mid + 1]
        BY <1>1, <2>1, <2>2, SMTT(30)
      <4> QED BY <2>2, <2>3, <4>1
    <3> HIDE DEF c
    <3>4. Between(prios, p, c)
      BY <1>1, <2>1, <3>2, <3>3 DEF Between
    <3>5. c.hi - c.lo < b.hi - b.lo
      BY <1>1, <2>1, <3>2
    <3> QED BY <1>1, <1>3, <3>1, <3>4, <3>5
  <2>4. CASE ~(prios[mid + 1] > p)
    <3> DEFINE c == [b EXCEPT !.hi = mid]
    <3>1. Narrow(prios, p, b) = c
      BY <1>1, <1>3, <2>4 DEF Narrow, Before, mid
    <3>2. c \in [lo : 0..L, hi : 0..L] /\ c.lo = b.lo /\ c.hi = mid
      BY <2>1 DEF Between
    <3>3. ASSUME NEW i \in (mid + 1)..L PROVE prios[i] <= p
      <4>1. i \in 1..L /\ prios[i] \in Nat /\ prios[mid + 1] >= prios[i]
        BY <1>1, <2>1, <2>2, SMTT(30)
      <4> QED BY <2>2, <2>4, <4>1
    <3> HIDE DEF c
    <3>4. Between(prios, p, c)
      BY <1>1, <2>1, <3>2, <3>3 DEF Between
    <3>5. c.hi - c.lo < b.hi - b.lo
      BY <1>1, <2>1, <3>2
    <3> QED BY <1>1, <1>3, <3>1, <3>4, <3>5
  <2> QED BY <2>3, <2>4
<1> QED BY <1>1, <1>2, <1>3

\* The binary search of enqueue() ends, within Len(prios) rounds, at the slot
\* behind the higher priorities and before all others.
LEMMA SearchCorrect ==
    ASSUME NEW prios \in Seq(Nat), NEW p \in Nat,
           \A i, j \in 1..Len(prios) : i < j => prios[i] >= prios[j]
    PROVE  LET b == Search(prios, p) IN b.lo = b.hi /\ Between(prios, p, b)
<1> DEFINE N == Len(prios) + 1
           b0 == [lo |-> 0, hi |-> Len(prios)]
           Bounds[k \in 0..N] == IF k = 0 THEN b0 ELSE Narrow(prios, p, Bounds[k - 1])
           S == {k \in 0..N : /\ Between(prios, p, Bounds[k])
                              /\ \/ Bounds[k].lo = Bounds[k].hi
                                 \/ Bounds[k].hi - Bounds[k].lo + k <= Len(prios)}
<1>1. Len(prios) \in Nat /\ N \in Nat /\ N \in 0..N /\ 0 \in 0..N
  OBVIOUS
<1>2. Search(prios, p) = Bounds[N]
  BY DEF Search
<1>3. Bounds[0] = b0 /\ \A k \in 1..N : Bounds[k] = Narrow(prios, p, Bounds[k - 1])
  <2>1. \E f : AreBounds(f, prios, p, b0, N)
    BY <1>1, BoundsDefined
  <2>2. Bounds = [k \in 0..N |-> IF k = 0 THEN b0 ELSE Narrow(prios, p, Bounds[k - 1])]
    BY <2>1 DEF AreBounds
  <2> HIDE DEF Bounds, b0, N
  <2> QED BY <1>1, <2>2
<1> HIDE DEF Bounds
<1>4. 0 \in S
  BY <1>1, <1>3 DEF Between
<1>5. ASSUME NEW k \in 1..N, k - 1 \in S PROVE k \in S
  <2> DEFINE b == Bounds[k - 1]
             c == Bounds[k]
  <2>1. Between(prios, p, b) /\ (b.lo = b.hi \/ b.hi - b.lo + (k - 1) <= Len(prios))
    BY <1>5
  <2>2. c = Narrow(prios, p, b)
    BY <1>3
  <2> HIDE DEF b, c
  <2>3. Between(prios, p, c) /\ IF b.lo = b.hi THEN c = b ELSE c.hi - c.lo < b.hi - b.lo
    BY <2>1, <2>2, NarrowKeeps
  <2>4. c.lo = c.hi \/ c.hi - c.lo + k <= Len(prios)
    BY <1>1, <2>1, <2>3 DEF Between
  <2> QED BY <2>3, <2>4 DEF c
<1> HIDE DEF S
<1>6. N \in S
  BY <1>1, <1>4, <1>5, CountUp
<1>7. Between(prios, p, Bounds[N]) /\ (Bounds[N].lo = Bounds[N].hi \/ Bounds[N].hi - Bounds[N].lo + N <= Len(prios))
  BY <1>6 DEF S
<1>8. Bounds[N].lo = Bounds[N].hi
  BY <1>1, <1>7 DEF Between
<1> QED BY <1>2, <1>7, <1>8

-----------------------------------------------------------------------------
(* Dispatching *)

\* dispatchNext() keeps the types and the places of all tasks: a task that
\* leaves the queue is in flight, and no other task moves.
LEMMA DispatchKeeps ==
    ASSUME NEW q, NEW st, NEW c, NEW r, pool \subseteq Workers,
           TypeOf(q, st, c, r), Held(q, c, r), DispatchNext(q, st, c, r)
    PROVE  /\ TypeOf(queue', wstat', cur', runOn')
           /\ Held(queue', cur', runOn')
           /\ \A t \in Tasks : In(queue', t) \/ runOn'[t] # NoWorker
                                 <=> In(q, t) \/ r[t] # NoWorker
<1>1. CASE queue' = q /\ wstat' = st /\ cur' = c /\ runOn' = r
  BY <1>1
<1>2. CASE /\ q # <<>>
           /\ \E w \in Idle(st) :
                /\ queue' = Tail(q)
                /\ wstat' = [st EXCEPT ![w] = "busy"]
                /\ cur' = [c EXCEPT ![w] = Head(q)]
                /\ runOn' = [r EXCEPT ![Head(q)] = w]
  <2>1. PICK w \in Workers :
           /\ queue' = Tail(q)
           /\ wstat' = [st EXCEPT ![w] = "busy"]
           /\ cur' = [c EXCEPT ![w] = Head(q)]
           /\ runOn' = [r EXCEPT ![Head(q)] = w]
    BY <1>2 DEF Idle
  <2>2. /\ Len(q) \in Nat /\ Len(q) >= 1 /\ 1 \in 0..Len(q)
        /\ Tail(q) = SubSeq(q, 2, Len(q)) /\ Head(q) = q[1] /\ q[1] \in Tasks
    BY <1>2 DEF TypeOf
  <2>3. /\ Tail(q) \in Seq(Tasks) /\ Distinct(Tail(q))
        /\ \A u \in Tasks : In(Tail(q), u) => q[1] # u
        /\ \A u \in Tasks : In(q, u) <=> In(Tail(q), u) \/ q[1] = u
    <3> DEFINE rest == SubSeq(q, 1 + 1, Len(q))
    <3>1. q \in Seq(Tasks) /\ Distinct(q)
      BY DEF TypeOf, Held
    <3>2. /\ rest \in Seq(Tasks) /\ Distinct(rest)
          /\ \A u \in Tasks : In(rest, u) => ~\E i \in 1..1 : q[i] = u
          /\ \A u \in Tasks : In(q, u) <=> In(rest, u) \/ \E i \in 1..1 : q[i] = u
      BY <2>2, <3>1, SuffixDistinct
    <3>3. Tail(q) = rest
      BY <2>2
    <3> HIDE DEF rest
    <3>4. \A u \in Tasks : (\E i \in 1..1 : q[i] = u) <=> q[1] = u
      OBVIOUS
    <3> QED BY <3>2, <3>3, <3>4
  <2>4. TypeOf(queue', wstat', cur', runOn')
    BY <2>1, <2>2, <2>3 DEF TypeOf
  <2>5. In(q, q[1]) /\ r[q[1]] = NoWorker
    BY <2>2, <2>3 DEF Held
  <2>6. \A t \in Tasks : runOn'[t] = IF t = q[1] THEN w ELSE r[t]
    BY <2>1, <2>2 DEF TypeOf
  <2>7. \A t \in Tasks : In(queue', t) => runOn'[t] = NoWorker
    BY <2>1, <2>3, <2>6 DEF Held
  <2>8. \A v \in Workers : cur'[v] = IF v = w THEN q[1] ELSE c[v]
    BY <2>1, <2>2 DEF TypeOf
  <2>9. \A v \in Workers : cur'[v] # NoTask => runOn'[cur'[v]] = v
    <3>1. ASSUME NEW v \in Workers, cur'[v] # NoTask, v # w
          PROVE  runOn'[cur'[v]] = v
      <4>1. cur'[v] = c[v] /\ c[v] \in Tasks /\ r[c[v]] = v
        BY <2>8, <3>1 DEF Held, TypeOf
      <4>2. c[v] # q[1]
        BY <2>5, <4>1, PoolAssumption DEF PoolAssumption
      <4> QED BY <2>6, <4>1, <4>2
    <3> QED BY <2>2, <2>6, <2>8, <3>1
  <2>10. Held(queue', cur', runOn')
    BY <2>1, <2>3, <2>7, <2>9 DEF Held
  <2>11. ASSUME NEW t \in Tasks
         PROVE  In(queue', t) \/ runOn'[t] # NoWorker <=> In(q, t) \/ r[t] # NoWorker
    <3>1. w # NoWorker
      BY PoolAssumption DEF PoolAssumption
    <3> QED BY <2>1, <2>3, <2>6, <3>1
  <2> QED BY <2>4, <2>10, <2>11
<1> QED BY <1>1, <1>2 DEF DispatchNext

\* The same for a worker that becomes free first (onTaskComplete).
LEMMA CompleteKeeps ==
    ASSUME NEW w \in Workers, NEW q, NEW r, pool \subseteq Workers,
           TypeOf(q, wstat, cur, r), Held(q, [cur EXCEPT ![w] = NoTask], r),
           TaskComplete(w, q, r)
    PROVE  /\ TypeOf(queue', wstat', cur', runOn')
           /\ Held(queue', cur', runOn')
           /\ \A t \in Tasks : In(queue', t) \/ runOn'[t] # NoWorker
                                 <=> In(q, t) \/ r[t] # NoWorker
<1>1. TypeOf(q, [wstat EXCEPT ![w] = "idle"], [cur EXCEPT ![w] = NoTask], r)
  BY DEF TypeOf
<1> QED BY <1>1, DispatchKeeps DEF TaskComplete
\* The queue is ordered by falling priority.
Sorted(q) == \A i, j \in 1..Len(q) : i < j => Prio[q[i]] >= Prio[q[j]]

\* Inserting a task at its slot keeps the queue ordered.
LEMMA InsertSorted ==
    ASSUME NEW q \in Seq(Tasks), NEW t \in Tasks, NEW p \in 1..(Len(q) + 1),
           IsSlot(q, t, p), Sorted(q)
    PROVE  Sorted(InsertAt(q, p, t))
<1> DEFINE new == InsertAt(q, p, t)
<1>1. /\ Len(new) = Len(q) + 1 /\ Len(q) \in Nat
      /\ \A i \in 1..(Len(q) + 1) :
           new[i] = IF i < p THEN q[i] ELSE IF i = p THEN t ELSE q[i - 1]
  BY InsertAtElements
<1> HIDE DEF new
<1>2. \A u \in Tasks : Prio[u] \in Nat
  BY PoolAssumption DEF PoolAssumption
<1>3. \A i \in 1..Len(q) : q[i] \in Tasks
  OBVIOUS
<1>4. ASSUME NEW i \in 1..(Len(q) + 1), NEW j \in 1..(Len(q) + 1), i < j
      PROVE  Prio[new[i]] >= Prio[new[j]]
  <2>1. CASE j < p
    <3>1. new[i] = q[i] /\ new[j] = q[j] /\ i \in 1..Len(q) /\ j \in 1..Len(q)
      BY <1>1, <1>4, <2>1
    <3> QED BY <1>4, <3>1 DEF Sorted
  <2>2. CASE j = p
    <3>1. new[i] = q[i] /\ new[j] = t /\ i \in 1..Len(q) /\ i \in 1..(p - 1)
      BY <1>1, <1>4, <2>2
    <3>2. Prio[q[i]] > Prio[t]
      BY <3>1 DEF IsSlot
    <3> QED BY <1>2, <1>3, <3>1, <3>2
  <2>3. CASE j > p /\ i = p
    <3>1. new[i] = t /\ new[j] = q[j - 1] /\ j - 1 \in p..Len(q) /\ j - 1 \in 1..Len(q)
      BY <1>1, <1>4, <2>3
    <3>2. Prio[q[j - 1]] <= Prio[t]
      BY <3>1 DEF IsSlot
    <3> QED BY <1>2, <1>3, <3>1, <3>2
  <2>4. CASE j > p /\ i < p
    <3>1. new[i] = q[i] /\ new[j] = q[j - 1] /\ i \in 1..Len(q) /\ i \in 1..(p - 1)
          /\ j - 1 \in p..Len(q) /\ j - 1 \in 1..Len(q)
      BY <1>1, <1>4, <2>4
    <3>2. Prio[q[i]] > Prio[t] /\ Prio[t] >= Prio[q[j - 1]]
      BY <1>2, <1>3, <3>1 DEF IsSlot
    <3> QED BY <1>2, <1>3, <3>1, <3>2
  <2>5. CASE i > p
    <3>1. new[i] = q[i - 1] /\ new[j] = q[j - 1] /\ i - 1 \in 1..Len(q) /\ j - 1 \in 1..Len(q)
          /\ i - 1 < j - 1
      BY <1>1, <1>4, <2>5
    <3> QED BY <3>1 DEF Sorted
  <2> QED BY <1>1, <1>4, <2>1, <2>2, <2>3, <2>4, <2>5
<1> QED BY <1>1, <1>4 DEF Sorted, new

\* What is left of an ordered queue is ordered, and ranks below what is taken.
LEMMA SuffixSorted ==
    ASSUME NEW q \in Seq(Tasks), NEW n \in 0..Len(q), Sorted(q)
    PROVE  LET rest == SubSeq(q, n + 1, Len(q))
           IN /\ Sorted(rest)
              /\ \A i \in 1..n, j \in 1..Len(rest) : Prio[rest[j]] <= Prio[q[i]]
<1> DEFINE rest == SubSeq(q, n + 1, Len(q))
<1>1. Len(q) \in Nat /\ n \in Nat /\ n <= Len(q)
  OBVIOUS
<1>2. /\ Len(rest) = Len(q) - n
      /\ \A i \in 1..(Len(q) - n) : rest[i] = q[n + i]
  BY <1>1
<1> HIDE DEF rest
<1>3. Sorted(rest)
  <2>1. ASSUME NEW i \in 1..Len(rest), NEW j \in 1..Len(rest), i < j
        PROVE  Prio[rest[i]] >= Prio[rest[j]]
    <3>1. /\ rest[i] = q[n + i] /\ rest[j] = q[n + j] /\ n + i < n + j
          /\ n + i \in 1..Len(q) /\ n + j \in 1..Len(q)
      BY <1>1, <1>2, <2>1
    <3> QED BY <3>1 DEF Sorted
  <2> QED BY <2>1 DEF Sorted
<1>4. ASSUME NEW i \in 1..n, NEW j \in 1..Len(rest)
      PROVE  Prio[rest[j]] <= Prio[q[i]]
  <2>1. rest[j] = q[n + j] /\ i < n + j /\ i \in 1..Len(q) /\ n + j \in 1..Len(q)
    BY <1>1, <1>2
  <2>2. Prio[q[i]] \in Nat /\ Prio[q[n + j]] \in Nat
    BY <2>1, PoolAssumption DEF PoolAssumption
  <2>3. Prio[q[i]] >= Prio[q[n + j]]
    BY <2>1 DEF Sorted
  <2> QED BY <2>1, <2>2, <2>3
<1> QED BY <1>3, <1>4 DEF rest

\* dispatchNext() keeps the queue ordered, and what it starts ranks at least
\* as high as all it leaves.
LEMMA DispatchSorted ==
    ASSUME NEW q \in Seq(Tasks), NEW st, NEW c, NEW r, Sorted(q), DispatchNext(q, st, c, r)
    PROVE  /\ Sorted(queue')
           /\ \A t \in Tasks : runOn'[t] # r[t] =>
                \A i \in 1..Len(queue') : Prio[queue'[i]] <= Prio[t]
<1>1. CASE queue' = q /\ runOn' = r
  BY <1>1
<1>2. CASE q # <<>> /\ \E w \in Idle(st) : queue' = Tail(q) /\ runOn' = [r EXCEPT ![Head(q)] = w]
  <2> DEFINE rest == SubSeq(q, 1 + 1, Len(q))
  <2>1. /\ Len(q) \in Nat /\ Len(q) >= 1 /\ 1 \in 0..Len(q)
        /\ Tail(q) = rest /\ Head(q) = q[1] /\ q[1] \in Tasks
    BY <1>2
  <2>2. Sorted(rest) /\ \A i \in 1..1, j \in 1..Len(rest) : Prio[rest[j]] <= Prio[q[i]]
    BY <2>1, SuffixSorted
  <2>3. queue' = rest
    BY <1>2, <2>1
  <2> HIDE DEF rest
  <2>4. \A t \in Tasks : runOn'[t] # r[t] => t = q[1]
    BY <1>2, <2>1
  <2> QED BY <2>2, <2>3, <2>4
<1> QED BY <1>1, <1>2 DEF DispatchNext

-----------------------------------------------------------------------------
(* The inductive invariant *)

Here(t) == In(queue, t) \/ runOn[t] # NoWorker

Rest ==
    /\ running \in BOOLEAN /\ stopPending \in BOOLEAN
    /\ drain \subseteq Workers /\ pool \subseteq Workers
    /\ retries \in [Tasks -> 0..MaxRetries]
    /\ promise \in [Tasks -> {"none", "pending", "resolved", "rejected"}]

Places == TypeOf(queue, wstat, cur, runOn) /\ Held(queue, cur, runOn)

\* A pending task is somewhere, one that was not submitted is nowhere.
Answers == \A t \in Tasks : /\ promise[t] = "pending" => Here(t)
                            /\ promise[t] = "none" => ~Here(t)

IInv == Rest /\ Places /\ Answers

LEMMA IInvImplies == IInv => (long \subseteq LongTasks => TypeOK) /\ TaskHeldOnce /\ NoLostTask
  BY DEF IInv, Rest, Places, Answers, Here, TypeOK, TaskHeldOnce, NoLostTask, TypeOf,
         Held, Distinct, In, InQueue, Running

LEMMA InitIInv == Init => IInv
<1> SUFFICES ASSUME Init PROVE IInv
  OBVIOUS
<1>1. 0 \in 0..MaxRetries
  BY PoolAssumption DEF PoolAssumption
<1>2. Rest
  BY <1>1 DEF Init, Rest
<1>3. Len(queue) = 0 /\ queue \in Seq(Tasks) /\ \A t \in Tasks : ~In(queue, t)
  BY DEF Init, In
<1>4. Places
  BY <1>3 DEF Init, Places, TypeOf, Held, Distinct
<1>5. Answers
  BY <1>3 DEF Init, Answers, Here
<1> QED BY <1>2, <1>4, <1>5 DEF IInv

\* A step that leaves queue, workers and executions alone, except for new
\* workers, which nothing runs on.
LEMMA SpawnKeeps ==
    ASSUME IInv, NEW new \in SUBSET Unused, UNCHANGED <<queue, runOn>>,
           wstat' \in [Workers -> {"idle", "busy", "draining", "dead"}],
           cur' = [w \in Workers |-> IF w \in new THEN NoTask ELSE cur[w]]
    PROVE  Places'
  BY DEF IInv, Places, TypeOf, Held

LEMMA StartIInv == IInv /\ Start => IInv'
<1> SUFFICES ASSUME IInv, Start PROVE IInv'
  OBVIOUS
<1>1. PICK new \in SUBSET Unused :
         /\ pool' = pool \cup new
         /\ wstat' = [w \in Workers |-> IF w \in new THEN "idle" ELSE wstat[w]]
         /\ cur' = [w \in Workers |-> IF w \in new THEN NoTask ELSE cur[w]]
  BY DEF Start
<1>2. wstat' \in [Workers -> {"idle", "busy", "draining", "dead"}]
  BY <1>1 DEF IInv, Places, TypeOf
<1>3. Places'
  BY <1>1, <1>2, SpawnKeeps DEF Start
<1>4. Rest'
  BY <1>1 DEF Start, IInv, Rest, Unused
<1>5. Answers'
  BY DEF Start, IInv, Answers, Here, In
<1> QED BY <1>3, <1>4, <1>5 DEF IInv

LEMMA AutoScaleIInv == IInv /\ AutoScale => IInv'
<1> SUFFICES ASSUME IInv, AutoScale PROVE IInv'
  OBVIOUS
<1>1. PICK new \in SUBSET Unused, expired \in SUBSET Idle(wstat) :
         /\ pool' = (pool \cup new) \ expired
         /\ wstat' = [w \in Workers |-> IF w \in new THEN "idle"
                                        ELSE IF w \in expired THEN "dead" ELSE wstat[w]]
         /\ cur' = [w \in Workers |-> IF w \in new THEN NoTask ELSE cur[w]]
  BY DEF AutoScale
<1>2. wstat' \in [Workers -> {"idle", "busy", "draining", "dead"}]
  BY <1>1 DEF IInv, Places, TypeOf
<1>3. Places'
  BY <1>1, <1>2, SpawnKeeps DEF AutoScale
<1>4. Rest'
  BY <1>1 DEF AutoScale, IInv, Rest, Unused
<1>5. Answers'
  BY DEF AutoScale, IInv, Answers, Here, In
<1> QED BY <1>3, <1>4, <1>5 DEF IInv

LEMMA StopIInv == IInv /\ Stop => IInv'
<1> SUFFICES ASSUME IInv, Stop PROVE IInv'
  OBVIOUS
<1>1. /\ queue' = <<>> /\ cur' = cur /\ runOn' = runOn
      /\ \A t \in Tasks : promise'[t] = IF InQueue(t) /\ promise[t] = "pending"
                                        THEN "rejected" ELSE promise[t]
  BY DEF Stop, RejectQueue
<1>2. Len(queue') = 0 /\ queue' \in Seq(Tasks) /\ \A t \in Tasks : ~In(queue', t)
  BY <1>1 DEF In
<1>3. Rest'
  BY DEF Stop, RejectQueue, IInv, Rest
<1>4. Places'
  <2>1. wstat' \in [Workers -> {"idle", "busy", "draining", "dead"}]
    BY DEF Stop, IInv, Places, TypeOf
  <2> QED BY <1>1, <1>2, <2>1 DEF IInv, Places, TypeOf, Held, Distinct
<1>5. Answers'
  BY <1>1, <1>2 DEF IInv, Answers, Here, InQueue, In
<1> QED BY <1>3, <1>4, <1>5 DEF IInv

LEMMA DrainIInv ==
    ASSUME IInv, NEW w \in Workers, Drained(w) \/ ForceKill(w)
    PROVE  IInv'
<1>1. /\ UNCHANGED <<queue, cur, runOn, retries, promise, running>>
      /\ pool' \subseteq pool /\ drain' \subseteq drain /\ stopPending' = stopPending
      /\ wstat' \in [Workers -> {"idle", "busy", "draining", "dead"}]
  BY DEF Drained, ForceKill, Retire, IInv, Rest, Places, TypeOf
<1>2. Rest' /\ Places' /\ Answers'
  BY <1>1 DEF IInv, Rest, Places, TypeOf, Held, Answers, Here, In
<1> QED BY <1>2 DEF IInv

LEMMA SubmitIInv == ASSUME IInv, NEW t \in Tasks, Submit(t) PROVE IInv'
<1>1. PICK p \in 1..(Len(queue) + 1) :
         DispatchNext(InsertAt(queue, p, t), wstat, cur, runOn)
  BY DEF Submit
<1> DEFINE q == InsertAt(queue, p, t)
<1>2. promise' = [promise EXCEPT ![t] = "pending"] /\ ~Here(t)
  BY DEF Submit, IInv, Answers
<1>3. q \in Seq(Tasks) /\ Distinct(q) /\ \A u \in Tasks : In(q, u) <=> In(queue, u) \/ u = t
  BY <1>2, InsertAtElements, InsertDistinct DEF IInv, Places, TypeOf, Held, Here
<1> HIDE DEF q
<1>4. TypeOf(q, wstat, cur, runOn) /\ Held(q, cur, runOn)
  BY <1>2, <1>3 DEF IInv, Places, TypeOf, Held, Here
<1>5. pool \subseteq Workers /\ DispatchNext(q, wstat, cur, runOn)
  BY <1>1 DEF q, IInv, Rest
<1>6. Places' /\ \A u \in Tasks : Here(u)' <=> In(q, u) \/ runOn[u] # NoWorker
  BY <1>4, <1>5, DispatchKeeps DEF Places, Here
<1>7. Rest'
  BY DEF Submit, IInv, Rest
<1>8. Answers'
  BY <1>2, <1>3, <1>6 DEF IInv, Rest, Answers, Here
<1> QED BY <1>6, <1>7, <1>8 DEF IInv

\* What an execution of t leaves behind when it ends: t is nowhere.
LEMMA Released ==
    ASSUME IInv, NEW t \in Tasks, Running(t)
    PROVE  LET w == runOn[t]
               r == [runOn EXCEPT ![t] = NoWorker]
           IN /\ w \in Workers /\ pool \subseteq Workers
              /\ ~In(queue, t)
              /\ TypeOf(queue, wstat, cur, r)
              /\ Held(queue, [cur EXCEPT ![w] = NoTask], r)
              /\ r[t] = NoWorker
              /\ \A u \in Tasks : u # t => r[u] = runOn[u]
  BY DEF IInv, Rest, Places, TypeOf, Held, Running

LEMMA EndIInv ==
    ASSUME IInv, NEW t \in Tasks, Succeed(t) \/ FailFinal(t)
    PROVE  IInv'
<1> DEFINE w == runOn[t]
           r == [runOn EXCEPT ![t] = NoWorker]
<1>1. /\ Running(t) /\ TaskComplete(w, queue, r)
      /\ promise' \in {Settled(promise, t, "resolved"), Settled(promise, t, "rejected")}
      /\ UNCHANGED <<running, stopPending, drain, pool, retries>>
  BY DEF Succeed, FailFinal
<1>2. /\ w \in Workers /\ pool \subseteq Workers /\ ~In(queue, t)
      /\ TypeOf(queue, wstat, cur, r) /\ Held(queue, [cur EXCEPT ![w] = NoTask], r)
      /\ r[t] = NoWorker /\ \A u \in Tasks : u # t => r[u] = runOn[u]
  BY <1>1, Released
<1>3. /\ promise' \in [Tasks -> {"none", "pending", "resolved", "rejected"}]
      /\ promise'[t] # "pending" /\ promise[t] # "none" /\ (promise'[t] = "none" => promise[t] = "none")
      /\ \A u \in Tasks : u # t => promise'[u] = promise[u]
  BY <1>1 DEF Settled, IInv, Rest, Answers, Here, Running
<1> HIDE DEF w, r
<1>4. Places' /\ \A u \in Tasks : Here(u)' <=> In(queue, u) \/ r[u] # NoWorker
  BY <1>1, <1>2, CompleteKeeps DEF Places, Here
<1>5. Rest'
  BY <1>1, <1>3 DEF IInv, Rest
<1>6. Answers'
  BY <1>2, <1>3, <1>4 DEF IInv, Answers, Here
<1> QED BY <1>4, <1>5, <1>6 DEF IInv

LEMMA RetryIInv == ASSUME IInv, NEW t \in Tasks, FailRetry(t) PROVE IInv'
<1> DEFINE w == runOn[t]
           r == [runOn EXCEPT ![t] = NoWorker]
<1>1. PICK p \in 1..(Len(queue) + 1) : TaskComplete(w, InsertAt(queue, p, t), r)
  BY DEF FailRetry
<1> DEFINE q == InsertAt(queue, p, t)
<1>2. Running(t) /\ UNCHANGED <<running, stopPending, drain, pool, promise>>
  BY DEF FailRetry
<1>3. /\ w \in Workers /\ pool \subseteq Workers /\ ~In(queue, t)
      /\ TypeOf(queue, wstat, cur, r) /\ Held(queue, [cur EXCEPT ![w] = NoTask], r)
      /\ r[t] = NoWorker /\ \A u \in Tasks : u # t => r[u] = runOn[u]
  BY <1>2, Released
<1>4. q \in Seq(Tasks) /\ Distinct(q) /\ \A u \in Tasks : In(q, u) <=> In(queue, u) \/ u = t
  BY <1>3, InsertAtElements, InsertDistinct DEF TypeOf, Held
<1>5. TaskComplete(w, q, r)
  BY <1>1
<1>6. promise[t] # "none"
  BY <1>2 DEF IInv, Answers, Here, Running
<1>7. Rest'
  <2>1. retries' = [retries EXCEPT ![t] = retries[t] + 1] /\ retries[t] < MaxRetries
    BY DEF FailRetry, MayRetry
  <2>2. retries[t] + 1 \in 0..MaxRetries
    BY <2>1, PoolAssumption DEF IInv, Rest, PoolAssumption
  <2> QED BY <1>2, <2>1, <2>2 DEF IInv, Rest
<1> HIDE DEF w, r, q
<1>8. TypeOf(q, wstat, cur, r) /\ Held(q, [cur EXCEPT ![w] = NoTask], r)
  BY <1>3, <1>4 DEF TypeOf, Held
<1>9. Places' /\ \A u \in Tasks : Here(u)' <=> In(q, u) \/ r[u] # NoWorker
  BY <1>3, <1>5, <1>8, CompleteKeeps DEF Places, Here
<1>10. Answers'
  BY <1>2, <1>3, <1>4, <1>6, <1>9 DEF IInv, Answers, Here
<1> QED BY <1>7, <1>9, <1>10 DEF IInv
\* What healthCheck() does, without its bookkeeping: the first n queued tasks
\* go to as many workers that are stuck or idle.
Moved(stuck, n, to) ==
    /\ stuck \subseteq {w \in pool : MayBeStuck(w)}
    /\ \A i \in 1..n : to[i] \in stuck \cup Idle(wstat)
    /\ \A i, j \in 1..n : to[i] = to[j] => i = j
    /\ queue' = SubSeq(queue, n + 1, Len(queue))
    /\ promise' = [t \in Tasks |-> IF promise[t] = "pending" /\ \E w \in stuck : cur[w] = t
                                    THEN "rejected" ELSE promise[t]]
    /\ wstat' = [w \in Workers |-> IF \E i \in 1..n : to[i] = w THEN "busy"
                                    ELSE IF w \in stuck THEN "idle" ELSE wstat[w]]
    /\ cur' \in [Workers -> Tasks \cup {NoTask}]
    /\ runOn' \in [Tasks -> Workers \cup {NoWorker}]
    /\ \A i \in 1..n : runOn'[queue[i]] = to[i] /\ cur'[to[i]] = queue[i]
    /\ \A u \in Tasks : (~\E i \in 1..n : queue[i] = u) => runOn'[u] = runOn[u]
    /\ \A w \in Workers : (~\E i \in 1..n : to[i] = w)
                              => cur'[w] = IF w \in stuck THEN NoTask ELSE cur[w]

LEMMA HealthCheckMoves ==
    ASSUME IInv, HealthCheck
    PROVE  \E stuck, to : \E n \in 0..Len(queue) : Moved(stuck, n, to)
<1>1. PICK stuck \in SUBSET {w \in pool : MayBeStuck(w)} :
        LET free == stuck \cup Idle(wstat)
            n == Stealable(free)
        IN \E to \in Injection(1..n, free) :
             LET took(w) == {i \in 1..n : to[i] = w} IN
             /\ promise' = [t \in Tasks |->
                              IF promise[t] = "pending" /\ \E w \in stuck : cur[w] = t
                              THEN "rejected" ELSE promise[t]]
             /\ wstat' = [w \in Workers |-> IF took(w) # {} THEN "busy"
                                            ELSE IF w \in stuck THEN "idle" ELSE wstat[w]]
             /\ cur' = [w \in Workers |-> IF took(w) # {} THEN queue[CHOOSE i \in took(w) : TRUE]
                                          ELSE IF w \in stuck THEN NoTask ELSE cur[w]]
             /\ runOn' = [t \in Tasks |->
                            IF \E i \in 1..n : queue[i] = t
                            THEN to[CHOOSE i \in 1..n : queue[i] = t] ELSE runOn[t]]
             /\ queue' = SubSeq(queue, n + 1, Len(queue))
  BY DEF HealthCheck
<1> DEFINE free == stuck \cup Idle(wstat)
           n == Stealable(free)
<1>2. PICK to \in Injection(1..n, free) :
             LET took(w) == {i \in 1..n : to[i] = w} IN
             /\ promise' = [t \in Tasks |->
                              IF promise[t] = "pending" /\ \E w \in stuck : cur[w] = t
                              THEN "rejected" ELSE promise[t]]
             /\ wstat' = [w \in Workers |-> IF took(w) # {} THEN "busy"
                                            ELSE IF w \in stuck THEN "idle" ELSE wstat[w]]
             /\ cur' = [w \in Workers |-> IF took(w) # {} THEN queue[CHOOSE i \in took(w) : TRUE]
                                          ELSE IF w \in stuck THEN NoTask ELSE cur[w]]
             /\ runOn' = [t \in Tasks |->
                            IF \E i \in 1..n : queue[i] = t
                            THEN to[CHOOSE i \in 1..n : queue[i] = t] ELSE runOn[t]]
             /\ queue' = SubSeq(queue, n + 1, Len(queue))
  BY <1>1
<1> DEFINE took(w) == {i \in 1..n : to[i] = w}
<1>3. free \subseteq Workers /\ queue \in Seq(Tasks) /\ Len(queue) \in Nat
  BY DEF Idle, IInv, Rest, Places, TypeOf
<1>4. n \in 0..Len(queue)
  <2>1. IsFiniteSet(free)
    BY <1>3, PoolAssumption, FS_Subset DEF PoolAssumption
  <2>2. Cardinality(free) \in Nat
    BY <2>1, FS_CardinalityType
  <2> QED BY <1>3, <2>2 DEF Stealable
<1>5. /\ to \in [1..n -> free] /\ \A i \in 1..n : to[i] \in Workers
      /\ \A i, j \in 1..n : to[i] = to[j] => i = j
  BY <1>3 DEF Injection, IsInjective
<1> HIDE DEF n
<1>6. /\ \A i \in 1..n : i \in 1..Len(queue) /\ queue[i] \in Tasks
      /\ \A i, j \in 1..n : queue[i] = queue[j] => i = j
  BY <1>3, <1>4 DEF IInv, Places, Held, Distinct
<1>7. ASSUME NEW i \in 1..n PROVE runOn'[queue[i]] = to[i]
  <2>1. (CHOOSE j \in 1..n : queue[j] = queue[i]) = i
    BY <1>6
  <2> QED BY <1>2, <1>6, <2>1
<1>8. ASSUME NEW i \in 1..n PROVE cur'[to[i]] = queue[i]
  <2>1. took(to[i]) = {i}
    BY <1>5
  <2>2. (CHOOSE j \in took(to[i]) : TRUE) = i
    BY <2>1
  <2> QED BY <1>2, <1>5, <2>1, <2>2
<1>9. \A u \in Tasks : (~\E i \in 1..n : queue[i] = u) => runOn'[u] = runOn[u]
  BY <1>2
<1>10. \A w \in Workers : (~\E i \in 1..n : to[i] = w)
                             => cur'[w] = IF w \in stuck THEN NoTask ELSE cur[w]
  BY <1>2
<1>11. /\ cur' = [w \in Workers |-> cur'[w]] /\ runOn' = [u \in Tasks |-> runOn'[u]]
       /\ wstat' = [w \in Workers |-> IF \E i \in 1..n : to[i] = w THEN "busy"
                                       ELSE IF w \in stuck THEN "idle" ELSE wstat[w]]
  BY <1>2
<1>12. ASSUME NEW w \in Workers PROVE cur'[w] \in Tasks \cup {NoTask}
  BY <1>6, <1>8, <1>10 DEF IInv, Places, TypeOf
<1>13. ASSUME NEW u \in Tasks PROVE runOn'[u] \in Workers \cup {NoWorker}
  BY <1>5, <1>7, <1>9 DEF IInv, Places, TypeOf
<1>14. Moved(stuck, n, to)
  <2> HIDE DEF took
  <2>1. /\ promise' = [t \in Tasks |-> IF promise[t] = "pending" /\ \E w \in stuck : cur[w] = t
                                        THEN "rejected" ELSE promise[t]]
        /\ queue' = SubSeq(queue, n + 1, Len(queue))
    BY <1>2
  <2> QED BY <1>5, <1>7, <1>8, <1>9, <1>10, <1>11, <1>12, <1>13, <2>1 DEF Moved
<1> QED BY <1>4, <1>14

\* The workers the health check frees lose their task, those that take one get
\* a task of the removed prefix each: no task is taken twice.
LEMMA HealthCheckIInv == IInv /\ HealthCheck => IInv'
<1> SUFFICES ASSUME IInv, HealthCheck PROVE IInv'
  OBVIOUS
<1>1. PICK stuck, to : \E n \in 0..Len(queue) : Moved(stuck, n, to)
  BY HealthCheckMoves
<1>2. PICK n \in 0..Len(queue) : Moved(stuck, n, to)
  BY <1>1
<1>3. queue \in Seq(Tasks) /\ Len(queue) \in Nat
  BY DEF IInv, Places, TypeOf
<1>4. /\ \A i \in 1..n : i \in 1..Len(queue) /\ queue[i] \in Tasks /\ In(queue, queue[i])
      /\ \A i \in 1..n : to[i] \in Workers
  BY <1>2, <1>3 DEF Moved, Idle, In, IInv, Rest
<1>5. /\ queue' \in Seq(Tasks) /\ Distinct(queue')
      /\ \A u \in Tasks : In(queue', u) => ~\E i \in 1..n : queue[i] = u
      /\ \A u \in Tasks : In(queue, u) <=> In(queue', u) \/ \E i \in 1..n : queue[i] = u
  BY <1>2, <1>3, SuffixDistinct DEF Moved, IInv, Places, Held
<1>6. TypeOf(queue', wstat', cur', runOn')
  BY <1>2, <1>5 DEF Moved, TypeOf, IInv, Places
<1>7. \A u \in Tasks : In(queue', u) => runOn'[u] = NoWorker
  BY <1>2, <1>5 DEF Moved, IInv, Places, Held
<1>8. ASSUME NEW w \in Workers, cur'[w] # NoTask PROVE runOn'[cur'[w]] = w
  <2>1. ASSUME NEW i \in 1..n, to[i] = w PROVE runOn'[cur'[w]] = w
    <3>1. cur'[w] = queue[i] /\ runOn'[queue[i]] = w
      BY <1>2, <2>1 DEF Moved
    <3> QED BY <3>1
  <2>2. CASE ~\E i \in 1..n : to[i] = w
    <3>1. cur'[w] = cur[w] /\ cur[w] \in Tasks /\ runOn[cur[w]] = w
      BY <1>2, <1>8, <2>2 DEF Moved, IInv, Places, TypeOf, Held
    <3>2. ~In(queue, cur[w])
      BY <3>1, PoolAssumption DEF IInv, Places, Held, PoolAssumption
    <3> QED BY <1>2, <1>5, <3>1, <3>2 DEF Moved
  <2> QED BY <2>1, <2>2
<1>9. Places'
  BY <1>5, <1>6, <1>7, <1>8 DEF Places, Held
<1>10. Rest'
  BY <1>2 DEF Moved, HealthCheck, IInv, Rest
<1>11. ASSUME NEW u \in Tasks PROVE Here(u)' <=> Here(u)
  <2>1. ASSUME NEW i \in 1..n, queue[i] = u PROVE Here(u)' /\ Here(u)
    <3>1. to[i] # NoWorker /\ runOn'[queue[i]] = to[i]
      BY <1>2, <1>4, PoolAssumption DEF PoolAssumption, Moved
    <3> QED BY <1>4, <2>1, <3>1 DEF Here
  <2>2. CASE ~\E i \in 1..n : queue[i] = u
    <3>1. runOn'[u] = runOn[u]
      BY <1>2, <2>2 DEF Moved
    <3> QED BY <1>5, <2>2, <3>1 DEF Here
  <2> QED BY <2>1, <2>2
<1>12. Answers'
  BY <1>2, <1>11 DEF Moved, IInv, Answers
<1> QED BY <1>9, <1>10, <1>12 DEF IInv

LEMMA StepIInv == IInv /\ [Next]_vars => IInv'
<1> SUFFICES ASSUME IInv, [Next]_vars PROVE IInv'
  OBVIOUS
<1>1. CASE Start
  BY <1>1, StartIInv
<1>2. CASE Stop
  BY <1>2, StopIInv
<1>3. CASE StopDone
  <2>1. UNCHANGED <<queue, cur, runOn, wstat, retries, promise, running, drain>> /\ pool' = {} /\ stopPending' = FALSE
    BY <1>3 DEF StopDone
  <2> QED BY <2>1 DEF IInv, Rest, Places, TypeOf, Held, Answers, Here, In
<1>4. CASE HealthCheck
  BY <1>4, HealthCheckIInv
<1>5. CASE AutoScale
  BY <1>5, AutoScaleIInv
<1>6. ASSUME NEW t \in Tasks, Submit(t) \/ Succeed(t) \/ FailRetry(t) \/ FailFinal(t)
      PROVE  IInv'
  BY <1>6, SubmitIInv, EndIInv, RetryIInv
<1>7. ASSUME NEW w \in Workers, Drained(w) \/ ForceKill(w) PROVE IInv'
  BY <1>7, DrainIInv
<1>8. CASE UNCHANGED vars
  BY <1>8 DEF vars, IInv, Rest, Places, TypeOf, Held, Distinct, Answers, Here, In
<1> QED BY <1>1, <1>2, <1>3, <1>4, <1>5, <1>6, <1>7, <1>8 DEF Next

-----------------------------------------------------------------------------
(* Theorems *)

\* The pool's variables keep their types, retries within maxRetries included.
THEOREM TypeCorrect == Spec => []TypeOK
<1> DEFINE Long == long \subseteq LongTasks
<1>1. Init => IInv /\ Long
  BY InitIInv DEF Init
<1>2. IInv /\ Long /\ [Next]_vars => IInv' /\ Long'
  BY StepIInv DEF Next, vars
<1>3. IInv /\ Long => TypeOK
  BY IInvImplies
<1> QED BY <1>1, <1>2, <1>3, PTL DEF Spec

\* A task is in one place, once in the queue or in flight on one worker, and
\* one whose caller has no answer yet is in some place, in every interleaving
\* of timers, retries, stop and restart.
THEOREM KeepsTasks == Spec => []TasksKept
<1>1. IInv => TasksKept
  BY IInvImplies DEF TasksKept
<1> QED BY <1>1, InitIInv, StepIInv, PTL DEF Spec
-----------------------------------------------------------------------------
(* Dispatch by priority *)

\* What a step may do to the queue and to the executions.
Ranked == /\ Sorted(queue')
          /\ \A t \in Tasks : ~Running(t) /\ runOn'[t] # NoWorker =>
               \A i \in 1..Len(queue') : Prio[queue'[i]] <= Prio[t]

LEMMA UnmovedRanked ==
    ASSUME Sorted(queue), UNCHANGED runOn, queue' = queue \/ queue' = <<>>
    PROVE  Ranked
  BY DEF Ranked, Sorted, Running

LEMMA SubmitRanked ==
    ASSUME IInv, Sorted(queue), NEW t \in Tasks, Submit(t)
    PROVE  Ranked
<1>1. PICK p \in 1..(Len(queue) + 1) :
         IsSlot(queue, t, p) /\ DispatchNext(InsertAt(queue, p, t), wstat, cur, runOn)
  BY DEF Submit
<1> DEFINE q == InsertAt(queue, p, t)
<1>2. q \in Seq(Tasks) /\ Sorted(q)
  BY <1>1, InsertAtElements, InsertSorted DEF IInv, Places, TypeOf
<1> HIDE DEF q
<1>3. DispatchNext(q, wstat, cur, runOn)
  BY <1>1 DEF q
<1> QED BY <1>2, <1>3, DispatchSorted DEF Ranked, Running

\* The end of an execution on w, whose own task may have joined the queue q.
LEMMA CompleteRanked ==
    ASSUME NEW t \in Tasks, Running(t), NEW q \in Seq(Tasks), Sorted(q), NEW w \in Workers,
           runOn \in [Tasks -> Workers \cup {NoWorker}],
           TaskComplete(w, q, [runOn EXCEPT ![t] = NoWorker])
    PROVE  Ranked
<1> DEFINE st == [wstat EXCEPT ![w] = "idle"]
           c == [cur EXCEPT ![w] = NoTask]
           r == [runOn EXCEPT ![t] = NoWorker]
<1>1. DispatchNext(q, st, c, r)
  BY DEF TaskComplete
<1>2. \A u \in Tasks : ~Running(u) => r[u] = NoWorker
  BY DEF Running
<1> HIDE DEF st, c, r
<1>3. /\ Sorted(queue')
      /\ \A u \in Tasks : runOn'[u] # r[u] =>
           \A i \in 1..Len(queue') : Prio[queue'[i]] <= Prio[u]
  BY <1>1, DispatchSorted
<1> QED BY <1>2, <1>3 DEF Ranked

LEMMA EndRanked ==
    ASSUME IInv, Sorted(queue), NEW t \in Tasks, Succeed(t) \/ FailFinal(t)
    PROVE  Ranked
<1>1. Running(t) /\ TaskComplete(runOn[t], queue, [runOn EXCEPT ![t] = NoWorker])
  BY DEF Succeed, FailFinal
<1>2. runOn[t] \in Workers /\ queue \in Seq(Tasks) /\ runOn \in [Tasks -> Workers \cup {NoWorker}]
  BY <1>1 DEF IInv, Places, TypeOf, Running
<1> QED BY <1>1, <1>2, CompleteRanked

LEMMA RetryRanked ==
    ASSUME IInv, Sorted(queue), NEW t \in Tasks, FailRetry(t)
    PROVE  Ranked
<1>1. PICK p \in 1..(Len(queue) + 1) :
         /\ IsSlot(queue, t, p)
         /\ TaskComplete(runOn[t], InsertAt(queue, p, t), [runOn EXCEPT ![t] = NoWorker])
  BY DEF FailRetry
<1>2. /\ Running(t) /\ runOn[t] \in Workers /\ queue \in Seq(Tasks)
      /\ runOn \in [Tasks -> Workers \cup {NoWorker}]
  BY DEF FailRetry, IInv, Places, TypeOf, Running
<1> DEFINE q == InsertAt(queue, p, t)
<1>3. q \in Seq(Tasks) /\ Sorted(q)
  BY <1>1, <1>2, InsertAtElements, InsertSorted
<1>4. TaskComplete(runOn[t], q, [runOn EXCEPT ![t] = NoWorker])
  BY <1>1
<1> HIDE DEF q
<1> QED BY <1>2, <1>3, <1>4, CompleteRanked

\* Stealing takes a prefix of the queue.
LEMMA HealthCheckRanked == ASSUME IInv, Sorted(queue), HealthCheck PROVE Ranked
<1>1. PICK stuck, to : \E n \in 0..Len(queue) : Moved(stuck, n, to)
  BY HealthCheckMoves
<1>2. PICK n \in 0..Len(queue) : Moved(stuck, n, to)
  BY <1>1
<1>3. queue \in Seq(Tasks)
  BY DEF IInv, Places, TypeOf
<1>4. /\ queue' = SubSeq(queue, n + 1, Len(queue))
      /\ \A t \in Tasks : runOn'[t] # runOn[t] => \E i \in 1..n : queue[i] = t
  BY <1>2 DEF Moved
<1>5. Sorted(queue') /\ \A i \in 1..n, j \in 1..Len(queue') : Prio[queue'[j]] <= Prio[queue[i]]
  BY <1>3, <1>4, SuffixSorted
<1> QED BY <1>4, <1>5 DEF Ranked, Running

LEMMA StepRanked == IInv /\ Sorted(queue) /\ [Next]_vars => Ranked
<1> SUFFICES ASSUME IInv, Sorted(queue), [Next]_vars PROVE Ranked
  OBVIOUS
<1>1. CASE Start \/ StopDone \/ AutoScale \/ UNCHANGED vars
  <2>1. UNCHANGED <<queue, runOn>>
    BY <1>1 DEF Start, StopDone, AutoScale, vars
  <2> QED BY <2>1, UnmovedRanked
<1>2. CASE Stop
  BY <1>2, UnmovedRanked DEF Stop, RejectQueue
<1>3. CASE HealthCheck
  BY <1>3, HealthCheckRanked
<1>4. ASSUME NEW t \in Tasks, Submit(t) \/ Succeed(t) \/ FailRetry(t) \/ FailFinal(t)
      PROVE  Ranked
  BY <1>4, SubmitRanked, EndRanked, RetryRanked
<1>5. ASSUME NEW w \in Workers, Drained(w) \/ ForceKill(w) PROVE Ranked
  <2>1. UNCHANGED <<queue, runOn>>
    BY <1>5 DEF Drained, ForceKill, Retire
  <2> QED BY <2>1, UnmovedRanked
<1> QED BY <1>1, <1>2, <1>3, <1>4, <1>5 DEF Next

LEMMA InitSorted == Init => Sorted(queue)
  BY DEF Init, Sorted

\* The binary search of enqueue() ends at the slot of any task, behind every
\* task of a higher priority and before all others, for a queue of any length:
\* no history of submissions, retries and dispatches can misplace a task.
THEOREM SearchIsRight == Spec => []SearchFindsSlot
<1>1. IInv /\ Sorted(queue) => SearchFindsSlot
  <2> SUFFICES ASSUME IInv, Sorted(queue), NEW t \in Tasks
               PROVE  LET b == Search([i \in 1..Len(queue) |-> Prio[queue[i]]], Prio[t])
                      IN b.lo = b.hi /\ IsSlot(queue, t, b.lo + 1)
    BY DEF SearchFindsSlot
  <2> DEFINE prios == [i \in 1..Len(queue) |-> Prio[queue[i]]]
             b == Search(prios, Prio[t])
  <2>1. queue \in Seq(Tasks) /\ Len(queue) \in Nat /\ Prio \in [Tasks -> Nat]
    BY PoolAssumption DEF IInv, Places, TypeOf, PoolAssumption
  <2>2. prios \in Seq(Nat) /\ Len(prios) = Len(queue) /\ Prio[t] \in Nat
    BY <2>1
  <2>3. \A i, j \in 1..Len(prios) : i < j => prios[i] >= prios[j]
    BY <2>2 DEF Sorted
  <2>4. \A i \in 1..Len(queue) : prios[i] = Prio[queue[i]]
    OBVIOUS
  <2> HIDE DEF prios
  <2>5. b.lo = b.hi /\ Between(prios, Prio[t], b)
    BY <2>2, <2>3, SearchCorrect
  <2> HIDE DEF b
  <2>6. IsSlot(queue, t, b.lo + 1)
    <3>1. /\ b.lo \in 0..Len(queue)
          /\ \A i \in 1..b.lo : prios[i] > Prio[t]
          /\ \A i \in (b.lo + 1)..Len(queue) : prios[i] <= Prio[t]
      BY <2>2, <2>5 DEF Between
    <3> QED BY <2>1, <2>4, <3>1, SMTT(30) DEF IsSlot
  <2> QED BY <2>5, <2>6 DEF b, prios
<1>2. Ranked => Sorted(queue)'
  BY DEF Ranked, Sorted
<1> QED BY <1>1, <1>2, InitIInv, StepIInv, InitSorted, StepRanked, PTL DEF Spec

\* No task starts while one of a higher priority stays queued, whether a
\* submission, a completion, a retry or the health check starts it.
THEOREM StartsByPriority == Spec => DispatchByPriority
<1> DEFINE Fair == \A t \in Tasks : ~Running(t) /\ runOn'[t] # NoWorker =>
                     \A i \in 1..Len(queue') : Prio[queue'[i]] <= Prio[t]
<1>1. Ranked => Sorted(queue)' /\ Fair
  BY DEF Ranked, Sorted
<1>2. IInv /\ Sorted(queue) /\ [Next]_vars => Sorted(queue)' /\ [Fair]_vars
  BY <1>1, StepRanked
<1> QED BY <1>2, InitIInv, StepIInv, InitSorted, PTL DEF Spec, DispatchByPriority
-----------------------------------------------------------------------------
(* What the pool believes *)

\* An idle worker has no current task, and, unless some task's timeout is
\* longer than twice the pool's, every task somewhere is unanswered and the
\* worker that runs it knows it.
Idlers == \A w \in Workers : wstat[w] = "idle" => cur[w] = NoTask
Known == long = {} => \A t \in Tasks :
            /\ Here(t) => promise[t] = "pending"
            /\ runOn[t] # NoWorker => cur[runOn[t]] = t
Believed == Idlers /\ Known

\* dispatchNext() keeps that of its arguments.
LEMMA DispatchBelieved ==
    ASSUME NEW q, NEW st, NEW c, NEW r, pool \subseteq Workers,
           TypeOf(q, st, c, r), Held(q, c, r), DispatchNext(q, st, c, r),
           \A w \in Workers : st[w] = "idle" => c[w] = NoTask
    PROVE  /\ Idlers'
           /\ (\A t \in Tasks : r[t] # NoWorker => c[r[t]] = t)
                => \A t \in Tasks : runOn'[t] # NoWorker => cur'[runOn'[t]] = t
<1>1. CASE queue' = q /\ wstat' = st /\ cur' = c /\ runOn' = r
  BY <1>1 DEF Idlers
<1>2. CASE /\ q # <<>>
           /\ \E w \in Idle(st) :
                /\ wstat' = [st EXCEPT ![w] = "busy"]
                /\ cur' = [c EXCEPT ![w] = Head(q)]
                /\ runOn' = [r EXCEPT ![Head(q)] = w]
  <2>1. PICK w \in Workers :
           /\ st[w] = "idle"
           /\ wstat' = [st EXCEPT ![w] = "busy"]
           /\ cur' = [c EXCEPT ![w] = Head(q)]
           /\ runOn' = [r EXCEPT ![Head(q)] = w]
    BY <1>2 DEF Idle
  <2>2. Head(q) \in Tasks
    BY <1>2 DEF TypeOf
  <2>3. /\ \A v \in Workers : cur'[v] = IF v = w THEN Head(q) ELSE c[v]
        /\ \A v \in Workers : wstat'[v] = IF v = w THEN "busy" ELSE st[v]
        /\ \A t \in Tasks : runOn'[t] = IF t = Head(q) THEN w ELSE r[t]
    BY <2>1, <2>2 DEF TypeOf
  <2>4. Idlers'
    BY <2>3 DEF Idlers
  <2>5. ASSUME \A t \in Tasks : r[t] # NoWorker => c[r[t]] = t,
               NEW t \in Tasks, runOn'[t] # NoWorker
        PROVE  cur'[runOn'[t]] = t
    <3>1. CASE t = Head(q)
      BY <2>3, <3>1
    <3>2. CASE t # Head(q)
      <4>1. runOn'[t] = r[t] /\ r[t] \in Workers /\ c[r[t]] = t
        BY <2>3, <2>5, <3>2 DEF TypeOf
      <4>2. r[t] # w
        BY <2>1, <4>1, PoolAssumption DEF PoolAssumption
      <4> QED BY <2>3, <4>1, <4>2
    <3> QED BY <3>1, <3>2
  <2> QED BY <2>4, <2>5
<1> QED BY <1>1, <1>2 DEF DispatchNext

LEMMA SpawnBelieved ==
    ASSUME IInv, Believed, NEW new \in SUBSET Unused, UNCHANGED <<queue, runOn, promise, long>>,
           NEW gone \in SUBSET Workers,
           wstat' = [w \in Workers |-> IF w \in new THEN "idle"
                                        ELSE IF w \in gone THEN "dead" ELSE wstat[w]],
           cur' = [w \in Workers |-> IF w \in new THEN NoTask ELSE cur[w]]
    PROVE  Believed'
<1>1. Idlers'
  BY DEF Believed, Idlers
<1>2. ASSUME NEW t \in Tasks, runOn[t] # NoWorker PROVE cur'[runOn[t]] = cur[runOn[t]]
  BY <1>2 DEF IInv, Places, TypeOf, Unused
<1>3. Known'
  BY <1>2 DEF Believed, Known, Here, In
<1> QED BY <1>1, <1>3 DEF Believed

LEMMA SubmitBelieved ==
    ASSUME IInv, Believed, NEW t \in Tasks, Submit(t), UNCHANGED long
    PROVE  Believed'
<1>1. PICK p \in 1..(Len(queue) + 1) :
         DispatchNext(InsertAt(queue, p, t), wstat, cur, runOn)
  BY DEF Submit
<1> DEFINE q == InsertAt(queue, p, t)
<1>2. promise' = [promise EXCEPT ![t] = "pending"] /\ ~Here(t)
  BY DEF Submit, IInv, Answers
<1>3. q \in Seq(Tasks) /\ Distinct(q) /\ \A u \in Tasks : In(q, u) <=> In(queue, u) \/ u = t
  BY <1>2, InsertAtElements, InsertDistinct DEF IInv, Places, TypeOf, Held, Here
<1> HIDE DEF q
<1>4. TypeOf(q, wstat, cur, runOn) /\ Held(q, cur, runOn)
  BY <1>2, <1>3 DEF IInv, Places, TypeOf, Held, Here
<1>5. pool \subseteq Workers /\ DispatchNext(q, wstat, cur, runOn)
  BY <1>1 DEF q, IInv, Rest
<1>6. \A u \in Tasks : Here(u)' <=> In(q, u) \/ runOn[u] # NoWorker
  BY <1>4, <1>5, DispatchKeeps DEF Here
<1>7. \A w \in Workers : wstat[w] = "idle" => cur[w] = NoTask
  BY DEF Believed, Idlers
<1>8. /\ Idlers'
      /\ (\A u \in Tasks : runOn[u] # NoWorker => cur[runOn[u]] = u)
           => \A u \in Tasks : runOn'[u] # NoWorker => cur'[runOn'[u]] = u
  BY <1>4, <1>5, <1>7, DispatchBelieved
<1>9. Known'
  BY <1>2, <1>3, <1>6, <1>8 DEF Believed, Known, Here, IInv, Rest
<1> QED BY <1>8, <1>9 DEF Believed

\* The end of an execution of t, which may join the queue again.
LEMMA CompleteBelieved ==
    ASSUME IInv, Believed, NEW t \in Tasks, Running(t), UNCHANGED long,
           NEW q, TypeOf(q, wstat, cur, [runOn EXCEPT ![t] = NoWorker]),
           Held(q, [cur EXCEPT ![runOn[t]] = NoTask], [runOn EXCEPT ![t] = NoWorker]),
           \A u \in Tasks : u # t => (In(q, u) <=> In(queue, u)),
           TaskComplete(runOn[t], q, [runOn EXCEPT ![t] = NoWorker]),
           \A u \in Tasks : u # t \/ In(q, t) => promise'[u] = promise[u]
    PROVE  Believed'
<1> DEFINE w == runOn[t]
           st == [wstat EXCEPT ![w] = "idle"]
           c == [cur EXCEPT ![w] = NoTask]
           r == [runOn EXCEPT ![t] = NoWorker]
<1>1. /\ w \in Workers /\ pool \subseteq Workers /\ TypeOf(q, st, c, r) /\ Held(q, c, r)
      /\ DispatchNext(q, st, c, r)
  BY DEF TaskComplete, TypeOf, IInv, Rest, Places, Running
<1>2. \A v \in Workers : st[v] = "idle" => c[v] = NoTask
  BY DEF Believed, Idlers, IInv, Places, TypeOf
<1>3. r[t] = NoWorker /\ \A u \in Tasks : u # t => r[u] = runOn[u]
  BY DEF IInv, Places, TypeOf
<1>4. ASSUME long = {}
      PROVE  \A u \in Tasks : r[u] # NoWorker => c[r[u]] = u
  <2>1. ASSUME NEW u \in Tasks, r[u] # NoWorker PROVE c[r[u]] = u
    <3>1. u # t /\ r[u] = runOn[u] /\ runOn[u] \in Workers
      BY <1>3, <2>1 DEF IInv, Places, TypeOf
    <3>2. cur[runOn[u]] = u /\ cur[runOn[t]] = t
      BY <1>4, <2>1, <3>1 DEF Believed, Known, Running
    <3>3. runOn[u] # w
      BY <3>1, <3>2
    <3> QED BY <3>1, <3>2, <3>3 DEF IInv, Places, TypeOf
  <2> QED BY <2>1
<1> HIDE DEF w, st, c, r
<1>5. \A u \in Tasks : Here(u)' <=> In(q, u) \/ r[u] # NoWorker
  BY <1>1, DispatchKeeps DEF Here
<1>6. /\ Idlers'
      /\ (\A u \in Tasks : r[u] # NoWorker => c[r[u]] = u)
           => \A u \in Tasks : runOn'[u] # NoWorker => cur'[runOn'[u]] = u
  BY <1>1, <1>2, DispatchBelieved
<1>7. ASSUME long = {}, NEW u \in Tasks, Here(u)' PROVE promise'[u] = "pending"
  <2>1. In(q, u) \/ r[u] # NoWorker
    BY <1>5, <1>7
  <2>2. u # t \/ In(q, t)
    BY <1>3, <2>1
  <2>3. Here(u)
    BY <1>3, <2>1 DEF Here, Running
  <2> QED BY <1>7, <2>2, <2>3 DEF Believed, Known
<1>8. Known'
  BY <1>4, <1>6, <1>7 DEF Known
<1> QED BY <1>6, <1>8 DEF Believed

LEMMA EndBelieved ==
    ASSUME IInv, Believed, NEW t \in Tasks, Succeed(t) \/ FailFinal(t), UNCHANGED long
    PROVE  Believed'
<1>1. /\ Running(t) /\ TaskComplete(runOn[t], queue, [runOn EXCEPT ![t] = NoWorker])
      /\ promise' \in {Settled(promise, t, "resolved"), Settled(promise, t, "rejected")}
  BY DEF Succeed, FailFinal
<1>2. /\ ~In(queue, t)
      /\ TypeOf(queue, wstat, cur, [runOn EXCEPT ![t] = NoWorker])
      /\ Held(queue, [cur EXCEPT ![runOn[t]] = NoTask], [runOn EXCEPT ![t] = NoWorker])
  BY <1>1, Released
<1>3. \A u \in Tasks : u # t => promise'[u] = promise[u]
  BY <1>1 DEF Settled, IInv, Rest
<1> QED BY <1>1, <1>2, <1>3, CompleteBelieved

LEMMA RetryBelieved ==
    ASSUME IInv, Believed, NEW t \in Tasks, FailRetry(t), UNCHANGED long
    PROVE  Believed'
<1>1. PICK p \in 1..(Len(queue) + 1) :
         TaskComplete(runOn[t], InsertAt(queue, p, t), [runOn EXCEPT ![t] = NoWorker])
  BY DEF FailRetry
<1>2. Running(t) /\ promise' = promise
  BY DEF FailRetry
<1> DEFINE q == InsertAt(queue, p, t)
<1>3. /\ ~In(queue, t)
      /\ TypeOf(queue, wstat, cur, [runOn EXCEPT ![t] = NoWorker])
      /\ Held(queue, [cur EXCEPT ![runOn[t]] = NoTask], [runOn EXCEPT ![t] = NoWorker])
      /\ [runOn EXCEPT ![t] = NoWorker][t] = NoWorker
  BY <1>2, Released
<1>4. q \in Seq(Tasks) /\ Distinct(q) /\ \A u \in Tasks : In(q, u) <=> In(queue, u) \/ u = t
  BY <1>3, InsertAtElements, InsertDistinct DEF TypeOf, Held
<1>5. TaskComplete(runOn[t], q, [runOn EXCEPT ![t] = NoWorker])
  BY <1>1
<1> HIDE DEF q
<1>6. /\ TypeOf(q, wstat, cur, [runOn EXCEPT ![t] = NoWorker])
      /\ Held(q, [cur EXCEPT ![runOn[t]] = NoTask], [runOn EXCEPT ![t] = NoWorker])
  BY <1>3, <1>4 DEF TypeOf, Held
<1> QED BY <1>2, <1>4, <1>5, <1>6, CompleteBelieved

\* Without a task of a longer timeout the health check finds no worker stuck.
LEMMA HealthCheckBelieved ==
    ASSUME IInv, IInv', Believed, HealthCheck, UNCHANGED long
    PROVE  Believed'
<1>1. PICK stuck, to : \E n \in 0..Len(queue) : Moved(stuck, n, to)
  BY HealthCheckMoves
<1>2. PICK n \in 0..Len(queue) : Moved(stuck, n, to)
  BY <1>1
<1>3. queue \in Seq(Tasks) /\ Len(queue) \in Nat
  BY DEF IInv, Places, TypeOf
<1>4. \A i \in 1..n : /\ i \in 1..Len(queue) /\ queue[i] \in Tasks /\ In(queue, queue[i])
                       /\ to[i] \in Workers
  BY <1>2, <1>3 DEF Moved, Idle, In, IInv, Rest
<1>5. Idlers'
  BY <1>2 DEF Moved, Believed, Idlers
<1>6. ASSUME long = {}, NEW u \in Tasks, Here(u)' PROVE promise'[u] = "pending"
  <2>1. stuck = {}
    BY <1>2, <1>6 DEF Moved, MayBeStuck
  <2>2. promise'[u] = promise[u]
    BY <1>2, <2>1 DEF Moved
  <2>3. Here(u)
    <3>1. CASE In(queue', u)
      <4>1. PICK i \in 1..Len(queue') : queue'[i] = u
        BY <3>1 DEF In
      <4>2. Len(queue') = Len(queue) - n /\ queue'[i] = queue[n + i] /\ n + i \in 1..Len(queue)
        BY <1>2, <1>3, <4>1 DEF Moved
      <4> QED BY <4>1, <4>2 DEF Here, In
    <3>2. CASE runOn'[u] # NoWorker
      BY <1>2, <1>4, <3>2 DEF Moved, Here
    <3> QED BY <1>6, <3>1, <3>2 DEF Here
  <2> QED BY <1>6, <2>2, <2>3 DEF Believed, Known
<1>7. ASSUME long = {}, NEW u \in Tasks, runOn'[u] # NoWorker PROVE cur'[runOn'[u]] = u
  <2>1. stuck = {}
    BY <1>2, <1>7 DEF Moved, MayBeStuck
  <2>2. ASSUME NEW i \in 1..n, queue[i] = u PROVE cur'[runOn'[u]] = u
    <3>1. runOn'[queue[i]] = to[i] /\ cur'[to[i]] = queue[i]
      BY <1>2 DEF Moved
    <3> QED BY <2>2, <3>1
  <2>3. CASE ~\E i \in 1..n : queue[i] = u
    <3>1. runOn'[u] = runOn[u] /\ runOn[u] \in Workers /\ cur[runOn[u]] = u
      BY <1>2, <1>7, <2>3 DEF Moved, Believed, Known, IInv, Places, TypeOf
    <3>2. wstat[runOn[u]] # "idle"
      BY <3>1, PoolAssumption DEF Believed, Idlers, PoolAssumption
    <3>3. ~\E i \in 1..n : to[i] = runOn[u]
      BY <1>2, <2>1, <3>2 DEF Moved, Idle
    <3> QED BY <1>2, <2>1, <3>1, <3>3 DEF Moved
  <2> QED BY <2>2, <2>3
<1>8. Known'
  BY <1>6, <1>7 DEF Known
<1> QED BY <1>5, <1>8 DEF Believed

LEMMA StepBelieved == IInv /\ Believed /\ [Next]_vars => Believed'
<1> SUFFICES ASSUME IInv, Believed, [Next]_vars PROVE Believed'
  OBVIOUS
<1>0. UNCHANGED long
  BY DEF Next, vars
<1>1. CASE Start
  <2>1. PICK new \in SUBSET Unused :
           /\ wstat' = [w \in Workers |-> IF w \in new THEN "idle" ELSE wstat[w]]
           /\ cur' = [w \in Workers |-> IF w \in new THEN NoTask ELSE cur[w]]
    BY <1>1 DEF Start
  <2>2. wstat' = [w \in Workers |-> IF w \in new THEN "idle"
                                    ELSE IF w \in {} THEN "dead" ELSE wstat[w]]
    BY <2>1
  <2>3. UNCHANGED <<queue, runOn, promise, long>> /\ {} \in SUBSET Workers
    BY <1>0, <1>1 DEF Start
  <2> QED BY <2>1, <2>2, <2>3, SpawnBelieved
<1>2. CASE AutoScale
  <2>1. PICK new \in SUBSET Unused, gone \in SUBSET Idle(wstat) :
           /\ wstat' = [w \in Workers |-> IF w \in new THEN "idle"
                                          ELSE IF w \in gone THEN "dead" ELSE wstat[w]]
           /\ cur' = [w \in Workers |-> IF w \in new THEN NoTask ELSE cur[w]]
    BY <1>2 DEF AutoScale
  <2>2. gone \in SUBSET Workers
    BY DEF Idle, IInv, Rest
  <2> QED BY <1>0, <1>2, <2>1, <2>2, SpawnBelieved DEF AutoScale
<1>3. CASE Stop
  <2>1. /\ queue' = <<>> /\ cur' = cur /\ runOn' = runOn
        /\ \A t \in Tasks : promise'[t] = IF InQueue(t) /\ promise[t] = "pending"
                                          THEN "rejected" ELSE promise[t]
        /\ \A w \in Workers : wstat'[w] = "idle" => wstat[w] = "idle"
    BY <1>3 DEF Stop, RejectQueue
  <2>2. \A t \in Tasks : ~In(queue', t) /\ (runOn[t] # NoWorker => ~InQueue(t))
    BY <2>1 DEF In, InQueue, IInv, Places, Held
  <2> QED BY <1>0, <2>1, <2>2 DEF Believed, Idlers, Known, Here
<1>4. CASE StopDone \/ UNCHANGED vars
  <2>1. UNCHANGED <<queue, cur, runOn, wstat, promise, long>>
    BY <1>0, <1>4 DEF StopDone, vars
  <2> QED BY <2>1 DEF Believed, Idlers, Known, Here, In
<1>5. CASE HealthCheck
  BY <1>0, <1>5, HealthCheckIInv, HealthCheckBelieved
<1>6. ASSUME NEW t \in Tasks, Submit(t) \/ Succeed(t) \/ FailRetry(t) \/ FailFinal(t)
      PROVE  Believed'
  BY <1>0, <1>6, SubmitBelieved, EndBelieved, RetryBelieved
<1>7. ASSUME NEW w \in Workers, Drained(w) \/ ForceKill(w) PROVE Believed'
  <2>1. /\ UNCHANGED <<queue, cur, runOn, promise>>
        /\ \A v \in Workers : wstat'[v] = "idle" => wstat[v] = "idle"
    BY <1>7 DEF Drained, ForceKill, Retire, IInv, Places, TypeOf
  <2> QED BY <1>0, <2>1 DEF Believed, Idlers, Known, Here, In
<1> QED BY <1>1, <1>2, <1>3, <1>4, <1>5, <1>6, <1>7 DEF Next

\* Unless some task's timeout exceeds twice the pool's, nothing is executed, or
\* kept for execution, once its caller is answered, no worker runs two
\* executions and none the pool believes idle runs any, for any number of tasks,
\* workers and retries.
THEOREM BelievesTrue == Spec => []BeliefIsTrue
<1>1. Init => Believed
  BY DEF Init, Believed, Idlers, Known, Here, In
<1>2. IInv /\ Believed => BeliefIsTrue
  <2> SUFFICES ASSUME IInv, Believed, long = {} PROVE BeliefIsTrue
    BY DEF BeliefIsTrue
  <2>1. \A t \in Tasks : InQueue(t) \/ Running(t) => promise[t] = "pending"
    BY DEF Believed, Known, Here, In, InQueue, Running
  <2>2. \A t, u \in Tasks : Running(t) /\ runOn[t] = runOn[u] => t = u
    BY DEF Believed, Known, Running
  <2>3. ASSUME NEW w \in Idle(wstat), NEW t \in Tasks PROVE runOn[t] # w
    <3>1. w \in Workers /\ cur[w] = NoTask /\ w # NoWorker
      BY PoolAssumption DEF Idle, IInv, Rest, Believed, Idlers, PoolAssumption
    <3> QED BY <3>1, PoolAssumption DEF Believed, Known, PoolAssumption
  <2> QED BY <2>1, <2>2, <2>3 DEF BeliefIsTrue
<1> QED BY <1>1, <1>2, InitIInv, StepIInv, StepBelieved, PTL DEF Spec

-----------------------------------------------------------------------------
(* The size of the pool *)

\* Workers wait for their task only during a stop(); when start() must wait for
\* that to end, a pool that does not run is empty, or about to be.
Phases ==
    /\ ~stopPending => drain = {}
    /\ ~OverlapRestart =>
         /\ stopPending => ~running
         /\ ~running /\ ~stopPending => pool = {}
         /\ running => Cardinality(pool) \in MinWorkers..MaxWorkers

\* autoScale() keeps the limits, though both of its decisions use the size
\* before the scale-up.
LEMMA AutoScaleSize ==
    ASSUME IInv, AutoScale, Cardinality(pool) \in MinWorkers..MaxWorkers
    PROVE  Cardinality(pool') \in MinWorkers..MaxWorkers
<1>1. PICK new \in SUBSET Unused, expired \in SUBSET Idle(wstat) :
         /\ Cardinality(new) = ScaleUp(Cardinality(pool))
         /\ MayRemove(expired, Cardinality(pool))
         /\ pool' = (pool \cup new) \ expired
  BY DEF AutoScale
<1>2. /\ new \subseteq Workers /\ pool \subseteq Workers /\ expired \subseteq pool
      /\ new \cap pool = {} /\ IsFiniteSet(Workers)
  BY PoolAssumption DEF Unused, Idle, IInv, Rest, PoolAssumption
<1>3. IsFiniteSet(new) /\ IsFiniteSet(pool) /\ IsFiniteSet(expired)
  BY <1>2, FS_Subset
<1>4. Cardinality(new) \in Nat /\ Cardinality(pool) \in Nat /\ Cardinality(expired) \in Nat
  BY <1>3, FS_CardinalityType
<1>5. /\ IsFiniteSet(pool \cup new)
      /\ Cardinality(pool \cup new) = Cardinality(pool) + Cardinality(new)
  <2>1. Cardinality(pool \cap new) = 0
    BY <1>2, FS_EmptySet
  <2>2. /\ IsFiniteSet(pool \cup new)
        /\ Cardinality(pool \cup new)
             = Cardinality(pool) + Cardinality(new) - Cardinality(pool \cap new)
    BY ONLY <1>3, FS_Union
  <2> QED BY ONLY <1>4, <2>1, <2>2
<1>6. Cardinality(pool') = Cardinality(pool) + Cardinality(new) - Cardinality(expired)
  <2>1. (pool \cup new) \cap expired = expired
    BY <1>2
  <2>2. Cardinality((pool \cup new) \ expired)
          = Cardinality(pool \cup new) - Cardinality((pool \cup new) \cap expired)
    BY ONLY <1>5, FS_Difference
  <2>3. Cardinality((pool \cup new) \cap expired) = Cardinality(expired)
    BY <2>1
  <2>4. Cardinality(pool') = Cardinality((pool \cup new) \ expired)
    BY <1>1
  <2> QED BY ONLY <1>4, <1>5, <2>2, <2>3, <2>4
<1>7. Cardinality(pool) + Cardinality(new) <= MaxWorkers
  <2> DEFINE batches == (Len(queue) + ScaleUpThreshold - 1) \div ScaleUpThreshold
             size == Cardinality(pool)
  <2>1. Cardinality(new) = IF Len(queue) < ScaleUpThreshold \/ MaxWorkers - size <= 0 THEN 0
                           ELSE IF batches < MaxWorkers - size THEN batches ELSE MaxWorkers - size
    BY <1>1 DEF ScaleUp
  <2> HIDE DEF batches
  <2> QED BY <1>4, <2>1, PoolAssumption DEF PoolAssumption
<1>8. expired # {} => Cardinality(pool) - Cardinality(expired) >= MinWorkers
  BY <1>1 DEF MayRemove
<1>9. expired = {} => Cardinality(expired) = 0
  BY FS_EmptySet
<1> QED BY <1>4, <1>6, <1>7, <1>8, <1>9, PoolAssumption DEF PoolAssumption

LEMMA StepPhases == IInv /\ Phases /\ [Next]_vars => Phases'
<1> SUFFICES ASSUME IInv, Phases, [Next]_vars PROVE Phases'
  OBVIOUS
<1>0. drain = {} => ~\E w \in Workers : Drained(w) \/ ForceKill(w)
  BY DEF Drained, ForceKill
<1>1. CASE Start
  <2>1. /\ ~running /\ running' = TRUE /\ (stopPending => OverlapRestart)
        /\ UNCHANGED <<stopPending, drain>>
    BY <1>1 DEF Start
  <2>2. ASSUME ~OverlapRestart PROVE Cardinality(pool') \in MinWorkers..MaxWorkers
    <3>1. PICK new : Cardinality(new) = MinWorkers /\ pool' = pool \cup new
      BY <1>1 DEF Start
    <3>2. pool' = new
      BY <2>1, <2>2, <3>1 DEF Phases
    <3>3. MinWorkers \in Nat /\ MaxWorkers \in Nat /\ MinWorkers <= MaxWorkers
      BY PoolAssumption
    <3>4. Cardinality(pool') = MinWorkers
      BY <3>1, <3>2
    <3> QED BY <3>3, <3>4
  <2> QED BY <2>1, <2>2 DEF Phases
<1>2. CASE Stop
  <2>1. running' = FALSE /\ stopPending' = TRUE
    BY <1>2 DEF Stop
  <2> QED BY <2>1 DEF Phases
<1>3. CASE StopDone
  <2>1. stopPending /\ drain' = {} /\ stopPending' = FALSE /\ pool' = {} /\ running' = running
    BY <1>3 DEF StopDone
  <2> QED BY <2>1 DEF Phases
<1>4. CASE AutoScale
  <2>1. running /\ UNCHANGED <<running, stopPending, drain>>
    BY <1>4 DEF AutoScale
  <2> QED BY <1>4, <2>1, AutoScaleSize DEF Phases
<1>5. CASE HealthCheck \/ UNCHANGED vars
  <2>1. UNCHANGED <<running, stopPending, drain, pool>>
    BY <1>5 DEF HealthCheck, vars
  <2> QED BY <2>1 DEF Phases
<1>6. ASSUME NEW t \in Tasks, Submit(t) \/ Succeed(t) \/ FailRetry(t) \/ FailFinal(t)
      PROVE  Phases'
  <2>1. UNCHANGED <<running, stopPending, drain, pool>>
    BY <1>6 DEF Submit, Succeed, FailRetry, FailFinal
  <2> QED BY <2>1 DEF Phases
<1>7. ASSUME NEW w \in Workers, Drained(w) \/ ForceKill(w) PROVE Phases'
  <2>1. stopPending /\ UNCHANGED <<running, stopPending>>
    BY <1>0, <1>7 DEF Phases, Drained, ForceKill, Retire
  <2> QED BY <2>1 DEF Phases
<1> QED BY <1>1, <1>2, <1>3, <1>4, <1>5, <1>6, <1>7 DEF Next

\* While the pool runs its size is within minWorkers and maxWorkers, unless it
\* was restarted during its own stop(): there the promise fails, and a run of
\* the project shows how.
THEOREM SizeWithinLimits == Spec => []PoolSize
<1>1. Init => Phases
  BY DEF Init, Phases
<1>2. Phases => PoolSize
  BY DEF Phases, PoolSize
<1> QED BY <1>1, <1>2, InitIInv, StepIInv, StepPhases, PTL DEF Spec
=============================================================================
