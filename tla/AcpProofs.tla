------------------------------ MODULE AcpProofs ------------------------------
(***************************************************************************)
(* Proofs about AcpBus.tla, for any number of agents, messages, retries    *)
(* and dead letters, with and without a store.                             *)
(***************************************************************************)
EXTENDS AcpBus, TLAPS, FiniteSetTheorems, SequenceTheorems

\* What counts as seen was seen on a message that got onto the highway.
SeenHaveOriginal ==
    \A k \in seen : \E j \in Ids : Key(msgs[j]) = k /\ at[j] \notin {"dropped", "failed"}

\* The type invariant, the counter and its map, and what the highway remembers.
IInv == AcpTypeOK /\ IsFiniteSet(pending) /\ PendingCounted /\ SeenHaveOriginal /\ DropsHaveOriginal

LEMMA InitIInv == Init => IInv
<1> SUFFICES ASSUME Init PROVE IInv
  OBVIOUS
<1> USE BusAssumption DEF Init, HighwayInit, Ids
<1>1. AcpTypeOK
  <2>1. /\ msgs \in Seq(Envelope) /\ at \in Seq(Places) /\ caller \in Seq(Views) /\ dead \in Seq(Ids)
        /\ Len(msgs) = 0 /\ Len(at) = 0 /\ Len(caller) = 0 /\ Len(dead) = 0
    BY EmptySeq
  <2>2. Ids = {} /\ 0 <= MaxMessages /\ 0 <= MaxDeadLetters
    BY <2>1
  <2> QED
    BY <2>1, <2>2 DEF AcpTypeOK
<1>2. IsFiniteSet(pending) /\ PendingCounted
  BY FS_EmptySet DEF PendingCounted
<1>3. SeenHaveOriginal /\ DropsHaveOriginal
  BY DEF SeenHaveOriginal, DropsHaveOriginal
<1> QED
  BY <1>1, <1>2, <1>3 DEF IInv

-----------------------------------------------------------------------------
(* Dead letters *)

\* addDeadLetter keeps the limit and holds known messages only.
LEMMA AddKeeps ==
    ASSUME NEW n \in Nat, NEW q \in Seq(1..n), NEW id \in 1..n
    PROVE  AddDeadLetter(q, id) \in Seq(1..n) /\ Len(AddDeadLetter(q, id)) <= MaxDeadLetters
<1> DEFINE q2 == Append(q, id)
<1>1. q2 \in Seq(1..n) /\ Len(q2) \in Nat
  OBVIOUS
<1>2. CASE Len(q2) > MaxDeadLetters
  <2>1. \A k \in (Len(q2) - MaxDeadLetters + 1)..Len(q2) : q2[k] \in 1..n
    BY <1>1, <1>2, ElementOfSeq, BusAssumption
  <2> QED
    BY <1>1, <1>2, <2>1, SubSeqProperties, BusAssumption DEF AddDeadLetter, LastLetters
<1>3. CASE ~(Len(q2) > MaxDeadLetters)
  BY <1>1, <1>3, BusAssumption DEF AddDeadLetter, LastLetters
<1> QED
  BY <1>2, <1>3

LEMMA RemoveKeeps ==
    ASSUME NEW S, NEW q \in Seq(S), NEW k \in 1..Len(q)
    PROVE  RemoveAt(q, k) \in Seq(S) /\ Len(RemoveAt(q, k)) = Len(q) - 1
<1> DEFINE a == SubSeq(q, 1, k - 1)
           b == SubSeq(q, k + 1, Len(q))
<1>1. Len(q) \in Nat /\ \A i \in 1..Len(q) : q[i] \in S
  BY ElementOfSeq, LenProperties
<1>2. a \in Seq(S) /\ Len(a) = k - 1
  BY <1>1, SubSeqProperties
<1>3. b \in Seq(S) /\ Len(b) = Len(q) - k
  BY <1>1, SubSeqProperties
<1>4. RemoveAt(q, k) = a \o b
  BY DEF RemoveAt
<1> HIDE DEF a, b
<1> QED
  BY <1>1, <1>2, <1>3, <1>4, ConcatProperties

-----------------------------------------------------------------------------
(* Sending *)

\* What send() and retryDeadLetter() do to the messages: one is added, and what
\* the highway hashes, and what they answer, stays as it was in the others.
Grows(e) ==
    /\ Len(msgs) < MaxMessages
    /\ msgs' \in Seq(Envelope) /\ Len(msgs') = Len(msgs) + 1
    /\ msgs'[Len(msgs) + 1] = e /\ e.parent \in 0..Len(msgs)
    /\ \A i \in Ids : Key(msgs'[i]) = Key(msgs[i]) /\ msgs'[i].parent = msgs[i].parent

LEMMA SentKeeps ==
    ASSUME IInv, NEW e, Grows(e), NEW thrown \in BOOLEAN, NEW view \in Views,
           Publish(Key(e), thrown), caller' = Append(caller, view),
           started' = started, unack' \subseteq 1..(Len(msgs) + 1),
           dead' \in Seq(1..(Len(msgs) + 1)), Len(dead') <= MaxDeadLetters,
           \/ pending' = pending /\ pendingCount' = pendingCount /\ view # "waiting"
           \/ pending' = pending \cup {Len(msgs) + 1} /\ pendingCount' = pendingCount + 1
    PROVE  IInv'
<1> DEFINE n == Len(msgs)
           where == IF Key(e) \in seen THEN "dropped" ELSE IF thrown THEN "failed" ELSE "transit"
<1> USE DEF IInv
<1>1. /\ n \in Nat /\ Len(msgs') = n + 1 /\ Ids = 1..n /\ Ids' = 1..(n + 1)
      /\ Len(at) = n /\ Len(caller) = n
      /\ pending \subseteq 1..n /\ pendingCount \in Nat
  BY DEF Grows, AcpTypeOK, Ids
<1>2. /\ at' = Append(at, where) /\ where \in Places /\ at' \in Seq(Places) /\ Len(at') = n + 1
      /\ at'[n + 1] = where /\ \A i \in 1..n : at'[i] = at[i]
  BY <1>1 DEF Publish, AcpTypeOK, Places, Undelivered
<1>3. /\ caller' \in Seq(Views) /\ Len(caller') = n + 1
      /\ caller'[n + 1] = view /\ \A i \in 1..n : caller'[i] = caller[i]
  BY <1>1 DEF AcpTypeOK
<1>4. \A i \in 1..n : Key(msgs'[i]) = Key(msgs[i]) /\ msgs'[i].parent = msgs[i].parent
  BY <1>1 DEF Grows
<1>5. AcpTypeOK'
  <2>1. \A i \in 1..n : msgs'[i].parent < i
    BY <1>1, <1>4 DEF AcpTypeOK
  <2>2. msgs'[n + 1].parent < n + 1
    BY <1>1 DEF Grows
  <2>5. pending' \subseteq 1..(n + 1)
    <3>1. \A x \in 1..n : x \in 1..(n + 1)
      BY <1>1
    <3>2. n + 1 \in 1..(n + 1)
      BY <1>1
    <3> QED
      BY <3>1, <3>2, <1>1, Zenon
  <2>6. pendingCount' \in Nat
    BY <1>1
  <2>3. msgs' \in Seq(Envelope) /\ Len(msgs') <= MaxMessages
    BY <1>1, BusAssumption DEF Grows
  <2>4. store' \in BOOLEAN /\ started' \in BOOLEAN
    BY DEF AcpTypeOK, Publish
  <2> QED
    BY <1>1, <1>2, <1>3, <2>1, <2>2, <2>3, <2>4, <2>5, <2>6 DEF AcpTypeOK
<1>6. IsFiniteSet(pending') /\ PendingCounted'
  <2>1. n + 1 \notin pending
    BY <1>1 DEF AcpTypeOK
  <2>2. IsFiniteSet(pending') /\ pendingCount' = Cardinality(pending')
    BY <2>1, FS_AddElement DEF PendingCounted
  <2>3. \A i \in Ids' : caller'[i] = "waiting" => i \in pending'
    BY <1>1, <1>3 DEF PendingCounted
  <2> QED
    BY <2>2, <2>3 DEF PendingCounted
<1>7. SeenHaveOriginal'
  <2> SUFFICES ASSUME NEW k \in seen'
               PROVE  \E j \in Ids' : Key(msgs'[j]) = k /\ at'[j] \notin {"dropped", "failed"}
    BY DEF SeenHaveOriginal
  <2>1. CASE k \in seen
    BY <2>1, <1>1, <1>2, <1>4 DEF SeenHaveOriginal
  <2>2. CASE k \notin seen
    <3>1. k = Key(e) /\ ~thrown /\ Key(e) \notin seen
      BY <2>2 DEF Publish, NowSeen
    <3> QED
      BY <3>1, <1>1, <1>2, SMTT(30) DEF Grows
  <2> QED
    BY <2>1, <2>2
<1>8. DropsHaveOriginal'
  <2> SUFFICES ASSUME NEW i \in Ids', at'[i] = "dropped"
               PROVE  \E j \in 1..(i - 1) : /\ Key(msgs'[j]) = Key(msgs'[i])
                                           /\ at'[j] \notin {"dropped", "failed"}
    BY DEF DropsHaveOriginal
  <2>1. CASE i \in 1..n
    <3>1. PICK j \in 1..(i - 1) : Key(msgs[j]) = Key(msgs[i]) /\ at[j] \notin {"dropped", "failed"}
      BY <2>1, <1>1, <1>2 DEF DropsHaveOriginal
    <3> QED
      BY <3>1, <2>1, <1>1, <1>2, <1>4
  <2>2. CASE i = n + 1
    <3>1. Key(e) \in seen
      BY <2>2, <1>2
    <3>2. PICK j \in Ids : Key(msgs[j]) = Key(e) /\ at[j] \notin {"dropped", "failed"}
      BY <3>1 DEF SeenHaveOriginal
    <3> QED
      BY <3>2, <2>2, <1>1, <1>2, <1>4 DEF Grows
  <2> QED
    BY <2>1, <2>2, <1>1
<1> QED
  BY <1>5, <1>6, <1>7, <1>8 DEF IInv

LEMMA MessageFacts ==
    ASSUME IInv
    PROVE  /\ Len(msgs) \in Nat /\ Ids = 1..Len(msgs) /\ Len(at) = Len(msgs) /\ Len(caller) = Len(msgs)
           /\ \A i \in Ids : msgs[i] \in Envelope /\ msgs[i].parent \in 0..(i - 1)
           /\ pending \subseteq Ids /\ unack \subseteq Ids /\ dead \in Seq(Ids)
<1>1. \A i \in Ids : msgs[i] \in Envelope /\ msgs[i].parent < i
  BY ElementOfSeq DEF IInv, AcpTypeOK, Ids
<1>2. \A i \in Ids : msgs[i].parent \in 0..(i - 1)
  BY <1>1, BusAssumption DEF Envelope, Ids
<1> QED
  BY <1>1, <1>2 DEF IInv, AcpTypeOK, Ids

\* A new envelope is appended, the others are not touched.
LEMMA AppendGrows ==
    ASSUME IInv, NEW e \in Envelope, e.parent \in 0..Len(msgs),
           Len(msgs) < MaxMessages, msgs' = Append(msgs, e)
    PROVE  Grows(e)
BY MessageFacts DEF IInv, AcpTypeOK, Grows, Ids

\* Letters about known messages are letters about the messages of the next state.
LEMMA LettersGrow ==
    ASSUME IInv
    PROVE  dead \in Seq(1..(Len(msgs) + 1)) /\ Len(dead) <= MaxDeadLetters
<1>1. Ids \subseteq 1..(Len(msgs) + 1) /\ dead \in Seq(Ids)
  BY MessageFacts
<1> QED
  BY <1>1, SeqMonotonic DEF IInv, AcpTypeOK

\* send() of an envelope about a known message, or about none.
LEMMA SendKeeps ==
    ASSUME IInv, NEW e \in Envelope, e.parent \in 0..Len(msgs), NEW thrown \in BOOLEAN,
           Send(e, thrown), NEW view \in Views, caller' = Append(caller, view), started' = started,
           unack' \subseteq 1..(Len(msgs) + 1),
           \/ pending' = pending /\ pendingCount' = pendingCount /\ view # "waiting"
           \/ pending' = pending \cup {Len(msgs) + 1} /\ pendingCount' = pendingCount + 1
    PROVE  IInv'
<1>1. Grows(e) /\ Publish(Key(e), thrown)
  BY AppendGrows DEF Send
<1>2. Len(msgs) + 1 \in 1..(Len(msgs) + 1) /\ Len(msgs) + 1 \in Nat
  BY MessageFacts
<1>3. dead' \in Seq(1..(Len(msgs) + 1)) /\ Len(dead') <= MaxDeadLetters
  BY <1>2, LettersGrow, AddKeeps DEF Send
<1> QED
  BY <1>1, <1>3, SentKeeps

\* A step that sends nothing: no message becomes dropped or failed, and a caller
\* that still waits keeps its entry.
LEMMA MoveKeeps ==
    ASSUME IInv, UNCHANGED <<store, seen, msgs, unack>>, started' \in BOOLEAN,
           at' \in Seq(Places), Len(at') = Len(at),
           \A i \in Ids : at'[i] \in {"dropped", "failed"} <=> at[i] \in {"dropped", "failed"},
           \A i \in Ids : at'[i] = "dropped" => at[i] = "dropped",
           caller' \in Seq(Views), Len(caller') = Len(caller),
           \A i \in Ids : caller'[i] = "waiting" => i \in pending',
           pending' \subseteq pending, IsFiniteSet(pending'), pendingCount' = Cardinality(pending'),
           dead' \in Seq(Ids), Len(dead') <= MaxDeadLetters
    PROVE  IInv'
<1> USE DEF IInv
<1>1. Ids' = Ids /\ Ids = 1..Len(msgs) /\ Len(msgs) \in Nat
  BY DEF Ids, AcpTypeOK
<1>2. pendingCount' \in Nat
  BY FS_CardinalityType
<1>3. AcpTypeOK'
  BY <1>1, <1>2 DEF AcpTypeOK
<1>4. PendingCounted'
  BY <1>1 DEF PendingCounted
<1>5. SeenHaveOriginal'
  BY <1>1 DEF SeenHaveOriginal, Key
<1>6. DropsHaveOriginal'
  <2> SUFFICES ASSUME NEW i \in Ids, at'[i] = "dropped"
               PROVE  \E j \in 1..(i - 1) : /\ Key(msgs[j]) = Key(msgs[i])
                                           /\ at'[j] \notin {"dropped", "failed"}
    BY <1>1 DEF DropsHaveOriginal, Key
  <2>1. PICK j \in 1..(i - 1) : Key(msgs[j]) = Key(msgs[i]) /\ at[j] \notin {"dropped", "failed"}
    BY DEF DropsHaveOriginal
  <2>2. j \in Ids
    BY <1>1, <2>1
  <2> QED
    BY <2>1, <2>2
<1> QED
  BY <1>3, <1>4, <1>5, <1>6 DEF IInv

\* Whoever is told an answer no longer waits, nobody starts to.
LEMMA SettleKeeps ==
    ASSUME IInv, NEW ids, NEW value \in Views \ {"waiting"}, Settle(ids, value)
    PROVE  /\ caller' \in Seq(Views) /\ Len(caller') = Len(caller)
           /\ \A i \in Ids : caller'[i] = "waiting" => i \in pending \ ids
<1>1. \A i \in Ids : caller[i] \in Views
  BY MessageFacts, ElementOfSeq DEF IInv, AcpTypeOK
<1>2. caller' \in [1..Len(msgs) -> Views] /\ Len(msgs) \in Nat
  BY <1>1, MessageFacts DEF Settle
<1>3. caller' \in Seq(Views)
  BY <1>2, SeqDef
<1>4. Len(caller') = Len(msgs)
  <2>1. DOMAIN caller' = 1..Len(caller') /\ Len(caller') \in Nat
    BY <1>3, LenProperties
  <2>2. 1..Len(caller') = 1..Len(msgs)
    BY <1>2, <2>1
  <2> QED
    BY <1>2, <2>1, <2>2
<1>5. \A i \in Ids : caller'[i] = "waiting" => caller[i] = "waiting" /\ i \notin ids
  BY DEF Settle
<1> QED
  BY <1>3, <1>4, <1>5, MessageFacts DEF IInv, PendingCounted

-----------------------------------------------------------------------------
(* One lemma per kind of action *)

LEMMA SendMessageIInv == IInv /\ SendMessage => IInv'
<1> SUFFICES ASSUME IInv, NEW e \in Sayable, NEW thrown \in BOOLEAN, Send(e, thrown),
                    unack' = unack \cup {Len(msgs) + 1}, caller' = Append(caller, "none"),
                    UNCHANGED <<started, pending, pendingCount>>
             PROVE  IInv'
  BY DEF SendMessage
<1>1. e \in Envelope /\ e.parent \in 0..Len(msgs)
  BY MessageFacts, BusAssumption DEF Sayable, Envelope, IInv, AcpTypeOK
<1>2. unack' \subseteq 1..(Len(msgs) + 1) /\ "none" \in Views /\ "none" # "waiting"
  BY MessageFacts DEF Views
<1> QED
  BY <1>1, <1>2, SendKeeps

LEMMA RequestIInv == IInv /\ Request => IInv'
<1> SUFFICES ASSUME IInv, NEW e \in Sayable, NEW thrown \in BOOLEAN, Send(e, thrown),
                    unack' = unack \cup {Len(msgs) + 1},
                    pending' = pending \cup {Len(msgs) + 1}, pendingCount' = pendingCount + 1,
                    caller' = Append(caller, IF thrown THEN "failed" ELSE "waiting"),
                    UNCHANGED started
             PROVE  IInv'
  BY DEF Request
<1> DEFINE view == IF thrown THEN "failed" ELSE "waiting"
<1>1. e \in Envelope /\ e.parent \in 0..Len(msgs)
  BY MessageFacts, BusAssumption DEF Sayable, Envelope, IInv, AcpTypeOK
<1>2. unack' \subseteq 1..(Len(msgs) + 1) /\ view \in Views
  BY MessageFacts DEF Views
<1> QED
  BY <1>1, <1>2, SendKeeps

LEMMA AcknowledgeIInv == ASSUME IInv, NEW i \in Ids, Acknowledge(i) PROVE IInv'
<1> DEFINE known == i \in unack
           ack == [from |-> msgs[i].to, to |-> IF known THEN msgs[i].from ELSE System,
                   type |-> "ack", parent |-> IF known THEN msgs[i].parent ELSE 0, tries |-> 0]
<1>1. msgs[i] \in Envelope /\ msgs[i].parent \in 0..Len(msgs) /\ Len(msgs) \in Nat
  BY MessageFacts
<1>2. ack \in Envelope /\ ack.parent \in 0..Len(msgs)
  BY <1>1, BusAssumption DEF Acknowledge, Envelope
<1>3. PICK thrown \in BOOLEAN : Send(ack, thrown)
  BY DEF Acknowledge
<1>4. unack' \subseteq 1..(Len(msgs) + 1) /\ "none" \in Views /\ "none" # "waiting"
  BY MessageFacts DEF Acknowledge, Views
<1>5. caller' = Append(caller, "none") /\ UNCHANGED <<started, pending, pendingCount>>
  BY DEF Acknowledge
<1> HIDE DEF ack
<1> QED
  BY <1>2, <1>3, <1>4, <1>5, SendKeeps

LEMMA ReplaceKeeps ==
    ASSUME NEW S, NEW q \in Seq(S), NEW i \in 1..Len(q), NEW d \in S, NEW r, r = [q EXCEPT ![i] = d]
    PROVE  r \in Seq(S) /\ Len(r) = Len(q) /\ \A j \in 1..Len(q) : r[j] = IF j = i THEN d ELSE q[j]
BY ExceptSeq

\* The letter is sent again, and the old envelope is counted up with it.
LEMMA ResentGrows ==
    ASSUME IInv, NEW i \in Ids, NEW e \in Envelope, Len(msgs) < MaxMessages,
           e.parent = msgs[i].parent, Key(e) = Key(msgs[i]),
           NEW again \in Seq(Envelope), Len(again) = Len(msgs) + 1, again[Len(msgs) + 1] = e,
           \A j \in Ids : again[j] = msgs[j], msgs' = [again EXCEPT ![i] = e]
    PROVE  Grows(e)
<1>1. /\ Len(msgs) \in Nat /\ Ids = 1..Len(msgs) /\ msgs \in Seq(Envelope)
      /\ \A j \in Ids : msgs[j].parent \in 0..Len(msgs)
  BY MessageFacts DEF IInv, AcpTypeOK
<1>2. i \in 1..Len(again) /\ Len(msgs) + 1 \in 1..Len(again) /\ Ids \subseteq 1..Len(again)
  BY <1>1
<1>3. /\ msgs' \in Seq(Envelope) /\ Len(msgs') = Len(again)
      /\ \A j \in 1..Len(again) : msgs'[j] = IF j = i THEN e ELSE again[j]
  BY <1>2, ReplaceKeeps
<1>4. msgs'[Len(msgs) + 1] = e
  BY <1>2, <1>3
<1>5. \A j \in Ids : msgs'[j] = IF j = i THEN e ELSE msgs[j]
  BY <1>2, <1>3
<1>6. \A j \in Ids : Key(msgs'[j]) = Key(msgs[j]) /\ msgs'[j].parent = msgs[j].parent
  BY <1>5
<1>7. e.parent \in 0..Len(msgs)
  BY <1>1
<1> QED
  BY <1>3, <1>4, <1>6, <1>7 DEF Grows

\* retryDeadLetter() publishes the letter of an earlier message once more.
LEMMA RetrySends ==
    ASSUME IInv, NEW k \in 1..Len(dead), RetryDeadLetter(k)
    PROVE  \E e \in Envelope, i \in Ids, thrown \in BOOLEAN :
             Grows(e) /\ Publish(Key(e), thrown) /\ e.parent = msgs[i].parent
<1> DEFINE i == dead[k]
           n == Len(msgs)
           tries == msgs[i].tries + 1
           e == [msgs[i] EXCEPT !.tries = tries]
           again == Append(msgs, e)
<1>1. n \in Nat /\ i \in Ids /\ Ids = 1..n /\ msgs[i] \in Envelope /\ msgs[i].parent \in 0..n
  BY MessageFacts, ElementOfSeq
<1>2. e \in Envelope /\ e.parent = msgs[i].parent /\ Key(e) = Key(msgs[i])
  BY <1>1 DEF Envelope, Key
<1>3. /\ again \in Seq(Envelope) /\ Len(again) = n + 1 /\ again[n + 1] = e
      /\ \A j \in 1..n : again[j] = msgs[j]
  BY <1>1, <1>2 DEF IInv, AcpTypeOK
<1>4. Len(msgs) < MaxMessages /\ msgs' = [again EXCEPT ![i].tries = tries]
  BY DEF RetryDeadLetter
<1>5. msgs' = [again EXCEPT ![i] = e]
  BY <1>1, <1>3, <1>4
<1>6. \E thrown \in BOOLEAN : Publish(Key(msgs[i]), thrown)
  BY DEF RetryDeadLetter
<1> HIDE DEF e, again, i
<1>7. Grows(e)
  BY <1>1, <1>2, <1>3, <1>4, <1>5, ResentGrows
<1> QED BY <1>1, <1>2, <1>6, <1>7

LEMMA RetryIInv == ASSUME IInv, NEW k \in 1..Len(dead), RetryDeadLetter(k) PROVE IInv'
<1> DEFINE i == dead[k]
           n == Len(msgs)
           tries == msgs[i].tries + 1
           rest == RemoveAt(dead, k)
           e == [msgs[i] EXCEPT !.tries = tries]
           again == Append(msgs, e)
           added == IF tries >= MaxRetries THEN AddDeadLetter(rest, Len(again)) ELSE rest
<1>1. n \in Nat /\ i \in Ids /\ Ids = 1..n /\ msgs[i] \in Envelope /\ msgs[i].parent \in 0..n
  BY MessageFacts, ElementOfSeq
<1>2. e \in Envelope /\ e.parent = msgs[i].parent /\ Key(e) = Key(msgs[i])
  BY <1>1 DEF Envelope, Key
<1>3. /\ again \in Seq(Envelope) /\ Len(again) = n + 1 /\ again[n + 1] = e
      /\ \A j \in 1..n : again[j] = msgs[j]
  BY <1>1, <1>2 DEF IInv, AcpTypeOK
<1>4. Len(msgs) < MaxMessages /\ msgs' = [again EXCEPT ![i].tries = tries]
  BY DEF RetryDeadLetter
<1>5. msgs' = [again EXCEPT ![i] = e]
  BY <1>1, <1>3, <1>4
<1>7. Grows(e)
  <2> HIDE DEF e, again, i
  <2> QED
    BY <1>1, <1>2, <1>3, <1>4, <1>5, ResentGrows
<1>8. PICK thrown \in BOOLEAN : /\ Publish(Key(e), thrown)
                                /\ dead' = IF thrown THEN AddDeadLetter(added, i) ELSE rest
  BY <1>2 DEF RetryDeadLetter
<1>9. rest \in Seq(1..(n + 1)) /\ Len(rest) <= MaxDeadLetters
  BY LettersGrow, RemoveKeeps, LenProperties, BusAssumption DEF IInv, AcpTypeOK
<1>10. n + 1 \in 1..(n + 1) /\ i \in 1..(n + 1) /\ n + 1 \in Nat
  BY <1>1
<1>11. added \in Seq(1..(n + 1))
  BY <1>3, <1>9, <1>10, AddKeeps
<1>12. dead' \in Seq(1..(n + 1)) /\ Len(dead') <= MaxDeadLetters
  <2> HIDE DEF added, rest, i
  <2> QED
    BY <1>8, <1>9, <1>10, <1>11, AddKeeps
<1>13. unack' \subseteq 1..(n + 1) /\ "none" \in Views /\ "none" # "waiting"
  BY <1>3, MessageFacts DEF RetryDeadLetter, Views
<1>14. caller' = Append(caller, "none") /\ UNCHANGED <<started, pending, pendingCount>>
  BY DEF RetryDeadLetter
<1> HIDE DEF e
<1> QED
  BY <1>7, <1>8, <1>12, <1>13, <1>14, SentKeeps

\* What putting a message somewhere does to the places.
LEMMA PutKeeps ==
    ASSUME IInv, NEW i \in Ids, NEW where \in Places \ {"dropped", "failed"},
           at[i] \in {"transit", "handled"}, at' = [at EXCEPT ![i] = where]
    PROVE  /\ at' \in Seq(Places) /\ Len(at') = Len(at)
           /\ \A j \in Ids : at'[j] \in {"dropped", "failed"} <=> at[j] \in {"dropped", "failed"}
           /\ \A j \in Ids : at'[j] = "dropped" => at[j] = "dropped"
<1>1. at \in Seq(Places) /\ i \in 1..Len(at) /\ Ids = 1..Len(at)
  BY MessageFacts DEF IInv, AcpTypeOK
<1>2. /\ at' \in Seq(Places) /\ Len(at') = Len(at)
      /\ \A j \in Ids : at'[j] = IF j = i THEN where ELSE at[j]
  BY <1>1, ExceptSeq
<1> QED
  BY <1>2

\* The entry of one request goes.
LEMMA ForgetKeeps ==
    ASSUME IInv, NEW i \in pending
    PROVE  IsFiniteSet(pending \ {i}) /\ pendingCount - 1 = Cardinality(pending \ {i})
BY FS_RemoveElement, FS_CardinalityType DEF IInv, PendingCounted

LEMMA DeliveryIInv ==
    ASSUME IInv, NEW i \in Ids, Unheard(i) \/ Reply(i) \/ Handle(i) \/ HandlerFails(i)
    PROVE  IInv'
<1>1. /\ dead \in Seq(Ids) /\ Len(dead) <= MaxDeadLetters /\ caller \in Seq(Views)
      /\ started \in BOOLEAN /\ IsFiniteSet(pending) /\ pendingCount = Cardinality(pending)
      /\ \A j \in Ids : caller[j] = "waiting" => j \in pending
  BY DEF IInv, AcpTypeOK, PendingCounted
<1>2. {"unheard", "reply", "handled", "threw"} \subseteq Places \ {"dropped", "failed"}
  BY DEF Places, Undelivered
<1>3. CASE Unheard(i)
  BY <1>1, <1>2, <1>3, PutKeeps, MoveKeeps DEF Unheard, Put, busVars
<1>4. CASE Handle(i)
  BY <1>1, <1>2, <1>4, PutKeeps, MoveKeeps DEF Handle, Put, busVars
<1>5. CASE Reply(i)
  <2>1. msgs[i].parent \in pending
    BY <1>5 DEF Reply, IsReply
  <2>2. /\ caller' \in Seq(Views) /\ Len(caller') = Len(caller)
        /\ \A j \in Ids : caller'[j] = "waiting" => j \in pending \ {msgs[i].parent}
    BY <1>5, SettleKeeps DEF Reply, Views
  <2>3. IsFiniteSet(pending') /\ pendingCount' = Cardinality(pending') /\ pending' \subseteq pending
    BY <1>5, <2>1, ForgetKeeps DEF Reply
  <2>4. at[i] = "transit" /\ at' = [at EXCEPT ![i] = "reply"] /\ UNCHANGED <<store, seen, msgs, unack>>
    BY <1>5 DEF Reply, Put
  <2>5. pending' = pending \ {msgs[i].parent} /\ started' = started /\ dead' = dead
    BY <1>5 DEF Reply
  <2> QED
    BY <1>1, <1>2, <2>2, <2>3, <2>4, <2>5, PutKeeps, MoveKeeps
<1>6. CASE HandlerFails(i)
  <2>1. dead' \in Seq(Ids) /\ Len(dead') <= MaxDeadLetters
    BY <1>6, MessageFacts, AddKeeps DEF HandlerFails
  <2>2. at[i] = "handled" /\ at' = [at EXCEPT ![i] = "threw"]
    BY <1>6 DEF HandlerFails
  <2>3. UNCHANGED <<store, seen, started, msgs, caller, pending, pendingCount, unack>>
    BY <1>6 DEF HandlerFails
  <2> QED
    BY <1>1, <1>2, <2>1, <2>2, <2>3, PutKeeps, MoveKeeps
<1> QED
  BY <1>3, <1>4, <1>5, <1>6

LEMMA TimerIInv == ASSUME IInv, (\E i \in Ids : Timeout(i)) \/ Stop \/ Start PROVE IInv'
<1>1. /\ dead \in Seq(Ids) /\ Len(dead) <= MaxDeadLetters /\ caller \in Seq(Views)
      /\ at \in Seq(Places)
      /\ started \in BOOLEAN /\ IsFiniteSet(pending) /\ pendingCount = Cardinality(pending)
      /\ \A j \in Ids : caller[j] = "waiting" => j \in pending
  BY DEF IInv, AcpTypeOK, PendingCounted
<1>2. ASSUME NEW i \in Ids, Timeout(i) PROVE IInv'
  <2>1. /\ caller' \in Seq(Views) /\ Len(caller') = Len(caller)
        /\ \A j \in Ids : caller'[j] = "waiting" => j \in pending \ {i}
    BY <1>2, SettleKeeps DEF Timeout, Views
  <2>2. /\ pending' = pending \ {i} /\ IsFiniteSet(pending')
        /\ pendingCount' = Cardinality(pending')
    BY <1>2, ForgetKeeps DEF Timeout
  <2>3. UNCHANGED <<store, seen, at, started, msgs, unack, dead>>
    BY <1>2 DEF Timeout, highwayVars
  <2> QED
    BY <1>1, <2>1, <2>2, <2>3, MoveKeeps
<1>3. CASE Stop
  <2>1. /\ caller' \in Seq(Views) /\ Len(caller') = Len(caller)
        /\ \A j \in Ids : caller'[j] = "waiting" => j \in pending \ pending
    BY <1>3, SettleKeeps DEF Stop, RejectPending, Views
  <2>2. pending' = {} /\ IsFiniteSet(pending') /\ pendingCount' = Cardinality(pending')
    BY <1>3, FS_EmptySet DEF Stop, RejectPending
  <2>3. UNCHANGED <<store, seen, at, msgs, unack, dead>> /\ started' \in BOOLEAN
    BY <1>3 DEF Stop, highwayVars
  <2> QED
    BY <1>1, <2>1, <2>2, <2>3, MoveKeeps
<1>4. CASE Start
  BY <1>1, <1>4, MoveKeeps DEF Start, highwayVars
<1> QED
  BY <1>2, <1>3, <1>4

\* The highway may forget keys, and nothing else looks at them.
LEMMA CleanIInv == IInv /\ CleanDedupHashes /\ UNCHANGED busVars => IInv'
BY DEF CleanDedupHashes, busVars, IInv, AcpTypeOK, Ids, PendingCounted,
       SeenHaveOriginal, DropsHaveOriginal, Key

LEMMA StutterIInv == IInv /\ UNCHANGED vars => IInv'
BY DEF vars, highwayVars, busVars, IInv, AcpTypeOK, Ids, PendingCounted,
       SeenHaveOriginal, DropsHaveOriginal, Key

LEMMA StepIInv == IInv /\ [Next]_vars => IInv'
<1> SUFFICES ASSUME IInv, [Next]_vars PROVE IInv'
  OBVIOUS
<1>1. CASE SendMessage
  BY <1>1, SendMessageIInv
<1>2. CASE Request
  BY <1>2, RequestIInv
<1>3. CASE Start \/ Stop \/ \E i \in Ids : Timeout(i)
  BY <1>3, TimerIInv
<1>4. CASE CleanDedupHashes /\ UNCHANGED busVars
  BY <1>4, CleanIInv
<1>5. CASE \E i \in Ids : Acknowledge(i)
  BY <1>5, AcknowledgeIInv
<1>6. CASE \E i \in Ids : Unheard(i) \/ Reply(i) \/ Handle(i) \/ HandlerFails(i)
  BY <1>6, DeliveryIInv
<1>7. CASE \E k \in 1..Len(dead) : RetryDeadLetter(k)
  BY <1>7, RetryIInv
<1>8. CASE UNCHANGED vars
  BY <1>8, StutterIInv
<1> QED
  BY <1>1, <1>2, <1>3, <1>4, <1>5, <1>6, <1>7, <1>8 DEF Next

LEMMA Invariance == Spec => []IInv
<1>1. Init => IInv
  BY InitIInv
<1>2. IInv /\ [Next]_vars => IInv'
  BY StepIInv
<1> QED
  BY <1>1, <1>2, PTL DEF Spec

-----------------------------------------------------------------------------
(* Requests and their answers *)

Heard == {"reply", "handled", "threw"}
Answers(j, i) == at[j] = "reply" /\ msgs[j].parent = i

\* Whatever names a message was sent when that one had been heard; an entry of
\* pendingRequests belongs to a caller that waits, or to a request that never
\* got onto the highway, which nothing can name; and a message taken for an
\* answer is the only one of its request, whose caller was told.
Answered ==
    /\ \A j \in Ids : msgs[j].parent # 0 => at[msgs[j].parent] \in Heard
    /\ \A i \in pending : caller[i] = "waiting" \/ at[i] = "failed"
    /\ \A j \in Ids : at[j] = "reply" => msgs[j].parent # 0 /\ caller[msgs[j].parent] = "response"
    /\ \A i \in Ids : caller[i] = "response" =>
         \E j \in Ids : Answers(j, i) /\ \A k \in Ids : Answers(k, i) => k = j

\* A message that is sent answers nothing yet.
LEMMA SentAnswered ==
    ASSUME IInv, Answered, NEW e, Grows(e), NEW thrown \in BOOLEAN, Publish(Key(e), thrown),
           e.parent # 0 => at[e.parent] \in Heard,
           NEW view \in {"none", "failed", "waiting"}, caller' = Append(caller, view),
           \/ pending' = pending
           \/ pending' = pending \cup {Len(msgs) + 1} /\ (view = "waiting" \/ thrown)
    PROVE  Answered'
<1> DEFINE n == Len(msgs)
           where == IF Key(e) \in seen THEN "dropped" ELSE IF thrown THEN "failed" ELSE "transit"
<1>1. /\ n \in Nat /\ Ids = 1..n /\ Ids' = 1..(n + 1) /\ Len(at) = n /\ Len(caller) = n
      /\ at \in Seq(Places) /\ caller \in Seq(Views) /\ pending \subseteq 1..n
      /\ \A i \in 1..n : msgs[i].parent \in 0..(i - 1)
  BY MessageFacts DEF Grows, IInv, AcpTypeOK, Ids
<1>2. /\ at'[n + 1] = where /\ \A i \in 1..n : at'[i] = at[i]
      /\ where \notin Heard /\ (thrown => where = "failed")
  BY <1>1 DEF Publish, Heard
<1>3. caller'[n + 1] = view /\ \A i \in 1..n : caller'[i] = caller[i]
  BY <1>1
<1>4. /\ msgs'[n + 1].parent = e.parent /\ e.parent \in 0..n
      /\ \A i \in 1..n : msgs'[i].parent = msgs[i].parent
  BY <1>1 DEF Grows
<1> HIDE DEF where
<1>5. \A j \in Ids' : msgs'[j].parent # 0 => at'[msgs'[j].parent] \in Heard
  <2>1. ASSUME NEW j \in 1..n, msgs'[j].parent # 0 PROVE at'[msgs'[j].parent] \in Heard
    <3>1. msgs[j].parent \in 1..n /\ at[msgs[j].parent] \in Heard
      BY <1>1, <1>4, <2>1 DEF Answered
    <3> QED BY <1>2, <1>4, <3>1
  <2>2. e.parent # 0 => at'[e.parent] \in Heard
    BY <1>1, <1>2, <1>4
  <2> QED BY <1>1, <1>4, <2>1, <2>2
<1>6. \A i \in pending' : caller'[i] = "waiting" \/ at'[i] = "failed"
  <2>1. ASSUME NEW i \in pending PROVE caller'[i] = "waiting" \/ at'[i] = "failed"
    <3>1. i \in 1..n /\ (caller[i] = "waiting" \/ at[i] = "failed")
      BY <1>1, <2>1 DEF Answered
    <3> QED BY <1>2, <1>3, <3>1
  <2>2. view = "waiting" \/ thrown => caller'[n + 1] = "waiting" \/ at'[n + 1] = "failed"
    BY <1>2, <1>3
  <2>3. pending' = pending \/ (pending' = pending \cup {n + 1} /\ (view = "waiting" \/ thrown))
    OBVIOUS
  <2> QED BY <2>1, <2>2, <2>3
<1>7. \A j \in Ids' : at'[j] = "reply" => msgs'[j].parent # 0 /\ caller'[msgs'[j].parent] = "response"
  <2>1. ASSUME NEW j \in 1..n, at[j] = "reply"
        PROVE  msgs'[j].parent # 0 /\ caller'[msgs'[j].parent] = "response"
    <3>1. msgs[j].parent \in 1..n /\ caller[msgs[j].parent] = "response"
      BY <1>1, <2>1 DEF Answered
    <3> QED BY <1>1, <1>3, <1>4, <3>1
  <2>2. \A j \in Ids' : at'[j] = "reply" => j \in 1..n /\ at[j] = "reply"
    <3>1. \A j \in Ids' : j \in 1..n \/ j = n + 1
      BY <1>1
    <3>2. at'[n + 1] # "reply"
      BY <1>2 DEF Heard
    <3> QED BY <1>2, <3>1, <3>2
  <2> QED BY <2>1, <2>2
<1>8. \A i \in Ids' : caller'[i] = "response" =>
        \E j \in Ids' : Answers(j, i)' /\ \A k \in Ids' : Answers(k, i)' => k = j
  <2>1. \A k \in Ids', i \in 1..n : Answers(k, i)' <=> k \in 1..n /\ Answers(k, i)
    BY <1>1, <1>2, <1>4 DEF Answers, Heard
  <2>2. ASSUME NEW i \in 1..n, caller[i] = "response"
        PROVE  \E j \in Ids' : Answers(j, i)' /\ \A k \in Ids' : Answers(k, i)' => k = j
    <3>1. PICK j \in 1..n : Answers(j, i) /\ \A k \in 1..n : Answers(k, i) => k = j
      BY <1>1, <2>2 DEF Answered
    <3>2. j \in Ids'
      BY <1>1
    <3> QED BY <2>1, <3>1, <3>2
  <2> QED BY <1>1, <1>3, <2>2
<1> QED BY <1>5, <1>6, <1>7, <1>8 DEF Answered

\* A step that sends nothing and takes nothing for an answer.
LEMMA MovedAnswered ==
    ASSUME IInv, Answered, UNCHANGED msgs,
           \A i \in Ids : at'[i] = "reply" <=> at[i] = "reply",
           \A i \in Ids : at[i] \in Heard => at'[i] \in Heard,
           \A i \in Ids : at[i] = "failed" => at'[i] = "failed",
           pending' \subseteq pending, \A i \in pending' : caller'[i] = caller[i],
           \A i \in Ids : caller'[i] = "response" <=> caller[i] = "response"
    PROVE  Answered'
<1>1. /\ Ids' = Ids /\ Ids = 1..Len(msgs) /\ Len(msgs) \in Nat /\ pending \subseteq Ids
      /\ \A i \in Ids : msgs[i].parent \in 0..(i - 1)
  BY MessageFacts DEF Ids
<1>2. \A i \in Ids : msgs[i].parent # 0 => msgs[i].parent \in Ids
  BY <1>1
<1>3. \A i, j \in Ids : Answers(j, i)' <=> Answers(j, i)
  BY DEF Answers
<1> QED BY <1>1, <1>2, <1>3, SMTT(30) DEF Answered

\* A reply finds its request waiting and unanswered.
LEMMA ReplyAnswered ==
    ASSUME IInv, Answered, NEW j \in Ids, Reply(j)
    PROVE  Answered'
<1> DEFINE p == msgs[j].parent
<1>1. /\ Ids' = Ids /\ Ids = 1..Len(msgs) /\ Len(msgs) \in Nat /\ pending \subseteq Ids
      /\ Len(at) = Len(msgs)
      /\ \A i \in Ids : msgs[i].parent \in 0..(i - 1)
  BY MessageFacts DEF Reply, Ids
<1>2. /\ p \in pending /\ at[j] = "transit" /\ msgs' = msgs /\ pending' = pending \ {p}
      /\ at' = [at EXCEPT ![j] = "reply"] /\ Settle({p}, "response")
  BY DEF Reply, IsReply, Put
<1>3. p \in Ids /\ p # 0 /\ at[p] \in Heard
  BY <1>1, <1>2 DEF Answered
<1>4. caller[p] = "waiting"
  BY <1>2, <1>3 DEF Answered, Heard
<1>5. \A i \in Ids : at'[i] = IF i = j THEN "reply" ELSE at[i]
  <2>1. at \in Seq(Places) /\ j \in 1..Len(at)
    BY <1>1 DEF IInv, AcpTypeOK
  <2> QED BY <1>1, <1>2, <2>1, ExceptSeq
<1>6. \A i \in Ids : caller'[i] = IF i = p THEN "response" ELSE caller[i]
  BY <1>2, <1>4 DEF Settle
<1>7. \A i \in Ids : msgs[i].parent # 0 => msgs[i].parent \in Ids
  BY <1>1
<1>8. \A i, k \in Ids : Answers(k, i)' <=> Answers(k, i) \/ (k = j /\ i = p)
  BY <1>2, <1>5 DEF Answers
<1>9. \A k \in Ids : ~Answers(k, p)
  BY <1>3, <1>4 DEF Answered, Answers
<1> HIDE DEF p
<1>10. \A k \in Ids : msgs[k].parent # 0 => at'[msgs[k].parent] \in Heard
  BY <1>5, <1>7 DEF Answered, Heard
<1>11. \A i \in pending' : caller'[i] = "waiting" \/ at'[i] = "failed"
  BY <1>1, <1>2, <1>5, <1>6 DEF Answered
<1>12. \A k \in Ids : at'[k] = "reply" => msgs[k].parent # 0 /\ caller'[msgs[k].parent] = "response"
  BY <1>3, <1>5, <1>6, <1>7 DEF Answered, p
<1>13. \A i \in Ids : caller'[i] = "response" =>
         \E k \in Ids : Answers(k, i)' /\ \A m \in Ids : Answers(m, i)' => m = k
  <2>1. ASSUME NEW i \in Ids, caller'[i] = "response", i # p
        PROVE  \E k \in Ids : Answers(k, i)' /\ \A m \in Ids : Answers(m, i)' => m = k
    <3>1. caller[i] = "response"
      BY <1>6, <2>1
    <3>2. PICK k \in Ids : Answers(k, i) /\ \A m \in Ids : Answers(m, i) => m = k
      BY <3>1 DEF Answered
    <3>3. \A m \in Ids : Answers(m, i)' <=> Answers(m, i)
      BY <1>8, <2>1
    <3> QED BY <3>2, <3>3
  <2>2. ASSUME NEW i \in Ids, i = p
        PROVE  \E k \in Ids : Answers(k, i)' /\ \A m \in Ids : Answers(m, i)' => m = k
    <3>1. \A m \in Ids : Answers(m, i)' <=> m = j
      BY <1>8, <1>9, <2>2
    <3> QED BY <3>1
  <2> QED BY <2>1, <2>2
<1> QED BY <1>1, <1>2, <1>10, <1>11, <1>12, <1>13 DEF Answered

LEMMA SendingAnswered ==
    ASSUME IInv, Answered,
           SendMessage \/ Request \/ (\E i \in Ids : Acknowledge(i))
             \/ \E k \in 1..Len(dead) : RetryDeadLetter(k)
    PROVE  Answered'
<1>1. Len(msgs) \in Nat
  BY MessageFacts
<1>2. CASE SendMessage \/ Request
  <2>1. PICK e \in Sayable, thrown \in BOOLEAN :
           /\ Send(e, thrown)
           /\ \/ pending' = pending /\ caller' = Append(caller, "none")
              \/ /\ pending' = pending \cup {Len(msgs) + 1}
                 /\ caller' = Append(caller, IF thrown THEN "failed" ELSE "waiting")
    BY <1>2 DEF SendMessage, Request
  <2>2. e \in Envelope /\ e.parent \in 0..Len(msgs) /\ (e.parent # 0 => at[e.parent] \in Heard)
    BY MessageFacts, BusAssumption, SMTT(30) DEF Sayable, Envelope, IInv, AcpTypeOK, Got, Heard
  <2>3. Grows(e) /\ Publish(Key(e), thrown)
    BY <2>1, <2>2, AppendGrows DEF Send
  <2>4. CASE pending' = pending /\ caller' = Append(caller, "none")
    BY <2>2, <2>3, <2>4, SentAnswered
  <2>5. CASE /\ pending' = pending \cup {Len(msgs) + 1}
             /\ caller' = Append(caller, IF thrown THEN "failed" ELSE "waiting")
    <3> DEFINE view == IF thrown THEN "failed" ELSE "waiting"
    <3>1. view \in {"none", "failed", "waiting"} /\ (view = "waiting" \/ thrown)
      OBVIOUS
    <3>2. caller' = Append(caller, view)
      BY <2>5
    <3> HIDE DEF view
    <3> QED BY <2>2, <2>3, <2>5, <3>1, <3>2, SentAnswered
  <2> QED BY <2>1, <2>4, <2>5
<1>3. ASSUME NEW i \in Ids, Acknowledge(i) PROVE Answered'
  <2> DEFINE known == i \in unack
             ack == [from |-> msgs[i].to, to |-> IF known THEN msgs[i].from ELSE System,
                     type |-> "ack", parent |-> IF known THEN msgs[i].parent ELSE 0, tries |-> 0]
  <2>1. msgs[i] \in Envelope /\ msgs[i].parent \in 0..Len(msgs)
    BY <1>1, MessageFacts
  <2>2. ack \in Envelope /\ ack.parent \in 0..Len(msgs)
    BY <1>1, <1>3, <2>1, BusAssumption DEF Acknowledge, Envelope
  <2>3. PICK thrown \in BOOLEAN : Send(ack, thrown)
    BY <1>3 DEF Acknowledge
  <2>4. ack.parent # 0 => at[ack.parent] \in Heard
    BY <2>1 DEF Answered
  <2>5. pending' = pending /\ caller' = Append(caller, "none")
    BY <1>3 DEF Acknowledge
  <2> HIDE DEF ack
  <2>6. Grows(ack) /\ Publish(Key(ack), thrown)
    BY <2>2, <2>3, AppendGrows DEF Send
  <2> QED BY <2>4, <2>5, <2>6, SentAnswered
<1>4. ASSUME NEW k \in 1..Len(dead), RetryDeadLetter(k) PROVE Answered'
  <2>1. PICK e \in Envelope, i \in Ids, thrown \in BOOLEAN :
           Grows(e) /\ Publish(Key(e), thrown) /\ e.parent = msgs[i].parent
    BY <1>4, RetrySends
  <2>2. e.parent # 0 => at[e.parent] \in Heard
    BY <2>1 DEF Answered
  <2>3. pending' = pending /\ caller' = Append(caller, "none")
    BY <1>4 DEF RetryDeadLetter
  <2> QED BY <2>1, <2>2, <2>3, SentAnswered
<1> QED BY <1>2, <1>3, <1>4

LEMMA StepAnswered == IInv /\ Answered /\ [Next]_vars => Answered'
<1> SUFFICES ASSUME IInv, Answered, [Next]_vars PROVE Answered'
  OBVIOUS
<1>1. /\ Ids = 1..Len(at) /\ Ids = 1..Len(caller) /\ Ids = 1..Len(msgs) /\ pending \subseteq Ids
      /\ at \in Seq(Places) /\ caller \in Seq(Views)
  BY MessageFacts DEF IInv, AcpTypeOK
<1>2. CASE SendMessage \/ Request \/ (\E i \in Ids : Acknowledge(i))
             \/ \E k \in 1..Len(dead) : RetryDeadLetter(k)
  BY <1>2, SendingAnswered
<1>3. ASSUME NEW i \in Ids, Unheard(i) \/ Handle(i) \/ HandlerFails(i) PROVE Answered'
  <2>1. /\ UNCHANGED <<msgs, caller, pending>>
        /\ \/ at[i] = "transit" /\ at' = [at EXCEPT ![i] = "unheard"]
           \/ at[i] = "transit" /\ at' = [at EXCEPT ![i] = "handled"]
           \/ at[i] = "handled" /\ at' = [at EXCEPT ![i] = "threw"]
    BY <1>3 DEF Unheard, Handle, HandlerFails, Put, busVars
  <2>2. PICK where \in {"unheard", "handled", "threw"} :
           /\ at' = [at EXCEPT ![i] = where] /\ at[i] \in {"transit", "handled"}
           /\ at[i] = "handled" => where = "threw"
    BY <2>1
  <2>3. \A j \in Ids : at'[j] = IF j = i THEN where ELSE at[j]
    BY <1>1, <2>2, ExceptSeq
  <2> QED BY <2>1, <2>2, <2>3, MovedAnswered DEF Heard
<1>4. ASSUME NEW i \in Ids, Reply(i) PROVE Answered'
  BY <1>4, ReplyAnswered
<1>5. ASSUME NEW i \in Ids, Timeout(i) PROVE Answered'
  <2>1. /\ UNCHANGED <<msgs, at>> /\ pending' = pending \ {i}
        /\ \A j \in Ids : caller'[j] = IF j \in {i} /\ caller[j] = "waiting" THEN "timeout" ELSE caller[j]
    BY <1>5 DEF Timeout, Settle, highwayVars
  <2> QED BY <1>1, <2>1, MovedAnswered
<1>6. CASE Stop
  <2>1. /\ UNCHANGED <<msgs, at>> /\ pending' = {}
        /\ \A j \in Ids : caller'[j] = IF j \in pending /\ caller[j] = "waiting" THEN "stopped" ELSE caller[j]
    BY <1>6 DEF Stop, RejectPending, Settle, highwayVars
  <2> QED BY <2>1, MovedAnswered
<1>7. CASE Start \/ (CleanDedupHashes /\ UNCHANGED busVars) \/ UNCHANGED vars
  <2>1. UNCHANGED <<msgs, at, caller, pending>>
    BY <1>7 DEF Start, CleanDedupHashes, busVars, vars, highwayVars
  <2> QED BY <2>1, MovedAnswered
<1> QED BY <1>2, <1>3, <1>4, <1>5, <1>6, <1>7 DEF Next

-----------------------------------------------------------------------------
(* Theorems *)

\* Messages answer earlier ones only, every entry of the maps of acp.ts and every
\* dead letter names a message that was sent, and addDeadLetter keeps its limit.
THEOREM BusTypeCorrect == Spec => []AcpTypeOK
<1>1. IInv => AcpTypeOK
  BY DEF IInv
<1> QED
  BY <1>1, Invariance, PTL

\* metrics.pendingRequests is the size of the map pendingRequests, and whoever
\* still waits has an entry in it: response, timer and stop() settle each
\* request once, in whichever order they come.
THEOREM CounterFollowsMap == Spec => []PendingCounted
<1>1. IInv => PendingCounted
  BY DEF IInv
<1> QED
  BY <1>1, Invariance, PTL

\* publish() drops a message only when an equal one got onto the highway before
\* it: with a store or without one, however many saves fail and however often
\* the timer of recentHashes cleans.
THEOREM DropsOnlyRepeats == Spec => []DropsHaveOriginal
<1>1. IInv => DropsHaveOriginal
  BY DEF IInv
<1> QED
  BY <1>1, Invariance, PTL

\* A request is answered by one message, made after it and naming it, that no
\* handler sees, and only by a caller's own waiting request is a message taken
\* for an answer: late answers, timeouts, stop() and retries never mix them up.
THEOREM AnswersMatch == Spec => []AnswerMatches
<1>1. Init => Answered
  BY DEF Init, Answered, Ids
<1>2. IInv /\ Answered => AnswerMatches
  <2> SUFFICES ASSUME IInv, Answered PROVE AnswerMatches
    OBVIOUS
  <2>1. Ids = 1..Len(msgs) /\ Len(msgs) \in Nat /\ \A i \in Ids : msgs[i].parent \in 0..(i - 1)
    BY MessageFacts
  <2>2. ASSUME NEW i \in Ids, caller[i] = "response"
        PROVE  /\ at[i] \notin Undelivered \cup {"unheard"}
               /\ Cardinality({j \in (i + 1)..Len(msgs) : at[j] = "reply" /\ msgs[j].parent = i}) = 1
    <3>1. PICK j \in Ids : Answers(j, i) /\ \A k \in Ids : Answers(k, i) => k = j
      BY <2>2 DEF Answered
    <3>2. j \in (i + 1)..Len(msgs) /\ msgs[j].parent # 0
      BY <2>1, <3>1 DEF Answers
    <3>3. {k \in (i + 1)..Len(msgs) : at[k] = "reply" /\ msgs[k].parent = i} = {j}
      <4>1. \A k \in (i + 1)..Len(msgs) : k \in Ids
        BY <2>1
      <4> QED BY <3>1, <3>2, <4>1 DEF Answers
    <3>4. at[i] \in Heard
      BY <3>1, <3>2 DEF Answered, Answers
    <3>5. Cardinality({j}) = 1
      BY FS_Singleton
    <3> QED BY <3>3, <3>4, <3>5 DEF Heard, Undelivered
  <2>3. \A j \in Ids : at[j] = "reply" => msgs[j].parent \in Ids /\ caller[msgs[j].parent] = "response"
    BY <2>1 DEF Answered
  <2> QED BY <2>2, <2>3 DEF AnswerMatches
<1> QED
  BY <1>1, <1>2, InitIInv, StepIInv, StepAnswered, PTL DEF Spec
=============================================================================
