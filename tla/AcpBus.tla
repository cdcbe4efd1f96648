------------------------------- MODULE AcpBus -------------------------------
(***************************************************************************)
(* The agent communication bus of core/acp.ts on top of the highway: typed *)
(* messages, requests with a timer, acknowledgements and dead letters.     *)
(* Each agent has one handler, which the agents' code provides: it may     *)
(* fail, answer, acknowledge, or do none of these.  Content, its schema    *)
(* (which only logs), hop traces and the communication graph are left out. *)
(*                                                                         *)
(* Of core/memory-highway.ts there is publish(), up to the delivery to the *)
(* wildcard subscriber: the check for duplicates, the row in the messages  *)
(* table and the wait for the RAG index, which later messages may          *)
(* overtake.  With a store the messages table says what is a duplicate,    *)
(* without one the map recentHashes does, which a timer cleans.            *)
(*                                                                         *)
(* A message is named by its place in msgs, 0 stands for no message.       *)
(***************************************************************************)
EXTENDS Naturals, Sequences, FiniteSets, SequencesExt

CONSTANTS
    Agents, System,     \* System is the sender nobody knows
    Types,              \* message types the agents use, "ack" aside
    MaxRetries, MaxDeadLetters,    \* ACPConfig
    MaxMessages         \* bound: calls of send()

ASSUME BusAssumption ==
    /\ System \notin Agents /\ "ack" \notin Types
    /\ MaxRetries \in Nat /\ MaxDeadLetters \in Nat \ {0} /\ MaxMessages \in Nat

VARIABLES
    store,          \* is there a persistent store?
    seen,           \* keys of the hashes of the table, or of recentHashes
    at,             \* message -> where it is: one entry for each publish() so far
    started,        \* this.unsubscribe # null
    msgs,           \* the envelopes send() made
    caller,         \* what the caller of request() sees, none for a plain send()
    pending,        \* keys of this.pendingRequests, each with a running timer
    pendingCount,   \* this.metrics.pendingRequests
    unack,          \* keys of this.unacknowledged
    dead            \* this.deadLetters, oldest first

highwayVars == <<store, seen, at>>
busVars == <<started, msgs, caller, pending, pendingCount, unack, dead>>
vars == <<highwayVars, busVars>>

Ids == 1..Len(msgs)
Envelope == [from : Agents, to : Agents \cup {System}, type : Types \cup {"ack"},
             parent : 0..MaxMessages, tries : Nat]

\* A message waits for the index, or was dropped as a duplicate, or saveMessage
\* threw; the subscriber decides the other places.
Undelivered == {"transit", "dropped", "failed"}
Places == Undelivered \cup {"unheard", "reply", "handled", "threw"}
Views == {"none", "failed", "waiting", "response", "timeout", "stopped"}

AcpTypeOK ==
    /\ store \in BOOLEAN /\ started \in BOOLEAN
    /\ msgs \in Seq(Envelope) /\ Len(msgs) <= MaxMessages
    /\ at \in Seq(Places) /\ Len(at) = Len(msgs)
    /\ caller \in Seq(Views) /\ Len(caller) = Len(msgs)
    /\ \A i \in Ids : msgs[i].parent < i
    /\ pending \subseteq Ids /\ pendingCount \in Nat /\ unack \subseteq Ids
    /\ dead \in Seq(Ids) /\ Len(dead) <= MaxDeadLetters

HighwayInit == store \in BOOLEAN /\ seen = {} /\ at = <<>>

Init ==
    /\ HighwayInit
    /\ started = FALSE
    /\ msgs = <<>> /\ caller = <<>>
    /\ pending = {} /\ pendingCount = 0 /\ unack = {}
    /\ dead = <<>>

-----------------------------------------------------------------------------
(* The highway *)

SeenFirst(key, thrown) == seen \cup {key}              \* seeded fault: marked before the save
\* What counts as seen after a publish that was no duplicate.
NowSeen(key, thrown) == IF thrown THEN seen ELSE seen \cup {key}

\* publish(): a duplicate is dropped without a word; only the store can throw.
Publish(key, thrown) ==
    /\ thrown => store /\ key \notin seen
    /\ seen' = NowSeen(key, thrown)
    /\ at' = Append(at, IF key \in seen THEN "dropped" ELSE IF thrown THEN "failed" ELSE "transit")
    /\ UNCHANGED store

\* cleanDedupHashes(): which hashes are older than the window is a choice.
CleanDedupHashes == ~store /\ seen' \in SUBSET seen /\ UNCHANGED <<store, at>>

-----------------------------------------------------------------------------
\* The highway hashes channel, sender and summary, which repeat these three.
Key(e) == <<e.to, e.from, e.type>>

KeepAll(letters) == letters                            \* seeded fault: not trimmed
LastLetters(letters) ==
    IF Len(letters) > MaxDeadLetters
    THEN SubSeq(letters, Len(letters) - MaxDeadLetters + 1, Len(letters)) ELSE letters
AddDeadLetter(letters, id) == LastLetters(Append(letters, id))

\* send() of e; thrown says whether publish() throws, then only a message out of
\* retries becomes a dead letter.
Send(e, thrown) ==
    LET id == Len(msgs) + 1
    IN /\ Len(msgs) < MaxMessages
       /\ msgs' = Append(msgs, e)
       /\ Publish(Key(e), thrown)
       /\ dead' = IF thrown /\ e.tries >= MaxRetries THEN AddDeadLetter(dead, id) ELSE dead

\* What an agent may say: something new, or something about a message it got.
Got(i, agent) == at[i] \in {"reply", "handled", "threw"} /\ msgs[i].to = agent
Sayable == {e \in [from : Agents, to : Agents, type : Types,
                   parent : {0} \cup Ids, tries : {0}] :
              e.from # e.to /\ (e.parent # 0 => Got(e.parent, e.from) /\ e.to = msgs[e.parent].from)}

SendMessage ==
    \E e \in Sayable, thrown \in BOOLEAN :
       /\ Send(e, thrown)
       /\ unack' = unack \cup {Len(msgs) + 1}
       /\ caller' = Append(caller, "none")
       /\ UNCHANGED <<started, pending, pendingCount>>

\* request(): the pending entry is there before the message is published, and
\* stays when that throws.
Request ==
    \E e \in Sayable, thrown \in BOOLEAN :
       /\ Send(e, thrown)
       /\ unack' = unack \cup {Len(msgs) + 1}
       /\ pending' = pending \cup {Len(msgs) + 1}
       /\ pendingCount' = pendingCount + 1
       /\ caller' = Append(caller, IF thrown THEN "failed" ELSE "waiting")
       /\ UNCHANGED started

\* acknowledge() of i by the agent that got it; a second one goes to System.
Acknowledge(i) ==
    LET known == i \in unack
        ack == [from |-> msgs[i].to, to |-> IF known THEN msgs[i].from ELSE System,
                type |-> "ack", parent |-> IF known THEN msgs[i].parent ELSE 0, tries |-> 0]
    IN /\ Got(i, msgs[i].to) /\ msgs[i].to \in Agents
       /\ \E thrown \in BOOLEAN : Send(ack, thrown)
       /\ unack' = (unack \ {i}) \cup {Len(msgs) + 1}
       /\ caller' = Append(caller, "none")
       /\ UNCHANGED <<started, pending, pendingCount>>

\* retryDeadLetter(): sent again under a new id; when that throws the letter
\* comes back, behind the one send() may have added.
RetryDeadLetter(k) ==
    LET i == dead[k]
        tries == msgs[i].tries + 1
        rest == RemoveAt(dead, k)
        again == Append(msgs, [msgs[i] EXCEPT !.tries = tries])
        added == IF tries >= MaxRetries THEN AddDeadLetter(rest, Len(again)) ELSE rest
    IN /\ Len(msgs) < MaxMessages
       /\ msgs' = [again EXCEPT ![i].tries = tries]
       /\ unack' = unack \cup {Len(again)}
       /\ caller' = Append(caller, "none")
       /\ \E thrown \in BOOLEAN :
            /\ Publish(Key(msgs[i]), thrown)
            /\ dead' = IF thrown THEN AddDeadLetter(added, i) ELSE rest
       /\ UNCHANGED <<started, pending, pendingCount>>

-----------------------------------------------------------------------------
(* handleHighwayMessage() *)

Put(i, where) == at[i] = "transit" /\ at' = [at EXCEPT ![i] = where] /\ UNCHANGED <<store, seen>>
Settle(ids, value) == caller' = [i \in Ids |-> IF i \in ids /\ caller[i] = "waiting"
                                               THEN value ELSE caller[i]]

Unheard(i) == ~started /\ Put(i, "unheard") /\ UNCHANGED busVars

AnyReply(i) == msgs[i].parent # 0 /\ caller[msgs[i].parent] # "none"   \* seeded fault
\* Its parent is a request that still waits: i is the response.
IsReply(i) == msgs[i].parent \in pending

Reply(i) ==
    /\ started /\ IsReply(i)
    /\ Put(i, "reply")
    /\ pending' = pending \ {msgs[i].parent} /\ pendingCount' = pendingCount - 1
    /\ Settle({msgs[i].parent}, "response")
    /\ UNCHANGED <<started, msgs, unack, dead>>

\* Any other message, a late response too, goes to the handler of its receiver.
Handle(i) ==
    /\ started /\ ~IsReply(i)
    /\ Put(i, "handled")
    /\ UNCHANGED busVars

\* A handler that throws, at once or later, leaves a dead letter.
HandlerFails(i) ==
    /\ at[i] = "handled" /\ msgs[i].to \in Agents
    /\ at' = [at EXCEPT ![i] = "threw"]
    /\ dead' = AddDeadLetter(dead, i)
    /\ UNCHANGED <<store, seen, started, msgs, caller, pending, pendingCount, unack>>

Timeout(i) ==
    /\ i \in pending
    /\ pending' = pending \ {i} /\ pendingCount' = pendingCount - 1
    /\ Settle({i}, "timeout")
    /\ UNCHANGED <<highwayVars, started, msgs, unack, dead>>

Start == ~started /\ started' = TRUE
         /\ UNCHANGED <<highwayVars, msgs, caller, pending, pendingCount, unack, dead>>

TimersOnly == pending' = {} /\ pendingCount' = 0 /\ UNCHANGED caller   \* seeded fault: no reject
CountKept == pending' = {} /\ UNCHANGED pendingCount /\ Settle(pending, "stopped") \* seeded fault
RejectPending == pending' = {} /\ pendingCount' = 0 /\ Settle(pending, "stopped")

\* stop() may be called at any time, before start() too.
Stop == /\ started' = FALSE
        /\ RejectPending
        /\ UNCHANGED <<highwayVars, msgs, unack, dead>>

Next ==
    \/ SendMessage \/ Request \/ Start \/ Stop
    \/ CleanDedupHashes /\ UNCHANGED busVars
    \/ \E i \in Ids : \/ Acknowledge(i) \/ Unheard(i) \/ Reply(i) \/ Handle(i)
                      \/ HandlerFails(i) \/ Timeout(i)
    \/ \E k \in 1..Len(dead) : RetryDeadLetter(k)

Spec == Init /\ [][Next]_vars

\* setTimeout fires.  Nothing says that an agent answers or a publish returns.
FairSpec == Spec /\ \A i \in 1..MaxMessages : WF_vars(Timeout(i))

-----------------------------------------------------------------------------
(* Properties *)

\* The counter is the size of the map through every race of response, timer and
\* stop, and a caller that waits has an entry, hence a timer.
PendingCounted ==
    /\ pendingCount = Cardinality(pending)
    /\ \A i \in Ids : caller[i] = "waiting" => i \in pending

\* A request that was answered was answered by one message, made after it and
\* naming it, and somebody had got it; a message taken for a response, which
\* no handler sees, answered a caller that waited.
AnswerMatches ==
    /\ \A i \in Ids : caller[i] = "response" =>
         /\ at[i] \notin Undelivered \cup {"unheard"}
         /\ Cardinality({j \in (i + 1)..Len(msgs) : at[j] = "reply" /\ msgs[j].parent = i}) = 1
    /\ \A j \in Ids : at[j] = "reply" =>
         msgs[j].parent \in Ids /\ caller[msgs[j].parent] = "response"

\* A message is dropped only when one of the same sender, receiver and type did
\* get onto the highway before it; one that could not be saved does not count.
DropsHaveOriginal ==
    \A i \in Ids : at[i] = "dropped" =>
       \E j \in 1..(i - 1) : Key(msgs[j]) = Key(msgs[i]) /\ at[j] \notin {"dropped", "failed"}

\* Every request ends, dropped, unheard and failed ones too.
RequestsEnd == \A i \in 1..MaxMessages :
                  (i \in Ids /\ caller[i] = "waiting") ~> (i \in Ids /\ caller[i] # "waiting")
=============================================================================
