---------------------------- MODULE Conversations ----------------------------
(***************************************************************************)
(* One conversation in the store: the operations of ConversationManager    *)
(* (core/conversation.ts), the handoffs of HandoffManager (core/handoff.ts)*)
(* and a GroupChat (core/group-chat.ts) that holds its rounds in it.       *)
(* A message is its number and the millisecond it was created in; those of *)
(* one millisecond are kept in the order of their numbers.                 *)
(***************************************************************************)
EXTENDS Naturals, Sequences, FiniteSets, SequencesExt, FiniteSetsExt

CONSTANTS
    Members,         \* the agents
    MaxChain,        \* maxChainLength
    MaxMessages,     \* maxMessagesPerConversation
    KeptByHandoff,   \* what a handoff without the history keeps: 5 messages
    ContextLimit,    \* what getHandoffContext() asks for: 20 messages
    MaxRounds,       \* of the group chat
    MaxSaid,         \* bound: messages
    NoConversation

VARIABLES
    conversation,    \* the row: handoff chain and status
    messages,        \* its messages, oldest first
    said, ms,        \* how many messages there were, and the clock
    snapshot,        \* a checkpoint somebody keeps
    restored,        \* history: whether one was restored
    handoffs,        \* history: the pairs handed off since it was created or restored
    round, chat      \* the group chat: rounds held, and what it is doing

convVars == <<conversation, messages, said, ms, snapshot, restored, handoffs, round, chat>>
chatVars == <<round, chat>>

Statuses == {"active", "completed"}      \* paused and aborted are treated as completed is
Rows == [chain : BoundedSeq(Members, MaxChain), status : Statuses]
Message == [id : 1..MaxSaid, at : 0..MaxSaid]

ConversationsTypeOK ==
    /\ conversation \in {NoConversation} \cup Rows
    /\ messages \in Seq(Message) /\ said \in 0..MaxSaid /\ ms \in 0..MaxSaid
    /\ snapshot = NoConversation \/ (snapshot.row \in Rows /\ snapshot.messages \in Seq(Message))
    /\ restored \in BOOLEAN /\ handoffs \in Seq(Members \X Members)
    /\ round \in 0..MaxRounds /\ chat \in {"none", "speaking", "ended", "failed"}

ConversationsInit ==
    /\ conversation = NoConversation /\ messages = <<>> /\ said = 0 /\ ms = 0
    /\ snapshot = NoConversation /\ restored = FALSE /\ handoffs = <<>>
    /\ round = 0 /\ chat = "none"

-----------------------------------------------------------------------------

Exists == conversation # NoConversation
Oldest(limit) == SubSeq(messages, 1, IF Len(messages) < limit THEN Len(messages) ELSE limit)

TrimmedOldest(ms1, keep) ==                          \* seeded fault: ascending order
    IF Len(ms1) <= keep THEN ms1
    ELSE SelectSeq(ms1, LAMBDA m : m.at < ms1[keep + 1].at)
\* trimConversationMessages(): what is older than the newest but keep, at the front.
Trimmed(ms1, keep) ==
    IF Len(ms1) <= keep THEN ms1
    ELSE SubSeq(ms1, Min({i \in DOMAIN ms1 : ms1[i].at >= ms1[Len(ms1) - keep].at}), Len(ms1))

\* A message is created now; keep is how many addMessage(), or a handoff, leaves.
Says(keep) ==
    /\ said < MaxSaid
    /\ said' = said + 1 /\ ms' \in {ms, ms + 1}
    /\ messages' = Trimmed(Append(messages, [id |-> said + 1, at |-> ms']), keep)

Create ==
    /\ ~Exists
    /\ conversation' = [chain |-> <<>>, status |-> "active"]
    /\ UNCHANGED <<messages, said, ms, snapshot, restored, handoffs, chatVars>>

AddMessage ==
    /\ Exists /\ Says(MaxMessages)
    /\ UNCHANGED <<conversation, snapshot, restored, handoffs, chatVars>>

SetStatus(s) ==
    /\ Exists /\ conversation' = [conversation EXCEPT !.status = s]
    /\ UNCHANGED <<messages, said, ms, snapshot, restored, handoffs, chatVars>>

Checkpoint ==
    /\ Exists /\ snapshot = NoConversation       \* bound: one
    /\ snapshot' = [row |-> conversation, messages |-> messages]
    /\ UNCHANGED <<conversation, messages, said, ms, restored, handoffs, chatVars>>

\* restore(): the row as it was, but active; messages of later stay.
Earlier(m, n) == m.at < n.at \/ (m.at = n.at /\ m.id < n.id)
Restore ==
    /\ snapshot # NoConversation
    /\ conversation' = [snapshot.row EXCEPT !.status = "active"]
    /\ messages' = SetToSortSeq(ToSet(messages) \cup ToSet(snapshot.messages), Earlier)
    /\ restored' = TRUE /\ handoffs' = <<>>
    /\ UNCHANGED <<said, ms, snapshot, chatVars>>

DetectReturn(to) ==                                  \* seeded fault: only the last one
    Len(conversation.chain) >= MaxChain \/ (conversation.chain # <<>> /\ to = Last(conversation.chain))
\* detectCycle(): the chain is full, or the target handed the conversation off before.
DetectCycle(to) == Len(conversation.chain) >= MaxChain \/ to \in ToSet(conversation.chain)

\* handoff() of an existing conversation, to an agent that is there and up: the row
\* is written again, and so active again, whatever status it had.
Handoff(from, to, preserveHistory) ==
    /\ Exists /\ ~DetectCycle(to)
    /\ Says(IF preserveHistory THEN MaxSaid ELSE KeptByHandoff)
    /\ conversation' = [chain |-> Append(conversation.chain, from), status |-> "active"]
    /\ handoffs' = Append(handoffs, <<from, to>>)
    /\ UNCHANGED <<snapshot, restored, chatVars>>

\* handoff() without a conversation makes one.
HandoffNew(from, to) ==
    /\ ~Exists /\ Says(MaxSaid)
    /\ conversation' = [chain |-> <<from>>, status |-> "active"]
    /\ handoffs' = <<<<from, to>>>>
    /\ UNCHANGED <<snapshot, restored, chatVars>>

\* run(): the conversation, the topic, then one speaker after the other.
StartChat ==
    /\ ~Exists /\ Says(MaxMessages)
    /\ conversation' = [chain |-> <<>>, status |-> "active"]
    /\ chat' = "speaking" /\ round' = 0
    /\ UNCHANGED <<snapshot, restored, handoffs>>

\* The history says to stop: a keyword, agreement, or the caller's own condition.
MaySay == BOOLEAN
ChatEndsLater(r) == r > MaxRounds                    \* seeded fault
ChatEnds(r) == r = MaxRounds

SpeakerAnswers ==
    /\ chat = "speaking" /\ Says(MaxMessages)
    /\ round' = round + 1
    /\ \E stop \in MaySay :
         IF stop \/ ChatEnds(round + 1)
         THEN chat' = "ended" /\ conversation' = [conversation EXCEPT !.status = "completed"]
         ELSE UNCHANGED <<chat, conversation>>
    /\ UNCHANGED <<snapshot, restored, handoffs>>

\* executeRound() rejects, and so does run(): the conversation stays as it is.
SpeakerFails ==
    /\ chat = "speaking" /\ chat' = "failed"
    /\ UNCHANGED <<conversation, messages, said, ms, snapshot, restored, handoffs, round>>

ConversationsNext ==
    \/ Create \/ AddMessage \/ Checkpoint \/ Restore
    \/ \E s \in Statuses : SetStatus(s)
    \/ \E from, to \in Members : HandoffNew(from, to) \/ \E p \in BOOLEAN : Handoff(from, to, p)
    \/ StartChat \/ SpeakerAnswers \/ SpeakerFails

-----------------------------------------------------------------------------
(* Properties *)

\* Nobody gets a conversation again that it handed off, however long the way round
\* and whoever else hands it off meanwhile, unless an older state was restored.
HandoffsNeverReturn ==
    /\ \A i, j \in 1..Len(handoffs) : i < j => handoffs[j][2] # handoffs[i][1]
    /\ Exists /\ ~restored => Len(handoffs) = Len(conversation.chain) /\ Len(handoffs) <= MaxChain

\* Whatever trims it, a conversation keeps its newest messages without a gap: all, or
\* more than a call that trims is to leave; and between messages that are not handoffs
\* no more moments than MaxMessages and one.
KeepsNewestMessages ==
    ~restored =>
        /\ Len(messages) = said \/ Len(messages) > KeptByHandoff \/ Len(messages) > MaxMessages
        /\ \A i \in 1..Len(messages) : messages[i].id = said - Len(messages) + i
        /\ handoffs = <<>> => Cardinality({m.at : m \in ToSet(messages)}) <= MaxMessages + 1

ConversationsKept == HandoffsNeverReturn /\ KeepsNewestMessages

\* "Returns recent messages" (handoff.ts:144): the agent a conversation was handed to
\* finds the message of that handoff, the newest one, among those it is shown.
ContextIsRecent ==
    handoffs # <<>> /\ messages # <<>> => Last(messages) \in ToSet(Oldest(ContextLimit))
=============================================================================
