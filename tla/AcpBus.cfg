\* A request, its late answer and a retry or an acknowledgement fit into three
\* messages; one dead letter of two is trimmed.  With and without a store.
CONSTANTS
    Agents = {a1, a2}
    System = System
    Types = {"task"}
    MaxRetries = 1
    MaxDeadLetters = 1
    MaxMessages = 3
SPECIFICATION FairSpec
INVARIANTS AcpTypeOK PendingCounted AnswerMatches DropsHaveOriginal
PROPERTIES RequestsEnd
CHECK_DEADLOCK FALSE
