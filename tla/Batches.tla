------------------------------- MODULE Batches -------------------------------
(***************************************************************************)
(* core/utils: processBatch() of batch.ts with retryWithBackoff() of       *)
(* retry.ts around each item, and the GitHub limiter of rate-limit.ts that *)
(* every response passes.  Delays are steps.                               *)
(***************************************************************************)
EXTENDS Naturals, Sequences, FiniteSets

CONSTANTS
    Items,          \* how many items
    BatchSize, MaxRetries, CheckInterval

VARIABLES
    batch,          \* the running batch, from 1; or none or all done
    item,           \* what each item of it does
    attempt,        \* and its attempts so far
    results,        \* allResults: for each item settled, whether it succeeded
    requestCount    \* of the limiter

batchVars == <<batch, item, attempt, results, requestCount>>

Settled == {"fulfilled", "rejected"}
Last(b) == IF b * BatchSize < Items THEN b * BatchSize ELSE Items
BatchOf(b) == ((b - 1) * BatchSize + 1)..Last(b)

BatchTypeOK ==
    /\ batch \in 0..Items + 1
    /\ item \in [1..Items -> {"none", "running", "checked", "limited", "backoff"} \cup Settled]
    /\ attempt \in [1..Items -> 0..MaxRetries]
    /\ results \in Seq(BOOLEAN) /\ requestCount \in 0..Items * (MaxRetries + 1)

BatchInit ==
    /\ batch = 0 /\ item = [i \in 1..Items |-> "none"] /\ attempt = [i \in 1..Items |-> 0]
    /\ results = <<>> /\ requestCount = 0

Becomes(i, what) == item' = [item EXCEPT ![i] = what]

\* The next batch starts at once, all of its items together.
StartBatch(b) ==
    /\ batch' = b
    /\ item' = [i \in 1..Items |-> IF i \in BatchOf(b) THEN "running" ELSE item[i]]

Start == batch = 0 /\ StartBatch(1) /\ UNCHANGED <<attempt, results, requestCount>>

\* An attempt got a response; every CheckInterval-th is checked.
Responds(i) ==
    /\ item[i] = "running"
    /\ requestCount' = requestCount + 1
    /\ IF requestCount' % CheckInterval = 0 THEN Becomes(i, "checked") ELSE Becomes(i, "fulfilled")
    /\ UNCHANGED <<batch, attempt, results>>

\* checkResponse(): few requests remain, and it waits for the reset, or not.
Checked(i) ==
    /\ item[i] = "checked" /\ (Becomes(i, "fulfilled") \/ Becomes(i, "limited"))
    /\ UNCHANGED <<batch, attempt, results, requestCount>>
LimitResets(i) ==
    /\ item[i] = "limited" /\ Becomes(i, "fulfilled")
    /\ UNCHANGED <<batch, attempt, results, requestCount>>

LastAttemptLate(i) == attempt[i] > MaxRetries          \* seeded fault: one retry more
LastAttempt(i) == attempt[i] = MaxRetries

\* It failed: with an error worth a retry, unless this was the last attempt.
Fails(i) ==
    /\ item[i] = "running"
    /\ Becomes(i, "rejected") \/ (~LastAttempt(i) /\ Becomes(i, "backoff"))
    /\ UNCHANGED <<batch, attempt, results, requestCount>>

Retry(i) ==
    /\ item[i] = "backoff" /\ Becomes(i, "running")
    /\ attempt' = [attempt EXCEPT ![i] = @ + 1]
    /\ UNCHANGED <<batch, results, requestCount>>

AnySettled(b) == \E i \in BatchOf(b) : item[i] \in Settled   \* seeded fault: Promise.race
AllSettled(b) == \A i \in BatchOf(b) : item[i] \in Settled

\* allSettled(): the results in the order of the items, then the next batch.
EndBatch ==
    /\ batch \in 1..Items /\ AllSettled(batch)
    /\ results' = results \o [k \in 1..Cardinality(BatchOf(batch)) |->
                                item[(batch - 1) * BatchSize + k] = "fulfilled"]
    /\ IF batch * BatchSize < Items THEN StartBatch(batch + 1)
       ELSE batch' = Items + 1 /\ UNCHANGED item
    /\ UNCHANGED <<attempt, requestCount>>

Works(i) == Responds(i) \/ Checked(i) \/ LimitResets(i) \/ Fails(i) \/ Retry(i)

BatchNext == Start \/ EndBatch \/ \E i \in 1..Items : Works(i)

-----------------------------------------------------------------------------
(* Properties *)

\* Only items of the running batch work; a result is that of its item, in the
\* order of the items, whatever order they end in; nobody is tried more often
\* than once and MaxRetries times again.
BatchesInOrder ==
    /\ \A i \in 1..Items : item[i] \notin Settled \cup {"none"} => batch \in 1..Items /\ i \in BatchOf(batch)
    /\ \A i \in 1..Len(results) : item[i] \in Settled /\ results[i] = (item[i] = "fulfilled")
    /\ batch = Items + 1 => Len(results) = Items
    /\ \A i \in 1..Items : attempt[i] <= MaxRetries
=============================================================================
