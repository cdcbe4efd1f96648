------------------------------ MODULE RagIndex ------------------------------
(***************************************************************************)
(* The retrieval index of core/rag-index.ts over the embedder of           *)
(* core/embedder.ts and the vector and text tables of the store.  A text   *)
(* is a member of a small set, a vector its kind: of the built-in TF-IDF   *)
(* or of the API.  With the API every embedding is an await that may end   *)
(* in any order; without it they end in the order they began.  The metrics *)
(* are left out.  In front of it lies the cache of core/rag-meta-index.ts: *)
(* a hot cache of answers, a Bloom filter of the queries answered before   *)
(* and what was learned of where answers lie.  There a namespace holds one *)
(* item, that every query finds; items come and go without the cache being *)
(* told.                                                                   *)
(***************************************************************************)
EXTENDS Integers, Sequences, FiniteSets, SequencesExt, FiniteSetsExt

CONSTANTS
    Ids,             \* items, of one namespace
    Texts,
    NoText,
    ItemLists,       \* the items of a call of index() or indexBatch()
    MaxWrites,       \* bound: calls of index() and indexBatch() in progress
    MaxCalls,        \* bound: documents added to the corpus
    CacheSize,       \* config.cacheMaxSize
    ApiFits,         \* whether the API's vectors have the dimension of the table
    Keys,            \* normalized queries
    Spaces,          \* the namespaces
    Volatile,        \* bound: the namespaces whose item comes and goes
    BitsOf,          \* key -> the bits its hashes set
    HotCacheSize,
    CacheAfterHits,
    TTL,             \* hotCacheTTL
    MaxWait,         \* bound: what a query takes
    MaxPending,      \* bound: queries in progress
    MaxTime          \* bound: the clock

VARIABLES
    vectorMode,      \* config.defaultMode: tfidf or api
    ready,           \* initialized
    docs,            \* totalDocs of the TF-IDF engine
    corpusDirty,
    savedDocs,       \* total_docs of the saved state
    vecs,            \* the table of vectors: id -> text
    ftsTexts,        \* the table for full text search: id -> text
    writes,          \* the calls in progress, in the order they began: their items, what the cache had
    embedded,        \* the embedder's cache: texts with their vector, least recently used first
    latest,          \* history: id -> the text of the call that began last, or of none after a delete
    present,         \* the namespaces whose item is there
    goneAt,          \* history: namespace -> when its item was deleted, if it is not there
    hot,             \* hotCache: the answers with their times, the one to evict first
    bloom,           \* the bits that are set
    learned,         \* affinity: the namespaces with a score for the terms
    freq,            \* queryFreq
    pending,         \* queries in progress: the searches left, what was found
    hour             \* the clock

ragVars == <<vectorMode, ready, docs, corpusDirty, savedDocs, vecs, ftsTexts, writes, embedded, latest>>

Entries == [id : Ids, text : Texts]
Vectors == {"tfidf", "api"}
Nothing == [i \in Ids |-> NoText]

RagTypeOK ==
    /\ vectorMode \in Vectors /\ ready \in BOOLEAN /\ corpusDirty \in BOOLEAN
    /\ docs \in 0..MaxCalls /\ savedDocs \in 0..MaxCalls
    /\ vecs \in [Ids -> Texts \cup {NoText}] /\ ftsTexts \in [Ids -> Texts \cup {NoText}]
    /\ \A k \in DOMAIN writes : ToSet(writes[k].items) \subseteq Entries /\ writes[k].found \subseteq Vectors
    /\ ToSet(embedded) \subseteq [text : Texts, vector : Vectors]
    /\ latest \in [Ids -> Texts \cup {NoText}]

RagInit ==
    /\ vectorMode \in Vectors /\ ready = FALSE
    /\ docs = 0 /\ corpusDirty = FALSE /\ savedDocs = 0
    /\ vecs = Nothing /\ ftsTexts = Nothing
    /\ writes = <<>> /\ embedded = <<>> /\ latest = Nothing

-----------------------------------------------------------------------------
(* The embedder *)

\* The members of s that are in S, in their order.
Kept(s, S) ==
    LET F[i \in 0..Len(s)] == IF i = 0 THEN <<>> ELSE IF s[i] \in S THEN Append(F[i - 1], s[i]) ELSE F[i - 1]
    IN F[Len(s)]

\* EmbeddingCache: what is set or found becomes the youngest, the oldest one makes room.
Without(t) == Kept(embedded, {e \in ToSet(embedded) : e.text # t})
CachedUnbounded(t, v) == Append(Without(t), [text |-> t, vector |-> v])   \* seeded fault: nothing is evicted
Cached(t, v) ==
    LET kept == IF Len(Without(t)) = Len(embedded) /\ Len(embedded) >= CacheSize THEN Tail(embedded) ELSE Without(t)
    IN Append(kept, [text |-> t, vector |-> v])

\* embed(): from the cache, by the engine, or by the API; its errors are answered by the
\* engine, and what answered is cached for the mode that was asked.
Found(t) == {e.vector : e \in {x \in ToSet(embedded) : x.text = t}}
Made(found) == IF found # {} THEN found ELSE IF vectorMode = "api" THEN Vectors ELSE {"tfidf"}
Waits(found) == vectorMode = "api" /\ found = {}

\* addToCorpus() and addBatchToCorpus(); the state of the corpus in the store.
AddToCorpus(n) == docs' = docs + n /\ corpusDirty' = TRUE
SaveState == savedDocs' = docs
LoadState == docs' = savedDocs' /\ corpusDirty' = FALSE

\* persistCorpus(), by its timer and at the shutdown; the write may fail.
CleanEarly == corpusDirty' = FALSE /\ savedDocs' \in {savedDocs, docs}    \* seeded fault: also when it failed
PersistCorpus ==
    \/ SaveState /\ corpusDirty' = FALSE
    \/ UNCHANGED <<savedDocs, corpusDirty>>

Save == corpusDirty /\ PersistCorpus /\ UNCHANGED <<vectorMode, ready, docs, vecs, ftsTexts, writes, embedded, latest>>

-----------------------------------------------------------------------------
(* The index *)

\* initialize() makes the tables; it waits for nothing.
Initialize ==
    /\ ~ready /\ ready' = TRUE
    /\ UNCHANGED <<vectorMode, docs, corpusDirty, savedDocs, vecs, ftsTexts, writes, embedded, latest>>

\* index() and indexBatch() add their texts to the corpus and wait for the vectors; of one
\* item what the cache has or the engine makes is there, and cached, at once.
BeginWrite(items) ==
    /\ ready /\ Len(writes) < MaxWrites /\ docs + Len(items) <= MaxCalls
    /\ AddToCorpus(Len(items))
    /\ writes' = Append(writes, [items |-> items, found |-> IF Len(items) = 1 THEN Found(items[1].text) ELSE {}])
    /\ latest' = [i \in Ids |-> IF \E k \in DOMAIN items : items[k].id = i
                                THEN items[Max({k \in DOMAIN items : items[k].id = i})].text ELSE latest[i]]
    /\ embedded' = IF Len(items) > 1 \/ Waits(Found(items[1].text)) THEN embedded
                   ELSE Cached(items[1].text, CHOOSE v \in Made(Found(items[1].text)) : TRUE)
    /\ UNCHANGED <<vectorMode, ready, savedDocs, vecs, ftsTexts>>

\* vectorUpsert() deletes the row before it inserts: a vector of another dimension is
\* refused by the table, and the row is gone.
Insert(rows, items) ==
    [i \in Ids |-> IF \E k \in DOMAIN items : items[k].id = i
                   THEN items[Max({k \in DOMAIN items : items[k].id = i})].text ELSE rows[i]]
DropRow(rows, item) == [rows EXCEPT ![item.id] = NoText]
Fits(v) == v = "tfidf" \/ ApiFits

\* The vectors are there and the items are written one after the other: the vector, then
\* the text; the first that does not fit ends the call.
\* indexBatch() does not look at the cache; with one item it is index() here.
IgnoreKnown(items, n) ==                                  \* seeded fault: a text that is there is not replaced
    ftsTexts' = [i \in Ids |-> IF ftsTexts[i] # NoText THEN ftsTexts[i] ELSE Insert(ftsTexts, SubSeq(items, 1, n))[i]]
WriteTexts(items, n) == ftsTexts' = Insert(ftsTexts, SubSeq(items, 1, n))
EndWrite(w) ==
    LET items == writes[w].items
    IN /\ vectorMode = "tfidf" => w = 1
       /\ \E made \in [DOMAIN items -> Vectors] :
            /\ \A k \in DOMAIN items : made[k] \in Made(writes[w].found)
            /\ LET bad == {k \in DOMAIN items : ~Fits(made[k])}
                   n == IF bad = {} THEN Len(items) ELSE Min(bad) - 1
                   done == Insert(vecs, SubSeq(items, 1, n))
               IN /\ vecs' = IF bad = {} THEN done ELSE DropRow(done, items[n + 1])
                  /\ WriteTexts(items, n)
            /\ embedded' = IF Len(items) = 1 /\ Waits(writes[w].found) THEN Cached(items[1].text, made[1]) ELSE embedded
       /\ writes' = RemoveAt(writes, w)
       /\ UNCHANGED <<vectorMode, ready, docs, corpusDirty, savedDocs, latest>>

InProgress(i) == \E k \in DOMAIN writes : \E j \in DOMAIN writes[k].items : writes[k].items[j].id = i

VectorDelete(i) == vecs' = [vecs EXCEPT ![i] = NoText]

\* delete() leaves the text; a call that is in progress undoes it.
Delete(i) ==
    /\ ready /\ VectorDelete(i)
    /\ latest' = [latest EXCEPT ![i] = IF InProgress(i) THEN @ ELSE NoText]
    /\ UNCHANGED <<vectorMode, ready, docs, corpusDirty, savedDocs, ftsTexts, writes, embedded>>

\* query() embeds its text and changes the cache only; one that waits for the API may have
\* begun before what the cache holds now.
Query(t) ==
    /\ ready /\ \E v \in Made({}) : embedded' = Cached(t, v)
    /\ UNCHANGED <<vectorMode, ready, docs, corpusDirty, savedDocs, vecs, ftsTexts, writes, latest>>

\* The process ends, in order or not, and starts again: calls in progress and the cache are
\* lost, the corpus is what was saved.
Restart ==
    /\ ready /\ ready' = FALSE /\ writes' = <<>> /\ embedded' = <<>>
    /\ (corpusDirty /\ SaveState) \/ UNCHANGED savedDocs
    /\ LoadState
    /\ latest' = vecs /\ UNCHANGED <<vectorMode, vecs, ftsTexts>>

RagNext ==
    \/ Initialize \/ Save \/ Restart
    \/ (\E items \in ItemLists : BeginWrite(items)) \/ (\E w \in DOMAIN writes : EndWrite(w))
    \/ (\E i \in Ids : Delete(i)) \/ (\E t \in Texts : Query(t))

-----------------------------------------------------------------------------
(* The cache in front of it *)

metaVars == <<present, goneAt, hot, bloom, learned, freq, pending, hour>>

MetaTypeOK ==
    /\ present \subseteq Spaces /\ goneAt \in [Spaces -> 0..MaxTime]
    /\ ToSet(hot) \subseteq [key : Keys, results : SUBSET Spaces, cachedAt : 0..MaxTime]
    /\ bloom \subseteq UNION {BitsOf[k] : k \in Keys} /\ learned \subseteq Spaces
    /\ freq \in [Keys -> 0..CacheAfterHits] /\ hour \in 0..MaxTime
    /\ \A p \in ToSet(pending) : p.key \in Keys /\ p.results \subseteq Spaces /\ p.began \in 0..MaxTime

MetaInit ==
    /\ present = Spaces /\ goneAt = [n \in Spaces |-> 0]
    /\ hot = <<>> /\ bloom = {} /\ learned = {} /\ freq = [k \in Keys |-> 0]
    /\ pending = <<>> /\ hour = 0

Fresh(entry) == hour - entry.cachedAt < TTL
Others(k) == Kept(hot, {e \in ToSet(hot) : e.key # k})
Holds(k) == k \in {e.key : e \in ToSet(hot)}
Entry(k) == CHOOSE e \in ToSet(hot) : e.key = k

\* The filter: a key that was added is always found, another one only by chance.
AddToFilter(k) == bloom' = bloom \cup BitsOf[k]
MayContain(k) == BitsOf[k] \subseteq bloom

\* A namespace with a result is predicted from then on.
Record(results) == learned' = learned \cup results

\* The namespaces are asked one after the other that the affinity predicts, or all at once.
Searches(k) ==
    {<<Spaces>>} \cup
    (IF MayContain(k) THEN {s \in UNION {[1..n -> {{x} : x \in learned}] : n \in 1..Cardinality(learned)} : IsInjective(s)}
     ELSE {})

\* query(): a fresh hot answer becomes the youngest and is given at once.
HitRenewed(entry) == hot' = Append(Others(entry.key), [entry EXCEPT !.cachedAt = hour])   \* seeded fault
Hit(entry) == hot' = Append(Others(entry.key), entry)

QueryHot(k) ==
    /\ Holds(k) /\ Fresh(Entry(k)) /\ Hit(Entry(k))
    /\ UNCHANGED <<present, goneAt, bloom, learned, freq, pending, hour>>

QueryIndex(k) ==
    /\ Len(pending) < MaxPending
    /\ Holds(k) => ~Fresh(Entry(k))
    /\ \E left \in Searches(k) :
         pending' = Append(pending, [key |-> k, left |-> left, results |-> {}, began |-> hour])
    /\ UNCHANGED <<present, goneAt, hot, bloom, learned, freq, hour>>

\* cacheResults(): the first of the map makes room, even for an answer to its own query;
\* an expired answer to the query keeps its place.
CacheResults(entry) ==
    LET kept == IF Len(hot) >= HotCacheSize THEN Tail(hot) ELSE hot
    IN IF \E i \in DOMAIN kept : kept[i].key = entry.key
       THEN [i \in DOMAIN kept |-> IF kept[i].key = entry.key THEN entry ELSE kept[i]]
       ELSE Append(kept, entry)

\* One search ends; after the last one the filter, the affinity and the count of the query
\* learn of it, and an answer that was asked for often enough is kept.
Search(p) ==
    LET query == pending[p]
        results == query.results \cup (Head(query.left) \cap present)
        hits == IF freq[query.key] = CacheAfterHits THEN CacheAfterHits ELSE freq[query.key] + 1
    IN /\ UNCHANGED <<present, goneAt, hour>>
       /\ \/ /\ Len(query.left) > 1
             /\ pending' = [pending EXCEPT ![p].left = Tail(@), ![p].results = results]
             /\ UNCHANGED <<hot, bloom, learned, freq>>
          \/ /\ Len(query.left) = 1
             /\ pending' = RemoveAt(pending, p)
             /\ AddToFilter(query.key)
             /\ Record(results)
             /\ freq' = [freq EXCEPT ![query.key] = hits]
             /\ hot' = IF hits >= CacheAfterHits /\ results # {}
                       THEN CacheResults([key |-> query.key, results |-> results, cachedAt |-> hour])
                       ELSE hot

\* evictExpired(), by its timer.
Evict ==
    /\ hot' = Kept(hot, {e \in ToSet(hot) : hour - e.cachedAt <= TTL})
    /\ UNCHANGED <<present, goneAt, bloom, learned, freq, pending, hour>>

\* invalidateNamespace() and clear().
Invalidate(n) ==
    /\ hot' = Kept(hot, {e \in ToSet(hot) : n \notin e.results})
    /\ UNCHANGED <<present, goneAt, bloom, learned, freq, pending, hour>>

BitsOnly == bloom' = {} /\ UNCHANGED freq                   \* seeded fault: the counts are kept
Forget == bloom' = {} /\ freq' = [k \in Keys |-> 0]
Clear ==
    /\ hot' = <<>> /\ Forget
    /\ UNCHANGED <<present, goneAt, learned, pending, hour>>

\* The items of the index, and the clock: no query takes longer than MaxWait.
Change(n) ==
    /\ present' = IF n \in present THEN present \ {n} ELSE present \cup {n}
    /\ goneAt' = [goneAt EXCEPT ![n] = IF n \in present THEN hour ELSE 0]
    /\ UNCHANGED <<hot, bloom, learned, freq, pending, hour>>
Tick ==
    /\ hour < MaxTime /\ \A p \in ToSet(pending) : hour - p.began < MaxWait
    /\ hour' = hour + 1 /\ UNCHANGED <<present, goneAt, hot, bloom, learned, freq, pending>>

MetaNext ==
    \/ \E k \in Keys : QueryHot(k) \/ QueryIndex(k)
    \/ \E p \in DOMAIN pending : Search(p)
    \/ \E n \in Volatile : Invalidate(n) \/ Change(n)
    \/ Evict \/ Clear \/ Tick

-----------------------------------------------------------------------------
(* Properties *)

\* Every item a vector finds is found by its words too, with the same text, whatever
\* calls were refused half way and whatever was deleted (index, indexBatch, vectorUpsert).
VectorsHaveTexts == \A i \in Ids : vecs[i] # NoText => ftsTexts[i] = vecs[i]

\* Without the API the row of an item is that of the call that began last (index()
\* reads nothing before its await that it needs after it).
LastCallWins ==
    vectorMode = "tfidf" =>
        \A i \in Ids : ~InProgress(i) => vecs[i] = latest[i]

\* A corpus that is not dirty is the one that is saved, so a restart goes on with it
\* (persistCorpus, the constructor's loadState); the cache stays within its size.
CorpusSaved == (~corpusDirty => savedDocs = docs) /\ Len(embedded) <= CacheSize

\* A hot answer that would be given holds nothing that was deleted longer ago than the time
\* to live and what the query took: hits do not lengthen it, searches that ended long before
\* the answer was kept do by MaxWait at most (query, cacheResults).
StaleAtMostTTL ==
    \A e \in ToSet(hot) :
        Fresh(e) => \A n \in e.results \ present : hour - goneAt[n] < TTL + MaxWait

\* The filter has no false negatives: it knows every query that was counted, whatever was
\* cleared while queries were in progress (BloomFilter, clear).
FilterComplete == \A k \in Keys : freq[k] > 0 => MayContain(k)

\* Each query has one hot answer at most, and earned it since the last clear(); the cache
\* keeps its size though queries end in any order (cacheResults).
HotEarned ==
    /\ Len(hot) <= HotCacheSize
    /\ \A i, j \in DOMAIN hot : hot[i].key = hot[j].key => i = j
    /\ \A e \in ToSet(hot) : freq[e.key] >= CacheAfterHits /\ e.results # {}
=============================================================================
