-------------------------------- MODULE Cache --------------------------------
(***************************************************************************)
(* internal/cache/cache.go: the in-memory response cache, used by          *)
(* concurrent unary requests.  A request that misses asks a provider and   *)
(* sets the entry later, so several requests may set the same key.         *)
(*                                                                         *)
(* An entry keeps the time it has left, -1 once expired.  SHA-256 is taken *)
(* to be injective: a key is the byte string that BuildKey hashes.         *)
(***************************************************************************)
EXTENDS Integers, FiniteSets, Sequences, SequencesExt

CONSTANTS Callers,   \* requests that ask the cache concurrently
          Queries,   \* tenant, model, messages (role, content): byte strings
          TTL,
          MaxSize    \* configured; 0 is replaced by a default, less is not

Text == Seq(0 .. 255)

ASSUME CacheAssumption ==
    /\ TTL \in Nat
    /\ MaxSize \in Int \ {0}
    /\ Queries # {}
    /\ Queries \subseteq [tenant : Text, model : Text,
                          messages : Seq([role : Text, content : Text])]
    \* Tenants are configured names: no byte of them is the separator's.
    /\ \A q \in Queries : \A i \in 1 .. Len(q.tenant) : q.tenant[i] # 0

\* Mutant of BuildKey: the key before it was scoped by tenant.
BuildKeyUnscoped(q) ==
    q.model \o FlattenSeq([i \in 1 .. Len(q.messages) |->
                              q.messages[i].role \o q.messages[i].content])

BuildKey(q) ==
    q.tenant \o <<0>> \o q.model
        \o FlattenSeq([i \in 1 .. Len(q.messages) |->
                          q.messages[i].role \o q.messages[i].content])

CacheKeys == {BuildKey(q) : q \in Queries}

VARIABLES
    entries,  \* a function on the keys present: query it answers, time left
    asking    \* what each request is doing

cacheVars == <<entries, asking>>

Entry == [query : Queries, left : -1 .. TTL]

CacheTypeOK ==
    /\ DOMAIN entries \subseteq CacheKeys
    /\ \A k \in DOMAIN entries : entries[k] \in Entry
    /\ asking \in [Callers -> [pc : {"idle", "missed", "hit", "done"},
                               query : Queries, got : Queries]]

\* The query of a request that is not there.
NoQuery == CHOOSE q \in Queries : TRUE

CacheInit ==
    /\ entries = <<>>
    /\ asking = [r \in Callers |-> [pc |-> "idle", query |-> NoQuery, got |-> NoQuery]]

-----------------------------------------------------------------------------

Expired(k) == entries[k].left = -1

\* An expired entry is a miss; it is not removed.
Get(r, q) ==
    /\ asking[r].pc \in {"idle", "done", "hit"}
    /\ LET k == BuildKey(q)
       IN \/ /\ k \in DOMAIN entries /\ ~Expired(k)
             /\ asking' = [asking EXCEPT ![r] = [pc |-> "hit", query |-> q,
                                                 got |-> entries[k].query]]
          \/ /\ ~(k \in DOMAIN entries /\ ~Expired(k))
             /\ asking' = [asking EXCEPT ![r] = [pc |-> "missed", query |-> q, got |-> q]]
    /\ UNCHANGED entries

\* Mutant of Purged: an entry at the very end of its time is taken for expired.
PurgedEarly ==
    {k \in DOMAIN entries : Cardinality(DOMAIN entries) >= MaxSize => entries[k].left > 0}

\* The entries left when the expired ones are evicted, if at capacity.
Purged == {k \in DOMAIN entries : Cardinality(DOMAIN entries) >= MaxSize => ~Expired(k)}

\* Which of them are the oldest: the map's order decides between equals.
Oldest(ks) == {k \in ks : \A j \in ks : entries[k].left <= entries[j].left}

\* Mutant of Keep: the capacity is off by one.
KeepOneMore(ks, kept) ==
    IF Cardinality(ks) > MaxSize /\ ks # {}
    THEN \E k \in Oldest(ks) : kept = ks \ {k}
    ELSE kept = ks

\* If still at capacity, the oldest goes, even when the key set is among ks.
Keep(ks, kept) ==
    IF Cardinality(ks) >= MaxSize /\ ks # {}
    THEN \E k \in Oldest(ks) : kept = ks \ {k}
    ELSE kept = ks

\* Mutant of Set: the entry outlives its TTL.
SetStale(r) ==
    /\ asking[r].pc = "missed"
    /\ LET new == BuildKey(asking[r].query)
       IN \E kept \in SUBSET DOMAIN entries :
            /\ Keep(Purged, kept)
            /\ entries' = [k \in kept \cup {new} |->
                            IF k = new THEN [query |-> asking[r].query, left |-> TTL + 1]
                            ELSE entries[k]]
    /\ asking' = [asking EXCEPT ![r].pc = "done"]

Set(r) ==
    /\ asking[r].pc = "missed"
    /\ LET new == BuildKey(asking[r].query)
       IN \E kept \in SUBSET DOMAIN entries :
            /\ Keep(Purged, kept)
            /\ entries' = [k \in kept \cup {new} |->
                            IF k = new THEN [query |-> asking[r].query, left |-> TTL]
                            ELSE entries[k]]
    /\ asking' = [asking EXCEPT ![r].pc = "done"]

\* The provider fails or a policy blocks: nothing is set.
GiveUp(r) ==
    /\ asking[r].pc = "missed"
    /\ asking' = [asking EXCEPT ![r].pc = "done"]
    /\ UNCHANGED entries

Age ==
    /\ entries' = [k \in DOMAIN entries |->
                    [entries[k] EXCEPT !.left = IF @ = -1 THEN -1 ELSE @ - 1]]
    /\ UNCHANGED asking

CacheNext ==
    \/ \E r \in Callers :
        \/ \E q \in Queries : Get(r, q)
        \/ Set(r) \/ GiveUp(r)
    \/ Age

CacheSpec == CacheInit /\ [][CacheNext]_cacheVars

-----------------------------------------------------------------------------
(* Properties *)

\* The cache never outgrows max_size, whatever the order of concurrent
\* misses, overwrites and expiries; with a negative max_size it keeps one entry.
SizeBounded ==
    Cardinality(DOMAIN entries) <= IF MaxSize < 1 THEN 1 ELSE MaxSize

\* A hit never hands a tenant an answer made for another tenant ("Cache keys
\* scoped by tenant ID", CHANGELOG.md:95).
TenantIsolated ==
    \A r \in Callers : asking[r].pc = "hit" => asking[r].got.tenant = asking[r].query.tenant

\* Entries that Get would still answer from.
Live == {k \in DOMAIN entries : ~Expired(k)}

\* An answer that is still good is dropped only to make room, one at a time,
\* and only when good answers alone fill the cache: expired entries go first
\* (MemoryCache.Set).  Which of the good ones goes is another matter: the
\* oldest, though the type's comment calls the cache "LRU-style".
LiveKept ==
    [][\A gone \in Live \ DOMAIN entries' :
            /\ Cardinality(Live) >= MaxSize
            /\ Live \ DOMAIN entries' = {gone}]_cacheVars

-----------------------------------------------------------------------------
(* The inductive invariant behind the theorems of GatewayProofs *)

\* An entry is found under the key of the query it answers.
FiledByKey == \A k \in DOMAIN entries : BuildKey(entries[k].query) = k

CacheInv ==
    /\ CacheTypeOK /\ FiledByKey
    /\ IsFiniteSet(DOMAIN entries) /\ SizeBounded
    /\ TenantIsolated
=============================================================================
