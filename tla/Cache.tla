-------------------------------- MODULE Cache --------------------------------
(***************************************************************************)
(* The Redis cache: GET requests for the platform statistics, a seller's   *)
(* earnings and the sample listing go through cacheWith                    *)
(* (src/cache/cacheWith.ts), which stores what the database answered with  *)
(* a TTL; the indexer and POST /metadata delete entries                    *)
(* (src/cache/invalidate.ts) after their COMMIT, a takedown deletes none.  *)
(*                                                                         *)
(* A value is what a client can tell: a number (how many batches the       *)
(* statistics or the earnings include, how many samples a listing counts)  *)
(* and the samples on the page.  Samples are numbered in the order of      *)
(* their created_at.                                                       *)
(***************************************************************************)
EXTENDS Integers, FiniteSets

CONSTANTS
    Readers,     \* GET requests that may be in progress at once
    Writers,     \* indexer workers and POST /metadata requests, likewise
    Pages,       \* listings: unfiltered, one for every offset
    Offset,      \* Offset[p] samples come before page p
    MaxBatches,  \* bound: batches the indexer applies
    MaxSamples,  \* bound: samples posted
    MaxFailures  \* bound: calls of Redis that fail, and crashes

ASSUME CacheAssumption ==
    /\ {"stats", "earnings"} \cap Pages = {} /\ Offset \in [Pages -> Nat]
    /\ MaxBatches \in Nat /\ MaxSamples \in Nat /\ MaxFailures \in Nat

VARIABLES
    batches,    \* batches in platform_stats and sales
    samples,    \* rows of samples
    hidden,     \* the ones taken down
    entry,      \* what Redis holds
    excuses,    \* history: why an entry may be out of date with nobody about to delete it
    rpc, key, got,  \* a GET request that missed: where it is, its key, what it has fetched
    wpc, todo,  \* a writer: where it is, and the keys its SCAN has yet to report
    failures

tables == <<batches, samples, hidden>>
redis == <<entry, excuses>>
readers == <<rpc, key, got>>
writers == <<wpc, todo>>
vars == <<tables, redis, readers, writers, failures>>

Keys == {"stats", "earnings"} \cup Pages
Samples == 1..MaxSamples
Answers == [count : 0..(MaxBatches + MaxSamples), rows : SUBSET Samples]
None == [count |-> -1, rows |-> {}]

\* WHERE moderation_status != 'taken_down'
Listed == (1..samples) \ hidden

\* ORDER BY created_at DESC LIMIT ... OFFSET ...
RowsOf(p) == {s \in Listed : Cardinality({t \in Listed : t > s}) >= Offset[p]}

\* What the database would answer now.
Current(k) ==
    IF k \in Pages THEN [count |-> Cardinality(Listed), rows |-> RowsOf(k)]
                   ELSE [count |-> batches, rows |-> {}]

TypeOK ==
    /\ batches \in 0..MaxBatches /\ samples \in 0..MaxSamples /\ hidden \subseteq 1..samples
    /\ entry \in [Keys -> Answers \cup {None}]
    /\ excuses \in [Keys -> SUBSET {"late", "missed", "takedown"}]
    /\ \A k \in Keys : entry[k] = None => excuses[k] = {}
    /\ rpc \in [Readers -> {"idle", "fetch", "rows", "store"}] /\ key \in [Readers -> Keys]
    /\ got \in [Readers -> Answers \cup {None}]
    /\ wpc \in [Writers -> {"idle", "stats", "scan", "delete"}]
    /\ todo \in [Writers -> SUBSET Pages]
    /\ \A x \in Writers : todo[x] # {} => wpc[x] = "delete"
    /\ failures \in 0..MaxFailures

Init ==
    /\ batches = 0 /\ samples = 0 /\ hidden = {} /\ failures = 0
    /\ entry = [k \in Keys |-> None] /\ excuses = [k \in Keys |-> {}]
    /\ rpc = [r \in Readers |-> "idle"] /\ key = [r \in Readers |-> "stats"]
    /\ got = [r \in Readers |-> None]
    /\ wpc = [x \in Writers |-> "idle"] /\ todo = [x \in Writers |-> {}]
----------------------------------------------------------------------------
(* A GET request: cacheWith, and the queries behind it.  A hit changes     *)
(* nothing, nor does a request whose redis.get throws or that has no       *)
(* client: its fetcher's result is not stored.                             *)

Goto(r, step) == rpc' = [rpc EXCEPT ![r] = step]

\* redis.get finds nothing.
Miss(r, k) ==
    /\ rpc[r] = "idle" /\ entry[k] = None
    /\ key' = [key EXCEPT ![r] = k] /\ Goto(r, "fetch")
    /\ UNCHANGED <<tables, redis, got, writers, failures>>

\* getPlatformStats or getSalesBySeller; the first of listSamples' two statements.
Fetch(r) ==
    /\ rpc[r] = "fetch"
    /\ got' = [got EXCEPT ![r] = [count |-> Current(key[r]).count, rows |-> {}]]
    /\ Goto(r, IF key[r] \in Pages THEN "rows" ELSE "store")
    /\ UNCHANGED <<tables, redis, key, writers, failures>>

\* The second one.
FetchRows(r) ==
    /\ rpc[r] = "rows"
    /\ got' = [got EXCEPT ![r].rows = RowsOf(key[r])] /\ Goto(r, "store")
    /\ UNCHANGED <<tables, redis, key, writers, failures>>

\* The answer, or an error instead.
Return(r) ==
    /\ key' = [key EXCEPT ![r] = "stats"] /\ got' = [got EXCEPT ![r] = None]
    /\ Goto(r, "idle")

\* Mutant of Serializable: with the replacer that index.ts gives to res.json.
Replaced(value) == TRUE

\* JSON.stringify(result) has no replacer, and throws for the BigInt columns of a sample.
Serializable(value) == value.rows = {}

\* redis.setex; a throw is caught, and the result answered all the same.
Store(r) ==
    LET k == key[r] IN
    /\ rpc[r] = "store"
    /\ IF Serializable(got[r])
       THEN /\ entry' = [entry EXCEPT ![k] = got[r]]
            /\ excuses' = [excuses EXCEPT ![k] = IF got[r] = Current(k) THEN {} ELSE {"late"}]
       ELSE UNCHANGED redis
    /\ Return(r)
    /\ UNCHANGED <<tables, writers, failures>>

\* The fetcher throws, the ten seconds of withTimeout pass, redis.setex throws, or the
\* process dies.
GiveUp(r) ==
    /\ rpc[r] # "idle" /\ Return(r)
    /\ UNCHANGED <<tables, redis, writers, failures>>
----------------------------------------------------------------------------
(* Writers.                                                                *)

Then(x, step) == wpc' = [wpc EXCEPT ![x] = step]

Drop(keys) ==
    /\ entry' = [k \in Keys |-> IF k \in keys THEN None ELSE entry[k]]
    /\ excuses' = [k \in Keys |-> IF k \in keys THEN {} ELSE excuses[k]]

\* These entries stay although somebody has committed something newer.
Excuse(keys, why) ==
    /\ excuses' = [k \in Keys |-> IF k \in keys /\ entry[k] # None
                                  THEN excuses[k] \cup {why} ELSE excuses[k]]
    /\ UNCHANGED entry

\* Mutant of AfterCommit.
StatsForgotten == "scan"

\* invalidateStatsCache comes first, then invalidateSampleCache.
AfterCommit == "stats"

\* A batch with at least one event that was not applied before.
CommitBatch(x) ==
    /\ wpc[x] = "idle" /\ batches < MaxBatches
    /\ batches' = batches + 1 /\ Then(x, AfterCommit)
    /\ UNCHANGED <<samples, hidden, redis, readers, todo, failures>>

DeleteStats(x) ==
    /\ wpc[x] = "stats"
    /\ Drop({"stats"}) /\ Then(x, "scan")
    /\ UNCHANGED <<tables, readers, todo, failures>>

\* The upsert of a new sample has committed.
PostMetadata(x) ==
    /\ wpc[x] = "idle" /\ samples < MaxSamples
    /\ samples' = samples + 1 /\ Then(x, "scan")
    /\ UNCHANGED <<batches, hidden, redis, readers, todo, failures>>

\* SCAN reports every key that is there from its first call to its last.
StartScan(x) ==
    /\ wpc[x] = "scan"
    /\ todo' = [todo EXCEPT ![x] = {p \in Pages : entry[p] # None}] /\ Then(x, "delete")
    /\ UNCHANGED <<tables, redis, readers, failures>>

\* One call: the keys it reports are deleted, some stored meanwhile possibly among them.
DeletePages(x) ==
    \E keys \in SUBSET Pages :
        /\ wpc[x] = "delete" /\ keys \cap todo[x] # {}
        /\ Drop(keys) /\ todo' = [todo EXCEPT ![x] = @ \ keys]
        /\ UNCHANGED <<tables, readers, wpc, failures>>

\* Mutant of EndScan: one call, whatever cursor it returns.
EndScanAfterOneCall(x) ==
    /\ wpc[x] = "delete" /\ Then(x, "idle")
    /\ UNCHANGED <<tables, redis, readers, todo, failures>>

\* The cursor comes back as 0.
EndScan(x) ==
    /\ wpc[x] = "delete" /\ todo[x] = {} /\ Then(x, "idle")
    /\ UNCHANGED <<tables, redis, readers, todo, failures>>

\* del or scan throws and is swallowed, or the process never got a connection.
InvalidationFails(x) ==
    /\ wpc[x] # "idle" /\ failures < MaxFailures /\ failures' = failures + 1
    /\ IF wpc[x] = "stats"
       THEN Excuse({"stats"}, "missed") /\ Then(x, "scan")
       ELSE Excuse(IF wpc[x] = "scan" THEN Pages ELSE todo[x], "missed") /\ Then(x, "idle")
    /\ todo' = [todo EXCEPT ![x] = {}]
    /\ UNCHANGED <<tables, readers>>

\* The process dies between its COMMIT and the end of the invalidation.
Crash(x) ==
    /\ wpc[x] # "idle" /\ failures < MaxFailures /\ failures' = failures + 1
    /\ Excuse((IF wpc[x] = "stats" THEN {"stats"} ELSE {})
                  \cup (IF wpc[x] = "delete" THEN todo[x] ELSE Pages), "missed")
    /\ todo' = [todo EXCEPT ![x] = {}] /\ Then(x, "idle")
    /\ UNCHANGED <<tables, readers>>

\* confirmTakedown commits; the route touches no cache.
TakeDown(s) ==
    /\ s \in Listed /\ hidden' = hidden \cup {s}
    /\ Excuse(Pages, "takedown")
    /\ UNCHANGED <<batches, samples, readers, writers, failures>>

\* Mutant of HasTtl: set instead of setex.
PagesOnly(k) == k \in Pages

\* Every entry is stored with setex: for 10, 15 or 30 seconds.
HasTtl(k) == k \in Keys

Expire(k) ==
    /\ entry[k] # None /\ HasTtl(k)
    /\ Drop({k}) /\ todo' = [x \in Writers |-> todo[x] \ {k}]
    /\ UNCHANGED <<tables, readers, wpc, failures>>

Read(r) == Fetch(r) \/ FetchRows(r) \/ Store(r) \/ GiveUp(r)

Invalidate(x) == DeleteStats(x) \/ StartScan(x) \/ DeletePages(x) \/ EndScan(x)

Next ==
    \/ \E r \in Readers : Read(r) \/ \E k \in Keys : Miss(r, k)
    \/ \E x \in Writers :
        CommitBatch(x) \/ PostMetadata(x) \/ Invalidate(x) \/ InvalidationFails(x) \/ Crash(x)
    \/ \E s \in Samples : TakeDown(s)
    \/ \E k \in Keys : Expire(k)

Spec == Init /\ [][Next]_vars

\* PostgreSQL and Redis answer, or throw; Redis drops what has lived its time.
FairSpec ==
    /\ Spec
    /\ \A r \in Readers : WF_vars(Read(r))
    /\ \A k \in Keys : WF_vars(Expire(k))
----------------------------------------------------------------------------
(* Properties.                                                             *)

Stale(k) == entry[k] # None /\ entry[k] # Current(k)

\* Writer x is about to delete entry k.
WillDelete(x, k) ==
    \/ wpc[x] = "stats"
    \/ wpc[x] = "scan" /\ k \in Pages
    \/ wpc[x] = "delete" /\ k \in todo[x]

\* The statistics and the listings are invalidated by those who change them: an entry the
\* database has overtaken is about to be deleted, unless it was stale when it was stored (a
\* reader that fetched before a COMMIT stores after it), an invalidation was lost, or a
\* sample was taken down.
StaleIsExplained ==
    \A k \in {"stats"} \cup Pages :
        Stale(k) => excuses[k] # {} \/ \E x \in Writers : WillDelete(x, k)

\* "Taken-down samples are excluded from public listing/search" (db/sampleRepository.ts):
\* although a takedown deletes no entry and a request may store what it fetched before
\* one, no later request can hit a page that lists the sample.
TakenDownNotServed == \A p \in Pages : entry[p].rows \cap hidden = {}

\* Once nothing is written any more, what Redis holds is what the database holds, for good,
\* whatever was stored late and whichever invalidations were lost.
EventuallyFresh == <>[](\A k \in Keys : ~Stale(k))
=============================================================================
