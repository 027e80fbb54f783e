# Crate backend: specifications, model checks and proofs

Crate's backend keeps an off-chain index of a Soroban marketplace contract in
PostgreSQL: totals and sales for analytics, webhooks and live events for
producers, a ledger of royalty payouts, and moderation of uploaded samples. The
contract holds the money; what the backend can get wrong is its *account* of it.
This directory holds TLA+ specifications of the parts where that account is
kept, TLC configurations that check them on small instances, and TLAPS proofs
of the results that matter most.

Paths below are relative to the repository (`src/` is its source directory).
`PROJECT.json` maps every definition to the lines it stands for.

| module | what it is |
|---|---|
| `Indexer` | the event indexer: workers, cursor, windows, the batch transaction statement by statement |
| `IndexedLog` | what the indexer promises: an index of a log that grows by whole batches, in order, with their messages |
| `IndexerProofs` | the inductive invariant of `Indexer` and the refinement, proved |
| `Reconciliation` | royalty split versions, reconciliation workers, payouts |
| `RoyaltyLedger` | what royalties promise: whole versions that are only added to, and payable sales paid once, by a version that may pay them |
| `RoyaltySplit` | the largest-remainder division of one payment |
| `RoyaltySplitProofs` | its sums and its ordering properties, proved |
| `ReconciliationProofs` | the inductive invariant of `Reconciliation` and the refinement, proved |
| `WebhooksProofs`, `ModerationProofs`, `CacheProofs`, `LiveEventsProofs`, `UploadsProofs` | every safety property of those modules, proved |
| `Webhooks` | subscriptions, deliveries, the dispatcher's claims, leases and attempts |
| `DeliveryBook` | what webhooks promise: a book of tries at every delivery of a sale |
| `Moderation` | reports, reviews, takedowns, dismissals, and the unpin after a takedown |
| `ReviewDesk` | what moderation promises: reports and decisions one after another |
| `Cache` | cached reads, the database behind them, and invalidation after a COMMIT |
| `LiveEvents` | WebSocket connections, the `LISTEN` client, and the API process's shutdown |
| `Uploads` | `POST /api/ipfs/upload`: quota, parser, streams, Pinata |
| `MCIndexer`, `MCReconciliation`, `MCRoyaltySplit`, `MCModeration`, `MCCache`, `MCLiveEvents` | chains, splits, inputs and symmetries for TLC |

## 1. Inventory

### Event indexer — `src/indexer/`, `src/db/indexerRepository.ts`

*State.* `indexer_cursor` (the last ledger "processed through"),
`contract_events`, `known_producers`, `platform_stats`, `samples.total_sales`,
`sales`; rows it enqueues in `webhook_deliveries` and messages it sends with
`pg_notify`. In memory only the locals of one cycle.

*Operations.* `runForever` calls `indexOnce` for ever. A cycle reads the chain's
tip, reads the cursor or seeds it, then takes one window of ledgers after
another: fetch its pages, decode, and apply everything in one transaction that
also moves the cursor. After the last window it dispatches webhooks.

*Interaction.* Reads the `samples` table that `POST /api/samples/metadata`
writes; feeds `contract_events` to reconciliation, deliveries to the webhook
dispatcher, notifications to the WebSocket servers, and invalidates the caches.

*What is hard.* Two processes over the same contract; overlapping windows; a
slower worker that writes an older cursor; a full page after which the pages run
past the window; a crash between any two statements; errors swallowed inside a
transaction; values that do not fit a column; metadata that arrives at any time.

*What makes it correct.* Nothing at or below the cursor is missing; nothing is
counted twice; counters and rows describe the same events; workers never
deadlock; every event is indexed in the end; every producer hears of its sales.

### Sample metadata — `src/routes/samples.ts`, `src/db/sampleRepository.ts`

*State.* `samples`: `chain_id` (the contract's number), `id` (a local serial),
uploader, CID, counters, moderation status. *Operations.* the metadata upsert
(which never changes `id` or uploader, and draws from the sequence even on
conflict), `incrementSales`, listings. *What is hard.* It interleaves with
everything that reads `samples` under READ COMMITTED. It has no module of its
own: each module that depends on it has the part of the upsert it can notice.

### Royalty splits, reconciliation, payouts — `src/routes/royalties.ts`, `src/db/royaltySplitRepository.ts`, `src/reconciliation/`, `src/db/payoutRepository.ts`, `src/services/royaltySplit.ts`

*State.* `royalty_splits` (immutable versions with an `effective_from`),
`payouts`, `payout_line_items`. *Operations.* configure a version under an
advisory lock; find sales without a payout, resolve each against the version
effective when its ledger closed, divide the price, insert the payout and its
line items. *What is hard.* Two configure requests at once; `effective_from`
fixed before the lock and long before COMMIT; two workers on one sale; sales
reconciled long after later versions exist; sales that can never be paid;
rounding. *What makes it correct.* versions are whole and used forward only, a
sale has one payout with all line items of one version, no stroop is lost, every
payable sale is paid.

### Webhook delivery — `src/routes/webhooks.ts`, `src/db/webhookRepository.ts`, `src/services/webhookDispatcher.ts`

*State.* `webhook_subscriptions`, `webhook_deliveries` (status, attempts,
`next_attempt_at`). *Operations.* subscribe, unsubscribe, enqueue with a sale,
claim up to 25 due deliveries with a five-minute lease, post, record the
attempt. *What is hard.* Calls of the dispatcher overlap, leases lapse, a
recording error after a successful post, a crash after the claim. *What makes it
correct.* One attempt per lease, giving up is final, a delivered row is left
alone, every delivery comes to rest.

### Moderation — `src/routes/moderation.ts`, `src/db/moderationRepository.ts`

*State.* `samples.moderation_status`, `sample_flags`, the pins at Pinata.
*Operations.* report, review, takedown, dismiss; the unpin follows a takedown's
COMMIT. *What is hard.* Requests of several people at once, metadata posted
between takedown and unpin, an unpin that fails. *What makes it correct.* Queue
and open flags agree, nothing moves backward, the file that was live is the one
that goes.

### Cache — `src/cache/`, `src/routes/samples.ts`, `src/routes/analytics.ts`

*State.* Redis entries: `stats`, `earnings:<address>`, one per listing query.
*Operations.* `cacheWith` (get; on a miss fetch, then `setex`), deletion by key or
by a `SCAN` over a pattern. *Interaction.* The indexer and `POST /metadata` delete
after their COMMIT; a takedown does not; nothing deletes earnings. *What is hard.*
A reader that fetched before a COMMIT stores after the deletion; a `SCAN` runs
while entries come and go; Redis fails, or the writer dies, after the COMMIT.
*What makes it correct.* Every stale entry has a known reason and a short life,
and a taken-down sample is not served from the cache.

### Live events — `src/ws/`, `gracefulShutdown` of `src/index.ts`

*State.* Sockets, the clients in `ClientManager` with their channels, connections
per address, `listenerClient` and `reconnecting`, the phase of a shutdown: all in
memory of one process. *Operations.* The handlers of a connection's events, the
heartbeat every 30 s, `startEventListener` and its retry, `stopEventListener`, the
steps of a shutdown. *What is hard.* A connection may be ended by its peer, an
error, a missed pong and its idleness, all at once; events of an old PostgreSQL
client arrive after a new one has taken its place; a signal comes in the middle.
*What makes it correct.* Counts, clients and sockets agree; places come back; one
listener at a time; a process listens again; a shutdown comes to its end.

### Uploads — `src/routes/ipfs.ts`, `src/services/ipfs.ts`, `src/utils/streamUtils.ts`, `src/db/uploadQuotaRepository.ts`

*State.* `upload_quotas` (a count and its day per account), a request's streams,
the pins at Pinata. *Operations.* Count the upload, parse the form, copy the file
through a size limit, post it, answer. *What is hard.* The order of the request's
`close`, the parser's `finish`, the file's end and Pinata's answer; midnight between
the quota's statements; errors outside the `try`, which end the process. *What
makes it correct.* The quota holds, no refusal leaves a file behind, every request ends.

### Parts without a module

* **Chain reads and analytics queries** (`src/services/stellar.ts`, the rest of
  `src/routes/analytics.ts`): reads without state of their own.
* **Auth, CORS, pool, migrations**: wiring. Of the end of the indexer's and the
  reconciler's process only the crash matters to the database.

## 2. How the modules correspond to the code

### Shared conventions

*A statement is a step.* Between two SQL statements, or between a statement and
a network call, any other process may act; JavaScript between two awaits is part
of the step. Where two statements of one transaction are one action, the
module's header says why nobody can tell.

*Transactions.* What an open transaction wrote is kept apart (`tx[w]` in
`Indexer`, the request's locals elsewhere) and reaches the tables at COMMIT.
Reads are READ COMMITTED: each sees the committed tables of its own moment plus
its own writes. A write waits for a row or unique key that another open
transaction holds; this is the guard `...Held`, `LockFree`, `RowFree`, `Locked`.

*Crashes and errors* are one action per process that discards the transaction
and the locals, up to `MaxFailures`. They can strike at every step.

*History variables* (`origin`, `inForce`, `asked`, `lapsed`, `confirmed`, `flipped`,
`cleared`, `excuses`, `late`, `gaveUp`, `granted`, `stragglers`) record what a property
has to compare with. No guard reads one.

*Mutants.* A definition whose comment says "Mutant of X" is no part of the
specification: it is X with a plausible bug, used to confirm that a property
fails when the code is wrong.

### Indexer

A worker's `pc` is the next statement. `PollTip`, `ReadCursor`, `ChooseStart`,
`InitCursor` are `indexOnce` and `ensureCursor`; `FetchWindow` is the window,
`fetchEventsInRange`, and BEGIN; `SkipUndecodable`, `InsertEvent`, and for a sale
`IncrementSales`, `AddVolume`, `RecordSale`, `EnqueueDelivery`, `NotifySale`, for
an upload `InsertProducer`, `AddUpload`, `NotifyUpload`, are
`applyEventBatchAndAdvanceCursor`; `Commit` is the cursor's upsert and COMMIT;
`NextWindow` is back in the loop. `Rollback` is a statement that the data itself
makes fail; `Fail` everything else that may throw or kill.

* The contract's history is one function `Log` with the number `UpTo[l]` of
  events in ledgers 1..l. Ledgers close while workers run.
* A page that comes back full is followed by requests without an end ledger
  (`src/indexer/sorobanEvents.ts`), so a batch may contain events past its window:
  `LastFetched`.
* Totals are kept as *how often each event has been added* (`credited`, `sold`,
  `counted`), which tells apart more than a sum would.
* An event whose price a BIGINT cannot hold has `fits = FALSE`; adding it fails.
* `WebhookSchema` is whether migration 0009 has been applied. Without it the
  INSERT fails, the catch swallows the error, and `broken` says that the
  transaction is aborted.

An upload is announced on two channels, `marketplace` and, with the totals as the
transaction sees them, `stats` (`Announced`).

The RPC server answers for every ledger it has announced: the code could not
tell a short answer from a quiet ledger. One contract is modelled; the tables of
two contracts share only `platform_stats` and `known_producers`.

### Reconciliation and RoyaltySplit

`Configure` … `CommitVersion` are the route and `createSplitVersion`, with the
advisory lock as `LockFree`; `SelectPending` … `CommitPayout` are `reconcileOnce`,
`Skip` its `continue`, `EventError` its per-event catch. One clock stands for the
ledgers' close times and for `Date.now()`. Callers are the sample's uploader and
their splits are legal; `RoyaltySplit` has the illegal ones. `Index` moves sales
into `contract_events` late and in order: the one thing `Indexer` promises that
this module relies on (`IndexGrowsAtTheEnd` in `IndexerProofs`).

`RoyaltyLedger` is the abstract specification. A version's rows of `royalty_splits`
become one record of its sample, its number, its start and its shares (`SharesIn`); the
chain is its sales; a sale's payout with its line items (`LinesOf`) becomes one payment.
`CommitVersion`, `Sell` and `CommitPayout` are its three steps. Which version is in force
is said there without the `ORDER BY` of `getEffectiveSplit`, and which may pay a sale
without any worker, clock or lock.

`RoyaltySplit` is one call of `computeLineItems`; a turn of the leftover loop is
a step. A line item of `Reconciliation` is a recipient with its basis points: the
amount is `RoyaltySplit`'s.

### Webhooks

A member of `Calls` is a call of `dispatchDueWebhooks`. Its posts run
concurrently; if one rejects, `Promise.all` returns while the others go on and the
process may start the next cycle, so *calls*, not processes, are what can
overlap. Of `next_attempt_at` only "has it come" is kept (`due`); leases and
backoffs clear it, `ComeDue` sets it again at any time, since nothing in the code
bounds an attempt's duration by its lease. (A post has a timeout of ten seconds;
the recording after it has none.) A job is "bad" when a receiver has answered with an
error, and "caught" when the post or the recording of its answer has thrown: the catch's
own recording is the last, and if that throws the call rejects.

`DeliveryBook` is the abstract specification: a row's `status` and `attempts` are what the
book says of a delivery and how many entries it has. `confirmed` (history) holds the
deliveries some receiver has answered with success; an entry may say "delivered" only of
those, "failed" only when the tries are used up, "pending" only while they are not.
`RecordAttempt` and `RecordError` are entries; claims, leases and crashes are nothing.

### Moderation

`Begin` is the first statement of `createFlag`, `confirmTakedown` and
`dismissFlags`, which locks the sample's row; `ResolveFlags` reads the open flags
the second statement will resolve, and is a step of its own because a report may
not get in between. `Unpin` and `PostMetadata` act on the file. In `ReviewDesk`, the
abstract specification, a report or a decision is one step for the sample and all of its
flags: the COMMIT. Reading and resolving are nothing there. Samples may
share a file: `PostMetadata` takes any CID there is, as `upsertSampleMetadata` does, another
sample's or one that is no longer pinned. (Uploading a file anew after its unpin is not
modelled.)

### Cache

A member of `Readers` is a GET that missed: `Miss`, `Fetch` (and `FetchRows`, since
`listSamples` counts with one statement and selects with another), `Store`. A hit
changes nothing. A member of `Writers` is an indexer worker after a batch
(`CommitBatch`, `DeleteStats`, then the scan) or a `POST /metadata` after its upsert.
`SCAN` is what Redis promises of it: it reports every key that is there from its
first call to its last (`todo`), and perhaps others. `Serializable` is the
`JSON.stringify` of `cacheWith`: unlike `res.json` it has no replacer for BigInt, so
the `setex` of a page with rows throws and only pages without rows are ever stored.
`excuses` (history) records why an entry may be out of date.

### LiveEvents

Every event handler is one step: it runs in one JavaScript turn. `sock` is the
socket, `managed`, `ipCounts`, `channels` and `quiet` are the `ClientManager`; only `remove`
and `add` change the first two. A peer may vanish (`silent`). A pg client goes
through `Stages`; between `LISTEN` and the attachment of its handlers an error is
nobody's and the process dies (`Die`). So does an error of a socket that was refused,
which is closed before it gets its handlers (`RefusedSocketError`); a socket being closed
still has them, and delivers messages, pongs and errors. `Signal`, `ListenerStopped`,
`WebSocketsClosed` and `Exit` are the awaits of `gracefulShutdown`, and `SignalAgain` a
second signal. `server.close` waits for as many HTTP clients as there happen to be
(`http`); `disconnectRedis` and `pool.end`, which come when no request is left that could
hold a connection, are part of `Exit`.

### Uploads

A request's `pc` is the await it is at. `FileEvent`, `FileEnds`, `BodyRead`,
`BusboyError`, `Finish` are the parser's events; `RequestCloses` and `Disconnect` the
two things `close` can mean; `Pin`, `PinataAnswers`, `UploadFails` the post. A size is 1
(within the limit) or 2. `CheckQuota` is the one statement of
`checkAndIncrementQuota`; `Begin` fixes its CURRENT_DATE, which may be yesterday's by
the time the row is free. Two throws are outside the route's `try` and end the process,
with all that is under way in it (`ProcessDies`): the quota's statement (`QuotaFails`) and
busboy's constructor (`BusboyThrows`, for a multipart header without a boundary). Other
errors of the form are `BusboyError`, inside the `try`.

## 3. Hard behaviours

`PROJECT.json` lists them under `hazards`, each at its line, with the properties
that watch it or the reason why none does. The ones that shaped the modules:

1. overlapping indexer workers, and the cursor that a slower one moves back;
2. the page overrun, which makes the cursor lag the tables;
3. lock order across batch transactions (samples row, totals row, producer key);
4. errors swallowed inside an open transaction;
5. `effective_from` chosen before lock and COMMIT;
6. oldest-first batches that unpayable sales can fill;
7. leases that lapse, and an UPDATE of the status without a guard;
8. COMMIT first, unpin afterwards; COMMIT first, invalidate afterwards;
9. several ends of one connection, and late errors of an old listener;
10. a shutdown that waits while connections still come in;
11. the two meanings of a request's `close` event;
12. throws outside a `try`, and sockets without handlers, that end the process.

## 4. Runs

Every run checks for deadlock except `RoyaltySplit`, where a call returns,
`LiveEvents`, where the process exits, and `Uploads`, where every request ends.

| run | question | instance |
|---|---|---|
| `IndexerRace` | is the index whole, counted once, free of deadlocks, an `IndexedLog`, for two workers? | 2 workers, 4 ledgers, window 1, page 2, one failure, one metadata post |
| `IndexerLive` | does everything get indexed, and does every worker finish cycles? | 2 fair workers, 3 ledgers, one failure |
| `IndexerSeller` | is the seller's own webhook enqueued? (**no**) | 1 worker, 2 producers |
| `IndexerNoWebhooks` | can migration 0009 be applied later? (**no**) | 1 fair worker |
| `RoyaltySplit` | is the division exact, fair, and monotone? | every list of up to 4 entries, 10 basis points in all, amounts −1..21 |
| `ReconcileRace` | are versions and payouts whole, do later splits stay out, is all of it a `RoyaltyLedger`? | 2 workers, 2 requests, 2 sales, one failure |
| `ReconcileLive` | is every payable sale paid that unpayable ones leave room for? | 1 fair worker, a batch of 2 for 3 sales, one failure |
| `Webhooks` | do attempts exclude each other, is giving up final, does every delivery settle, is it a `DeliveryBook`? | 2 sales, 2 overlapping calls, 2 attempts, one failure |
| `Moderation` | do queue and flags agree, is the right file unpinned, is it a `ReviewDesk`? | 2 samples that may share any of 3 files, 2 requests, 3 reports, one failure |
| `Cache` | why may an entry be stale, and does it stay so? | 1 reader, 2 writers, 2 batches, 2 samples, a page at offset 1, one failure |
| `LiveEvents` | do counts, clients and sockets agree, is there one listener, do places and the listener come back, does a shutdown end? | 2 connections of an address that may have 1, 2 pg clients, 2 channels, 1 HTTP client |
| `Uploads` | does the quota hold, does every request end, and cleanly? | 3 uploads, 1 a day, 2 days, one database error |

### Why the bounds are enough for the case to happen

* `IndexerRace`'s chain has, one ledger each: an upload; two licences of one
  transaction around an undecodable event; a second upload of the same producer;
  a licence too large for BIGINT. Pages of two make the second ledger overrun
  into those closed by then, so the poisonous event also hits earlier windows;
  two workers with window 1 commit in both orders, so the cursor moves back; the
  backfill of one ledger makes the two seeds differ. One metadata post falls
  between any two statements.
* `IndexerLive` has a window of two ledgers over a chain of three: a window that
  is full and one that is cut off at the tip. It has no oversized price (indexing
  in order cannot get past one) and no aborted transaction.
* `RoyaltySplit` replaces 10000 basis points by 10, so that every remainder and
  every tie occurs; amounts run past twice the total. Lists of up to two entries
  include duplicates and entries out of range on both sides.
* `ReconcileRace` has two ticks of time, enough for a request before, at and after
  a sale, and two recipients' splits that overlap. `PayoutsWhole` needs two
  workers on one sale, `VersionsWhole` two callers on one sample.
* `Webhooks` gives up after two attempts instead of ten: one attempt that leaves
  the delivery pending, one that ends it, and overlapping ones beyond. Two calls
  are enough for every overlap of two attempts; a third would repeat the pair.
* `Moderation`: either sample may have any of three files, from the start or by
  metadata posted between takedown and unpin: its own, the other's, one already
  unpinned. Three flags let a second report arrive before, during and after a decision.
* `ReconcileLive` has three sales, any of which may be unpayable, and a batch of
  two: two older unpayable ones block the third, and one does not.
* `Cache`: a page at offset 1 is empty (and so stored) while there is one sample, and
  must go when there are two; two writers overlap in their scans; a reader between
  fetch and store meets every step of both. A second reader would only store
  what the first could have.
* `LiveEvents`: an ended connection or pg client stands for the next one, so two of
  each give every overlap of an old one with its successor. Three heartbeats
  until a client is stale, as in the code (60 s at 30 s, compared with `>`).
  One HTTP client is one that keeps the server from closing.
* `Uploads`: with one upload a day, the third request is the one that a straggling
  statement of the day before lets through.

Symmetry (workers, requests, flags, samples, files) is used only where a run checks no liveness
property, and no specification distinguishes the members by name.

### Fairness

* `Indexer!FairSpec`, `Reconciliation!FairSpec`: weak fairness of every worker's
  own steps. `runForever` and `runReconciliationForever` loop until told to stop
  and swallow every error; PostgreSQL answers statements and grants locks once
  free. Nothing is assumed about ledgers closing, metadata, sales, requests or
  failures.
* `Webhooks!FairSpec`: weak fairness of every call's steps — the indexer reaches
  `dispatchDueWebhooks` again and again, which is `Indexer!CyclesEnd` — and of
  `ComeDue`: time passes. That receivers ever answer with success is not assumed.
* `Cache!FairSpec`: weak fairness of a reader's steps (PostgreSQL and Redis answer or
  throw; `withTimeout` bounds the rest) and of expiry. Writers may stop anywhere.
* `LiveEvents!FairSpec`: of the heartbeat, of sockets that are being closed or were
  refused (ws ends them after 30 s), of the calls of the pg client, of `Forget`, and of the awaits of a
  shutdown. Peers and HTTP clients owe nothing: they may stay silent, or stay
  for ever.
* `Uploads!FairSpec`: of one disjunction per request: the quota's statement, the end
  of the body and of the file, `finish`, and the post with its timeout. Node's request
  timeout cuts off a client that stops sending. Clients begin when they like.

## 5. What the passing runs show

*Indexer.* However two workers interleave and wherever one crashes:
`ScannedLedgersApplied` (nothing at or below the cursor, or below the ledger any
worker goes on from, is missing), `CountedOnce` (totals hold each applied event
once), `SalesAgree` (a licence counted in `total_sales` is counted once and its transaction
has a row in `sales`, whose rows are of applied licences),
`WaitedForGoesOn` (whoever is waited for waits for nobody, so that transactions cannot
deadlock), and `ImplementsIndexedLog` (the index grows in the log's order and without
holes, and a batch's messages and deliveries commit with it and are about its own new
events). `OneWriter` is the reason for the first: a second transaction waits at its first
INSERT or finds only applied events. A cursor that
moves back is harmless because events below it are already applied and `ON
CONFLICT DO NOTHING` skips them *with their side effects*. Under fairness,
`EveryEventIndexed` and `CyclesEnd`.

*Royalties.* `VersionsWhole`, `PayoutsWhole`, `LaterSplitsDoNotPay` (a sale is
paid by the version in force when it closed, or by one that had been asked for by
then), `ImplementsRoyaltyLedger` (what a payment divides a sale by is a version as it
was configured, shares included, one that may pay this sale, and stays so),
`PayableSalesPaid` (unless as many older unpayable sales as a batch holds). `NoStroopLost`, `HardestRoundedFirst`,
`LargerShareNeverLess` of the division.

*Webhooks.* `OneAttemptPerLease`: `SKIP LOCKED` and the lease together leave no gap.
`ImplementsDeliveryBook`: every row opens with its sale, for the subscriptions active
then, and says "delivered" only after its receiver has confirmed. An entry may turn a
delivered row back to pending, because the code *does* (the UPDATE has no guard);
`DeliveredIsFinal`, which is proved, says that only overlapping attempts and recording
errors do, and `GivenUpForGood` bounds them: never pending again once given up, and no
more attempts than were under way. `EveryDeliverySettles` holds without any promise from the receiver, and for
every delivery whose subscription stays active.

*Moderation.* `QueueMatchesFlags`, `ImplementsReviewDesk` and `UnpinnedWhatWasLive`: a
decision settles every flag that is open at its COMMIT, a takedown is final, and the files
gone from Pinata are exactly those that were live when a takedown answered as unpinned
changed the status, whatever metadata is posted and whoever shares them. The row lock
that all three transactions start with is what makes the first two
true: without it (the mutant `RowAlwaysFree`) a report slips between a dismissal's two
statements.

*Cache.* `StaleIsExplained`: there are three reasons for which an entry of the
statistics or of a listing can be stale without anybody about to delete it — it was
stored late, an invalidation was lost, a takedown — and no fourth.
`TakenDownNotServed` holds although takedowns delete nothing, because pages with rows
are never stored; with the replacer that `res.json` uses (the mutant `Replaced`) it
fails. `EventuallyFresh` rests on the TTLs alone.

*Live events.* `ClientsMatchSockets` under every combination of ends;
`SlotsComeBack` for peers that vanish; `OneListener` and `ListensAgain` for the
listener; `ShutdownCompletes`, with what a shutdown may wait for.

*Uploads.* `QuotaPerDay`, `EndsCleanly`, `EveryUploadEnds`: whatever the order of `close`,
`finish` and Pinata's answer, and wherever the process dies, a request ends; a 200 has its
file pinned, a refusal leaves none, and no stream stays open that nobody reads. Only behind
a 500, or no answer, there may be a file at Pinata that nobody has been told of.

## 6. Where code and words disagree

Two runs end in a counterexample; `PROJECT.json` quotes the words.

1. `IndexerSeller` — the producer of a delivery is looked up by `samples.id`
   instead of `chain_id`; somebody else may be told of the sale.
2. `IndexerNoWebhooks` — "keep sale accounting usable while that migration is
   being applied": the swallowed error leaves the transaction aborted, and the
   same window fails for ever.

Three more promises are broken so plainly that no run is spent on them; no passing
property claims what they say:

* "one row per on-chain purchase_license event" (migration 0010): the key of `sales` is the
  transaction, so the second licence of one counts in `total_sales` and has no row.
  `SalesAgree` says that the transaction has one.
* an event that cannot be resolved "must not block … every batch after this one"
  (`src/reconciliation/worker.ts`): `RECONCILIATION_BATCH_SIZE` of them, being the oldest, are
  selected in every pass, and what is behind them never. `PayableSalesPaid` says that a sale
  is paid unless it stands behind so many.
* a file over the limit is refused with 413 (`src/routes/ipfs.ts`, "Enforce file size at the
  stream level"; `src/utils/streamUtils.ts`, "Throws if the stream emits more than maxBytes"):
  busboy cuts it off at the very limit `enforceStreamSize` would have to see exceeded
  (`Passed`), so that it is pinned truncated and answered 200. `EndsCleanly` says only that
  something is pinned behind a 200.

Elsewhere a property says what the code keeps of a promise, and its limits are
worth knowing:

* `UnpinnedWhatWasLive` — two samples with one CID share its pin, and lose it together.
* `LaterSplitsDoNotPay` — a split change cannot "reach back", but one that was in
  flight while a sale closed pays it, although the older version was in force.
* `ImplementsDeliveryBook` — a late attempt, or an error while recording, may turn a
  delivered row back to pending.
* `ListensAgain` — after an error one attempt to reconnect is made, and no second.
* `ShutdownCompletes` — an HTTP client that stays keeps the process, which is `server.close`'s
  nature; and a connection accepted between a signal and `wss.close` is told
  nothing, and the shutdown waits for it as long as its peer answers pings. After
  such a shutdown has begun, late errors can also start a second listener.
* `StaleIsExplained` — `earnings` is not among its keys: no sale deletes them.
  And a page with rows is never cached: the BigInt columns make `setex` throw.
* `EveryUploadEnds` — "Handle client disconnect" (`src/routes/ipfs.ts:49`): since
  Node 16 a request's `close` also follows its body, so it destroys the stream of a
  client that is still waiting; the upload then ends with 500 after a minute.
* `QuotaPerDay` — a statement that straddles midnight starts both days' counts anew.

## 7. What is proved

TLAPS checks every proof to the last leaf, with no assumption but the named
`ASSUME`s of the modules (which TLC evaluates on the instances).

### IndexerProofs: any number of workers, any log, any window and page size

The safety properties are not inductive: whether a COMMIT keeps `CountedOnce`
depends on what the transaction has collected over all its earlier statements,
while other workers committed. `IndInv` (defined at the end of `Indexer`) adds what a worker knows at each step:

* `Seeded` — the cursor exists from the seed on and never goes below it;
* `InRange(w)` — the batch stays inside the log;
* `OnCourse(w)` — the worker goes on from a ledger at or above the seed, its
  batch reaches from the event after that ledger to the end of its window or
  beyond, and it never looks past the tip;
* `InsertedInOrder(w)` — the transaction has inserted exactly those events it has
  passed that the committed table lacked. This is where the unique key matters:
  another worker's COMMIT may add events to the table, but by `EventKeyHeld`
  and `OneWriter` never ones this transaction has inserted;
* `CountedInOrder(w)` — it has counted exactly what it inserted, but for the
  event it is at.

The proof goes worker by worker: a step of `w` keeps each part of `w`'s own
invariant (`StepStaysInRange`, `StepInsertsInOrder`, `StepCountsInOrder`), another
worker's step disturbs it only through COMMIT (`OthersKeepInvariant`,
`CommitEffect`), and the global parts follow (`StepKeepsCoverage`,
`StepKeepsCounts`, `StepKeepsOneWriter`). From it:

| theorem | states |
|---|---|
| `TypeCorrectness` | `Spec => []TypeOK` |
| `NothingSkipped` | `Spec => []ScannedLedgersApplied` |
| `NothingDoubled` | `Spec => []CountedOnce` |
| `WritersExclude` | `Spec => []OneWriter` |
| `NoDeadlock` | `Spec => []WaitedForGoesOn`: whoever is waited for waits for nobody |
| `SalesDescribeTheSame` | `Spec => []SalesAgree` |
| `IndexerImplementsIndexedLog` | `Spec => ImplementsIndexedLog`: the seed and each COMMIT are steps of `IndexedLog`, all else stutters |
| `IndexGrowsAtTheEnd` | `Spec => Index!GrowsAtTheEnd`: sales reach `contract_events` in the chain's order, and nothing is sent about an event that was there before |

`NoDeadlock` rests on `LocksFollowEvents`: every lock but the first is taken by a
transaction that has inserted an event, and by `OneWriter` there is one of those.

The refinement needs two facts about a batch (`BatchInv`): what has been applied is a
stretch of the log without holes (`AppliedInOrder`), and what a transaction is about to
send concerns events it has inserted itself, each upload it has passed having its message
(`MessagesInOrder`). `CommitKeepsOrder` puts them together: the batch begins right behind
the ledger its worker went on from, below which nothing is missing, so that adding it
leaves no hole. `IndexGrowsAtTheEnd` is proved of the abstract index (`WithoutHoles`)
and carried over by the refinement.

`SalesAgree` and `NoDeadlock` need one more part, `SalesInOrder`: a licence the transaction has
counted has its row in `sales`, or is the one at hand, whose metadata was there when
it was counted and cannot go away.

### RoyaltySplitProofs: any amount, any list, any total of basis points

The invariant: shares are quotient and remainder of the scaled amount
(`Divided`), and whoever has left the queue has exactly one stroop more and comes
before all who are still in it (`InOrder`).

That the sum comes out needs more: `LeftoverInv`, what is given and what is left are the
whole, and as many recipients wait as there are stroops left. That the leftover after
rounding down is neither negative nor more than the recipients follows from the sum of
the remainders, which is a multiple of the total and below the total times the number of
recipients (`QuotientOfSum`). `SumFunction` is a fold of the community modules: facts
about sums (of a sum, of a multiple, bounds, one element more) are proved by induction
over the subsets of a finite set, with the set of those subsets for which the fact holds
in place of a predicate (`FromSubsets`).

| theorem | states |
|---|---|
| `NothingLostToRounding` | `Spec => []NoStroopLost` |
| `LargestRemaindersFirst` | `Spec => []HardestRoundedFirst` |
| `LargerSharePaidNoLess` | `Spec => []LargerShareNeverLess`: a larger share has the larger quotient, or the same quotient and the larger remainder |

### ReconciliationProofs: any number of workers, requests, samples and sales

Which rows a transaction will commit is settled many steps before it does, so the
invariant says what each process may rely on in between:

* `CallersInv` — one caller at a time is behind the advisory lock of a sample, and
  the number it has read is above every committed row's until it commits;
* `SplitsInv` — the rows of a version are all of one request's, and no version number
  exceeds the number of requests answered;
* `ChainInv` — what has been indexed has closed, and not later than now;
* `WorkersInv` — the version a worker holds may pay its sale (`Fits`: effective by the
  time it closed and no older than the one in force then), and a worker past
  `InsertPayout` is alone on the sale. Time and later requests do not undo `Fits`,
  because a version's `effective_from` is never before the request that asked for it
  (`NewerOnlyAdds`, `VersionsKept`);
* `PaidInv` — the committed payouts have all line items, of the version they name.

The refinement adds that no sale lies in the future (`NothingAhead`) and that a worker
past `computeLineItems` is at a payable sale (`PaysPayable`); `EffectiveIsInForce` shows
that the version `getEffectiveSplit` selects is the one `RoyaltyLedger` calls in force.

| theorem | states |
|---|---|
| `ReconciliationTyped` | `Spec => []TypeOK` |
| `VersionsAreWhole` | `Spec => []VersionsWhole` |
| `PaidOnceAndWhole` | `Spec => []PayoutsWhole` |
| `PaidAsSold` | `Spec => []LaterSplitsDoNotPay` |
| `RoyaltiesImplementLedger` | `Spec => ImplementsRoyaltyLedger`: `CommitVersion` is `Add`, `Sell` is `Sell`, `CommitPayout` is `Pay`, all else stutters |

### WebhooksProofs: any number of subscriptions, sales and overlapping calls

`OneAttemptPerLease` is not inductive: a second claim is kept out by the row lock
before the first one's COMMIT, and by `due` after it. `Leased` says both: while a
delivery has not lapsed one call at most is busy with it, and once that call's claim
has committed the row is no longer due. `RowsThere`: a call is busy only with rows
that are there, and a row that is claimed is still pending. `AttemptsBounded`
is the counting part of `GivenUpForGood`: attempts recorded and under way, against
those a claim may still add.

| theorem | states |
|---|---|
| `WebhooksTyped` | `Spec => []TypeOK` |
| `ClaimsExclude` | `Spec => []OneAttemptPerLease` |
| `GivenUpStays` | `Spec => []GivenUpForGood` |
| `ConfirmedOnce` | `Spec => DeliveredIsFinal` |
| `DeliveryImplementsBook` | `Spec => ImplementsDeliveryBook`: a sale is `Announce`, an answer of the receiver `Confirm`, a recorded attempt `Try` |

The refinement needs `SuccessesConfirmed`: a call that is about to record a success has
been answered with one, and nothing takes that back.

### ModerationProofs: any samples, reports and requests

`OneHolder`: the row lock is one request's. `Knows` and `Decides`: what a holder has
read of the sample, and of its open flags, is still so when it commits; once a takedown
has committed, metadata may replace the CID, but the one it is about to unpin remains
the one that was live (`flipped`), whichever samples share it. `ClearedForGood`: a sample taken down stays so.

| theorem | states |
|---|---|
| `ModerationTyped` | `Spec => []TypeOK` |
| `QueueInStep` | `Spec => []QueueMatchesFlags` |
| `UnpinsTheRightFile` | `Spec => []UnpinnedWhatWasLive` |
| `NothingGoesBack` | `Spec => NothingMovesBackward` |
| `ModerationImplementsReviewDesk` | `Spec => ImplementsReviewDesk` |

In the refinement a COMMIT is the whole report (`ReportIsAStep`) or decision
(`DecisionIsAStep`): the flags a decision read before are by `Knows` all the open ones
there are when it commits.

### CacheProofs: any readers, writers, keys and offsets

`NoRows` (no cached page has rows: none could be serialised) gives
`TakenDownNotServed` at once, and together with `Fetched` (a reader that is about to
store has an answer) and the type invariant makes `StaleIsExplained` a property that
each step keeps: what a COMMIT makes stale its writer will delete or has an excuse
for (`StepKeepsExplanation`).

| theorem | states |
|---|---|
| `CacheTyped` | `Spec => []TypeOK` |
| `StaleEntriesExplained` | `Spec => []StaleIsExplained` |
| `NoTakenDownHit` | `Spec => []TakenDownNotServed` |

### LiveEventsProofs: any connections, addresses, pg clients and limits

The count of an address is the number of its tracked connections, a cardinality
that one `add` or `remove` moves by one (`CountOneMore`, `CountLess`); that `remove`
of a client already removed takes nothing off is `RemoveTakesOff`. `ListenerInv`:
one call of `startEventListener` at a time, none while a retry is due, and, until a
shutdown, whoever starts or listens is `client`, so that late errors of an earlier one
find somebody else in its place.

| theorem | states |
|---|---|
| `LiveEventsTyped` | `Spec => []TypeOK` |
| `BookKeepingMatchesSockets` | `Spec => []ClientsMatchSockets` |
| `NoSecondListener` | `Spec => []OneListener` |

### UploadsProofs: any uploads, days, sizes and quota

`WithinQuota`: the row's day has granted at least what the row counts, up to the quota,
and at most `MaxDaily` more for every statement that straddled midnight (`Slack`); other
days are bounded by whether the row has left them or been drawn back from them.
`RefusedInTruth`: 429 is answered only when the day's quota has been granted.
`Clean(u)` relates where a request is to its form, its stream and its pin, so that
whatever ends it next, an answer or the death of the process, ends it cleanly.

| theorem | states |
|---|---|
| `UploadsTyped` | `Spec => []TypeOK` |
| `QuotaHolds` | `Spec => []QuotaPerDay` |
| `RequestsEndCleanly` | `Spec => []EndsCleanly` |

### What stays with TLC

Liveness (`EveryEventIndexed`, `CyclesEnd`, `PayableSalesPaid`, `EveryDeliverySettles`,
`EventuallyFresh`, `SlotsComeBack`, `ListensAgain`, `ShutdownCompletes`,
`EveryUploadEnds`): outside this prover's reach, as is ENABLED. Every safety property
and every refinement that a passing run checks is proved.

## 8. What is left out

* JSON payloads, XDR decoding, titles, prices as numbers, secrets and signatures.
* Who may call an endpoint: callers are those the routes let through.
* Reads of the chain and the analytics queries; filters, search and order of the
  listings; ETags and 304; the Redis client's own reconnection.
* `recordSubmission`, `updatePayoutStatus`, `deleteSample`: without a caller in the
  repository; a payout stays in its first status.
* Several contracts in one database; clocks that differ between PostgreSQL, Node
  and the chain; an RPC node that lags the one that announced the tip.

## 9. Plan

Written in this order, the most important behaviour first: `Indexer` with its
abstract specification, `RoyaltySplit`, `Reconciliation`, `Webhooks`, `Moderation`;
then `Cache`, `LiveEvents`, `Uploads`, `RoyaltyLedger`, and the proofs of all of them.
What would add most next:

1. A module that composes `Indexer`'s commits with `Reconciliation`'s reads. The theorem
   it would rest on is there: `IndexGrowsAtTheEnd`, which is what `Reconciliation!Index`
   assumes.
2. Abstract specifications of an upload and of a cached read, with `Uploads` and `Cache`
   shown to implement them.
3. Several contracts in one database, and an RPC node that lags.
