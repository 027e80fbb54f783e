------------------------------ MODULE Indexer ------------------------------
(***************************************************************************)
(* The event indexer: src/indexer/worker.ts polls the Soroban RPC,         *)
(* src/indexer/{sorobanEvents,eventDecoder}.ts fetch and decode a window   *)
(* of ledgers, and src/db/indexerRepository.ts applies the window in one   *)
(* PostgreSQL transaction, statement by statement, with the side effects   *)
(* of every event it is the first to insert.  Any number of workers run    *)
(* against one database, and POST /api/samples/metadata writes the samples *)
(* table they read.                                                        *)
(*                                                                         *)
(* A statement of a transaction is one action.  What a transaction wrote   *)
(* is kept in tx[w] until its COMMIT; a read sees the committed tables     *)
(* (READ COMMITTED) and the worker's own tx[w]; a write waits for the row  *)
(* or unique key another open transaction holds.                           *)
(*                                                                         *)
(* Totals are kept as what has been added to them: credited[e] is how      *)
(* often event e was added to platform_stats (its price to total_volume,   *)
(* or 1 to total_samples), sold[e] how often it was added to               *)
(* samples.total_sales, counted[p] how often producer p was added to       *)
(* total_producers.                                                        *)
(*                                                                         *)
(* A definition marked as a mutant is no part of the specification: it is  *)
(* what a bug would make of the definition after it, for trying the        *)
(* properties out.                                                         *)
(***************************************************************************)
EXTENDS Integers, FiniteSets

CONSTANTS
    Workers,        \* indexer processes sharing the database
    Producers,      \* addresses that upload samples
    Samples,        \* the contract's sample numbers: chain_id, and what ids compare with
    MaxLedger,      \* bound: ledgers the chain closes
    UpTo,           \* UpTo[l]: how many events the contract emitted in ledgers 1..l
    Log,            \* Log[e]: the e-th event of the contract, in execution order
    Window,         \* INDEXER_LEDGERS_PER_WINDOW
    PageSize,       \* INDEXER_EVENTS_PAGE_SIZE
    StartLedger,    \* INDEXER_START_LEDGER, 0 when unset
    Backfill,       \* INDEXER_BACKFILL_LEDGERS
    WebhookSchema,  \* whether migration 0009 (webhook tables) has been applied
    MaxRowId,       \* bound: values drawn from the sequence behind samples.id
    MaxFailures     \* bound: crashes and RPC or database errors

NoRow == -1         \* no indexer_cursor row yet
Nobody == "nobody"  \* no samples row
Marketplace == "marketplace"
Stats == "stats"
Announced == {Marketplace, Stats}   \* the channels that hear of an upload

Ledgers == 0..MaxLedger
Events == 1..UpTo[MaxLedger]

ASSUME BoundsAssumption ==
    /\ MaxLedger \in Nat \ {0} /\ Window \in Nat \ {0} /\ PageSize \in Nat \ {0}
    /\ StartLedger \in Ledgers /\ Backfill \in Nat
    /\ MaxRowId \in Nat /\ MaxFailures \in Nat

\* Ledgers close in order and their events are numbered in execution order.
ASSUME LogAssumption ==
    /\ UpTo \in [Ledgers -> Nat]
    /\ \A l, m \in Ledgers : l <= m => UpTo[l] <= UpTo[m]
    /\ Log \in [Events -> [kind : {"uploaded", "licensed", "unknown"}, tx : STRING,
                           sample : Samples, producer : Producers, fits : BOOLEAN]]

ASSUME NamesAssumption ==
    /\ Samples \subseteq Nat \ {0} /\ Nobody \notin Producers
    /\ Announced \cap Producers = {} /\ WebhookSchema \in BOOLEAN

VARIABLES
    tip,         \* the latest closed ledger
    cursor,      \* indexer_cursor.last_ledger, NoRow before the first seed
    origin,      \* history: the value the cursor was seeded with
    events,      \* contract_events: the events applied
    credited,    \* platform_stats.total_volume and total_samples
    known,       \* known_producers
    counted,     \* platform_stats.total_producers
    owner,       \* samples.uploader by chain_id, Nobody where there is no row
    rowId,       \* samples.id by chain_id, 0 where there is no row
    nextId,      \* the sequence behind samples.id
    sold,        \* samples.total_sales
    sales,       \* sales: the events that have a row
    deliveries,  \* webhook_deliveries: <<event, producer it is addressed to>>
    published,   \* pg_notify messages sent by COMMIT: <<event, channel>>
    pc, latest, last, to,  \* indexOnce: where it is, and its locals
    at, stop,    \* the batch: the event it is at, the last event fetched
    fresh,       \* isNewProducer
    broken,      \* a statement failed inside a swallowed catch: the transaction is aborted
    tx,          \* what the open transaction wrote
    failures     \* crashes and errors so far

db == <<cursor, origin, events, credited, known, counted, sold, sales, deliveries, published>>
rows == <<owner, rowId, nextId>>
locals == <<latest, last, to>>
batch == <<at, stop, fresh, broken>>
vars == <<tip, db, rows, pc, locals, batch, tx, failures>>

EmptyTx == [events |-> {}, credited |-> {}, known |-> {}, counted |-> {}, sold |-> {},
            sales |-> {}, deliveries |-> {}, published |-> {}]
Steps == {"idle", "cursor", "seed", "init", "window", "insert", "sold", "volume", "sale",
          "delivery", "notice", "producer", "upload", "announce", "committed"}
\* Between BEGIN and COMMIT.
InTransaction == {"insert", "sold", "volume", "sale", "delivery", "notice", "producer",
                  "upload", "announce"}

TxType ==
    [events : SUBSET Events, credited : SUBSET Events, known : SUBSET Producers,
     counted : SUBSET Producers, sold : SUBSET Events, sales : SUBSET Events,
     deliveries : SUBSET (Events \X Producers),
     published : SUBSET (Events \X (Producers \cup Announced))]

TablesTyped ==
    /\ tip \in Ledgers /\ cursor \in Ledgers \cup {NoRow} /\ origin \in Ledgers \cup {NoRow}
    /\ events \subseteq Events /\ credited \in [Events -> Nat] /\ sold \in [Events -> Nat]
    /\ known \subseteq Producers /\ counted \in [Producers -> Nat]
    /\ sales \subseteq Events /\ deliveries \subseteq Events \X Producers
    /\ published \subseteq Events \X (Producers \cup Announced)
RowsTyped ==
    /\ owner \in [Samples -> Producers \cup {Nobody}]
    /\ rowId \in [Samples -> Nat] /\ nextId \in Nat
    /\ \A s \in Samples : rowId[s] # 0 => owner[s] # Nobody
LocalsTyped ==
    /\ latest \in [Workers -> Ledgers] /\ last \in [Workers -> Ledgers]
    /\ to \in [Workers -> Ledgers]
BatchTyped ==
    /\ at \in [Workers -> Nat] /\ stop \in [Workers -> Nat]
    /\ fresh \in [Workers -> BOOLEAN] /\ broken \in [Workers -> BOOLEAN]
TypeOK ==
    /\ TablesTyped /\ RowsTyped /\ LocalsTyped /\ BatchTyped
    /\ pc \in [Workers -> Steps] /\ failures \in Nat
    /\ tx \in [Workers -> TxType]

Init ==
    /\ tip = 1 /\ cursor = NoRow /\ origin = NoRow
    /\ events = {} /\ credited = [e \in Events |-> 0] /\ sold = [e \in Events |-> 0]
    /\ known = {} /\ counted = [p \in Producers |-> 0]
    /\ owner = [s \in Samples |-> Nobody] /\ rowId = [s \in Samples |-> 0] /\ nextId = 1
    /\ sales = {} /\ deliveries = {} /\ published = {}
    /\ pc = [w \in Workers |-> "idle"] /\ failures = 0
    /\ latest = [w \in Workers |-> 0] /\ last = [w \in Workers |-> 0]
    /\ to = [w \in Workers |-> 0]
    /\ at = [w \in Workers |-> 0] /\ stop = [w \in Workers |-> 0]
    /\ fresh = [w \in Workers |-> FALSE] /\ broken = [w \in Workers |-> FALSE]
    /\ tx = [w \in Workers |-> EmptyTx]

Goto(w, step) == pc' = [pc EXCEPT ![w] = step]

\* indexOnce returns or throws: its locals go, and so do those of the batch.
ForgetLocals(w) ==
    /\ latest' = [latest EXCEPT ![w] = 0] /\ last' = [last EXCEPT ![w] = 0]
    /\ to' = [to EXCEPT ![w] = 0]
ForgetBatch(w) ==
    /\ at' = [at EXCEPT ![w] = 0] /\ stop' = [stop EXCEPT ![w] = 0]
    /\ fresh' = [fresh EXCEPT ![w] = FALSE] /\ broken' = [broken EXCEPT ![w] = FALSE]
----------------------------------------------------------------------------
(* The cycle of indexOnce: the tip, the cursor, one window after another.  *)

\* latest = await getLatestLedger()
PollTip(w) ==
    /\ pc[w] = "idle"
    /\ latest' = [latest EXCEPT ![w] = tip]
    /\ Goto(w, "cursor")
    /\ UNCHANGED <<tip, db, rows, last, to, batch, tx, failures>>

\* ensureCursor's getCursor, before and after seeding.
ReadCursor(w) ==
    /\ pc[w] = "cursor"
    /\ IF cursor = NoRow
       THEN Goto(w, "seed") /\ UNCHANGED last
       ELSE Goto(w, "window") /\ last' = [last EXCEPT ![w] = cursor]
    /\ UNCHANGED <<tip, db, rows, latest, to, batch, tx, failures>>

\* Mutant of Start.
StartWithoutFloor(ledger) == IF StartLedger # 0 THEN StartLedger ELSE ledger - Backfill

\* startLedger ?? Math.max(1, latest - backfillLedgers)
Start(ledger) ==
    IF StartLedger # 0 THEN StartLedger
    ELSE IF ledger > Backfill THEN ledger - Backfill ELSE 1

\* ensureCursor's own getLatestLedger, and the last_ledger it is about to seed.
ChooseStart(w) ==
    /\ pc[w] = "seed"
    /\ last' = [last EXCEPT ![w] = Start(tip) - 1]
    /\ Goto(w, "init")
    /\ UNCHANGED <<tip, db, rows, latest, to, batch, tx, failures>>

\* Mutant of AfterInit.
AfterInitKeepsOwnStart == "window"

\* Whoever wins the race to seed, the worker reads the cursor again.
AfterInit == "cursor"

\* initCursor: ON CONFLICT (contract_id) DO NOTHING.
InitCursor(w) ==
    /\ pc[w] = "init"
    /\ IF cursor = NoRow
       THEN cursor' = last[w] /\ origin' = last[w]
       ELSE UNCHANGED <<cursor, origin>>
    /\ Goto(w, AfterInit)
    /\ UNCHANGED <<tip, events, credited, known, counted, sold, sales, deliveries, published,
                   rows, locals, batch, tx, failures>>

WindowEnd(w) ==
    IF last[w] + Window < latest[w] THEN last[w] + Window ELSE latest[w]

\* Mutant of LastFetched.
LastFetchedOnePage(from, end) ==
    IF UpTo[end] - UpTo[from - 1] < PageSize THEN UpTo[end] ELSE UpTo[from - 1] + PageSize

\* The last event fetchEventsInRange returns.  Only the first request carries endLedger: a
\* full first page is followed by cursor requests, which read on to the tip.
LastFetched(from, end) ==
    IF UpTo[end] - UpTo[from - 1] < PageSize THEN UpTo[end] ELSE UpTo[tip]

\* while (lastLedger < latest): fetch and decode the next window, and BEGIN.
FetchWindow(w) ==
    /\ pc[w] = "window" /\ last[w] < latest[w]
    /\ to' = [to EXCEPT ![w] = WindowEnd(w)]
    /\ at' = [at EXCEPT ![w] = UpTo[last[w]] + 1]
    /\ stop' = [stop EXCEPT ![w] = LastFetched(last[w] + 1, WindowEnd(w))]
    /\ Goto(w, "insert")
    /\ UNCHANGED <<tip, db, rows, latest, last, fresh, broken, tx, failures>>

\* The window loop is over; dispatchDueWebhooks and the poll interval follow.
EndCycle(w) ==
    /\ pc[w] = "window" /\ last[w] >= latest[w]
    /\ Goto(w, "idle") /\ ForgetLocals(w)
    /\ UNCHANGED <<tip, db, rows, batch, tx, failures>>
----------------------------------------------------------------------------
(* The batch transaction, event by event.                                  *)

Others(w) == Workers \ {w}

\* What keeps a statement of w waiting.
EventKeyHeld(w, e) == \E v \in Others(w) : e \in tx[v].events
StatsRowHeld(w) == \E v \in Others(w) : tx[v].credited # {}
ProducerKeyHeld(w, p) == \E v \in Others(w) : p \in tx[v].known
SampleRowHeld(ws, s) == \E v \in ws : \E e \in tx[v].sold : Log[e].sample = s
SaleKeyHeld(w, e) == \E v \in Others(w) : \E f \in tx[v].sales : Log[f].tx = Log[e].tx

\* decodeEvents drops an event it does not know; it keeps its place in the numbering.
Decodable(e) == Log[e].kind # "unknown"

SkipUndecodable(w) ==
    /\ pc[w] = "insert" /\ ~broken[w] /\ at[w] <= stop[w] /\ ~Decodable(at[w])
    /\ at' = [at EXCEPT ![w] = @ + 1]
    /\ UNCHANGED <<tip, db, rows, pc, locals, stop, fresh, broken, tx, failures>>

\* Mutant of AlreadyApplied.
AppliedIgnored(w, e) == e \in tx[w].events

\* The unique key (ledger, tx_hash, event_index) is taken, so RETURNING is empty.
AlreadyApplied(w, e) == e \in events \cup tx[w].events

\* INSERT INTO contract_events ... ON CONFLICT DO NOTHING RETURNING id
InsertEvent(w) ==
    LET e == at[w] IN
    /\ pc[w] = "insert" /\ ~broken[w] /\ e <= stop[w] /\ Decodable(e)
    /\ ~EventKeyHeld(w, e)
    /\ IF AlreadyApplied(w, e)
       THEN at' = [at EXCEPT ![w] = @ + 1] /\ UNCHANGED <<pc, tx>>
       ELSE /\ tx' = [tx EXCEPT ![w].events = @ \cup {e}]
            /\ Goto(w, IF Log[e].kind = "licensed" THEN "sold" ELSE "producer")
            /\ UNCHANGED at
    /\ UNCHANGED <<tip, db, rows, locals, stop, fresh, broken, failures>>

\* incrementSales: UPDATE samples ... WHERE chain_id; 0 rows without metadata.
IncrementSales(w) ==
    LET s == Log[at[w]].sample IN
    /\ pc[w] = "sold"
    /\ IF owner[s] = Nobody
       THEN UNCHANGED tx
       ELSE /\ ~SampleRowHeld(Others(w), s)
            /\ tx' = [tx EXCEPT ![w].sold = @ \cup {at[w]}]
    /\ Goto(w, "volume")
    /\ UNCHANGED <<tip, db, rows, locals, batch, failures>>

\* platform_stats.total_volume += price; a price out of BIGINT's range makes it fail.
AddVolume(w) ==
    /\ pc[w] = "volume" /\ Log[at[w]].fits /\ ~StatsRowHeld(w)
    /\ tx' = [tx EXCEPT ![w].credited = @ \cup {at[w]}]
    /\ Goto(w, "sale")
    /\ UNCHANGED <<tip, db, rows, locals, batch, failures>>

\* Mutant of HasRow.
HasRowWithId(s) == \E x \in Samples : rowId[x] = s

\* SELECT uploader FROM samples WHERE chain_id = event.sampleId finds a row.
HasRow(s) == owner[s] # Nobody

\* The seller by chain_id, then insertSale: ON CONFLICT (tx_hash) DO NOTHING.
RecordSale(w) ==
    LET e == at[w]
        taken == \E f \in sales \cup tx[w].sales : Log[f].tx = Log[e].tx
    IN
    /\ pc[w] = "sale"
    /\ IF ~HasRow(Log[e].sample)
       THEN UNCHANGED tx
       ELSE /\ ~SaleKeyHeld(w, e)
            /\ tx' = IF taken THEN tx ELSE [tx EXCEPT ![w].sales = @ \cup {e}]
    /\ Goto(w, "delivery")
    /\ UNCHANGED <<tip, db, rows, locals, batch, failures>>

\* SELECT uploader FROM samples WHERE id = event.sampleId
UploadersById(s) == {owner[x] : x \in {y \in Samples : rowId[y] = s}}

\* enqueueSaleDelivery, to the producer found by id.  Without the webhook tables the
\* statement fails, and the catch around it leaves the transaction aborted.
EnqueueDelivery(w) ==
    LET found == UploadersById(Log[at[w]].sample) IN
    /\ pc[w] = "delivery"
    /\ IF WebhookSchema
       THEN /\ tx' = [tx EXCEPT ![w].deliveries = @ \cup ({at[w]} \X found)]
            /\ UNCHANGED broken
       ELSE broken' = [broken EXCEPT ![w] = found # {}] /\ UNCHANGED tx
    /\ Goto(w, "notice")
    /\ UNCHANGED <<tip, db, rows, locals, at, stop, fresh, failures>>

\* pg_notify on the producer's sale channel and on the marketplace; after a failed
\* statement this one fails too, and its catch swallows that as well.
NotifySale(w) ==
    LET found == IF broken[w] THEN {} ELSE UploadersById(Log[at[w]].sample)
        channels == IF found = {} THEN {} ELSE found \cup {Marketplace}
    IN
    /\ pc[w] = "notice"
    /\ tx' = [tx EXCEPT ![w].published = @ \cup ({at[w]} \X channels)]
    /\ at' = [at EXCEPT ![w] = @ + 1]
    /\ Goto(w, "insert")
    /\ UNCHANGED <<tip, db, rows, locals, stop, fresh, broken, failures>>

\* INSERT INTO known_producers ... ON CONFLICT DO NOTHING RETURNING address
IsNewProducer(w, p) == p \notin known \cup tx[w].known

InsertProducer(w) ==
    LET p == Log[at[w]].producer IN
    /\ pc[w] = "producer" /\ ~ProducerKeyHeld(w, p)
    /\ fresh' = [fresh EXCEPT ![w] = IsNewProducer(w, p)]
    /\ tx' = [tx EXCEPT ![w].known = @ \cup ({p} \ known)]
    /\ Goto(w, "upload")
    /\ UNCHANGED <<tip, db, rows, locals, at, stop, broken, failures>>

\* platform_stats.total_samples += 1, total_producers += isNewProducer ? 1 : 0
AddUpload(w) ==
    LET new == IF fresh[w] THEN {Log[at[w]].producer} ELSE {} IN
    /\ pc[w] = "upload" /\ ~StatsRowHeld(w)
    /\ tx' = [tx EXCEPT ![w].credited = @ \cup {at[w]}, ![w].counted = @ \cup new]
    /\ fresh' = [fresh EXCEPT ![w] = FALSE]
    /\ Goto(w, "announce")
    /\ UNCHANGED <<tip, db, rows, locals, at, stop, broken, failures>>

\* pg_notify of the upload on the marketplace; then the totals, which AddUpload's row holds,
\* are read and sent on the stats channel.
NotifyUpload(w) ==
    /\ pc[w] = "announce"
    /\ tx' = [tx EXCEPT ![w].published = @ \cup ({at[w]} \X Announced)]
    /\ at' = [at EXCEPT ![w] = @ + 1]
    /\ Goto(w, "insert")
    /\ UNCHANGED <<tip, db, rows, locals, stop, fresh, broken, failures>>

\* total + EXCLUDED.total for what the transaction added
Plus(total, added) == [x \in DOMAIN total |-> total[x] + IF x \in added THEN 1 ELSE 0]

\* Mutant of NewCursor.
NewCursorAtTip(w) == latest[w]

NewCursor(w) == to[w]

\* The cursor's upsert, which overwrites whatever is there, and COMMIT.
Commit(w) ==
    /\ pc[w] = "insert" /\ ~broken[w] /\ at[w] > stop[w]
    /\ cursor' = NewCursor(w)
    /\ events' = events \cup tx[w].events
    /\ credited' = Plus(credited, tx[w].credited)
    /\ known' = known \cup tx[w].known
    /\ counted' = Plus(counted, tx[w].counted)
    /\ sold' = Plus(sold, tx[w].sold)
    /\ sales' = sales \cup tx[w].sales
    /\ deliveries' = deliveries \cup tx[w].deliveries
    /\ published' = published \cup tx[w].published
    /\ tx' = [tx EXCEPT ![w] = EmptyTx]
    /\ Goto(w, "committed") /\ ForgetBatch(w)
    /\ UNCHANGED <<tip, origin, rows, locals, failures>>

\* Mutant of NewLast.
NewLastForgotten(w) == last[w]

NewLast(w) == to[w]

\* Back in indexOnce (the caches are invalidated here): lastLedger = to.
NextWindow(w) ==
    /\ pc[w] = "committed"
    /\ last' = [last EXCEPT ![w] = NewLast(w)]
    /\ Goto(w, "window")
    /\ UNCHANGED <<tip, db, rows, latest, to, batch, tx, failures>>
----------------------------------------------------------------------------
(* Failures, and the rest of the world.                                    *)

\* runForever's catch keeps the process polling.
AfterError == "idle"

\* ROLLBACK and rethrow: nothing of the cycle survives but the process.
Abandon(w) ==
    /\ tx' = [tx EXCEPT ![w] = EmptyTx]
    /\ Goto(w, AfterError) /\ ForgetLocals(w) /\ ForgetBatch(w)
    /\ UNCHANGED <<tip, db, rows>>

\* A statement outside the swallowed catches fails: the next one of an aborted
\* transaction, or the volume of a price that total_volume cannot hold.
Rollback(w) ==
    /\ \/ pc[w] = "insert" /\ broken[w]
       \/ pc[w] = "volume" /\ ~Log[at[w]].fits
    /\ Abandon(w) /\ UNCHANGED failures

\* An RPC error, a lost database connection, or a crash and restart of the process.
Fail(w) ==
    /\ pc[w] # "idle" /\ failures < MaxFailures
    /\ Abandon(w) /\ failures' = failures + 1

CloseLedger ==
    /\ tip < MaxLedger /\ tip' = tip + 1
    /\ UNCHANGED <<db, rows, pc, locals, batch, tx, failures>>

\* upsertSampleMetadata: a conflict on chain_id keeps id and uploader, but has drawn
\* a value of the id sequence; the row may be locked by incrementSales.
PostMetadata(s, p) ==
    /\ nextId <= MaxRowId /\ ~SampleRowHeld(Workers, s)
    /\ nextId' = nextId + 1
    /\ IF owner[s] = Nobody
       THEN owner' = [owner EXCEPT ![s] = p] /\ rowId' = [rowId EXCEPT ![s] = nextId]
       ELSE UNCHANGED <<owner, rowId>>
    /\ UNCHANGED <<tip, db, pc, locals, batch, tx, failures>>

Step(w) ==
    \/ PollTip(w) \/ ReadCursor(w) \/ ChooseStart(w) \/ InitCursor(w)
    \/ FetchWindow(w) \/ EndCycle(w) \/ SkipUndecodable(w) \/ InsertEvent(w)
    \/ IncrementSales(w) \/ AddVolume(w) \/ RecordSale(w) \/ EnqueueDelivery(w)
    \/ NotifySale(w) \/ InsertProducer(w) \/ AddUpload(w) \/ NotifyUpload(w)
    \/ Commit(w) \/ NextWindow(w) \/ Rollback(w)

Next ==
    \/ \E w \in Workers : Step(w) \/ Fail(w)
    \/ CloseLedger
    \/ \E s \in Samples, p \in Producers : PostMetadata(s, p)

Spec == Init /\ [][Next]_vars

\* runForever always polls again, and PostgreSQL answers: each worker keeps stepping.
Fairness == \A w \in Workers : WF_vars(Step(w))
FairSpec == Spec /\ Fairness
----------------------------------------------------------------------------
(* Properties.                                                             *)

\* Every decodable event of the ledgers from the seed up to ledger l is in the tables.
Covered(l) ==
    \A e \in Events :
        UpTo[origin] < e /\ e <= UpTo[l] /\ Decodable(e) => e \in events

\* "last_ledger means processed through this ledger" (worker.ts, ensureCursor): nothing
\* at or below the committed cursor, or below the ledger any worker goes on from, is
\* still missing, whichever worker wrote the cursor last and wherever others crashed.
ScannedLedgersApplied ==
    /\ cursor # NoRow => Covered(cursor)
    /\ \A w \in Workers :
        /\ pc[w] \in InTransaction \cup {"window", "committed"} => Covered(last[w])
        /\ pc[w] = "committed" => Covered(to[w])

Uploaders(set) == {Log[e].producer : e \in {f \in set : Log[f].kind = "uploaded"}}

\* "It can't double the side effects" (applyEventBatchAndAdvanceCursor): however windows
\* overlap and cycles are retried, the totals hold each applied event once, and each
\* uploader of an applied upload once.
CountedOnce ==
    /\ \A e \in Events : credited[e] = IF e \in events THEN 1 ELSE 0
    /\ known = Uploaders(events)
    /\ \A p \in Producers : counted[p] = IF p \in known THEN 1 ELSE 0

\* The next statement of v waits for a row or unique key that w's transaction holds.
WaitsFor(v, w) ==
    LET e == at[v] IN
    /\ v # w
    /\ \/ pc[v] = "insert" /\ ~broken[v] /\ e <= stop[v] /\ e \in tx[w].events
       \/ pc[v] = "sold" /\ owner[Log[e].sample] # Nobody /\ SampleRowHeld({w}, Log[e].sample)
       \/ pc[v] = "volume" /\ Log[e].fits /\ tx[w].credited # {}
       \/ pc[v] = "sale" /\ HasRow(Log[e].sample) /\ \E f \in tx[w].sales : Log[f].tx = Log[e].tx
       \/ pc[v] = "producer" /\ Log[e].producer \in tx[w].known
       \/ pc[v] = "upload" /\ tx[w].credited # {}

\* Workers whose windows overlap want the same rows and keys, but whoever is waited for
\* waits for nobody: PostgreSQL never has a deadlock of two batches to break.
WaitedForGoesOn ==
    \A u, v, w \in Workers : WaitsFor(u, v) => ~WaitsFor(v, w)

\* Why: only one transaction at a time has inserted anything, and all its locks follow.
OneWriter ==
    \A v, w \in Workers : tx[v].events # {} /\ tx[w].events # {} => v = w

\* total_sales and the sales table do not contradict each other: a sale row belongs to an
\* applied licence, and a licence counted in total_sales, once, has its transaction in the
\* sales table.  (A row, not a row of its own: the second licence of a transaction has none,
\* although db/migrations/0010 says "one row per on-chain purchase_license event".)
SalesAgree ==
    /\ \A e \in sales : e \in events /\ Log[e].kind = "licensed"
    /\ \A e \in Events :
        sold[e] # 0 => /\ sold[e] = 1 /\ e \in events
                       /\ \E f \in sales : Log[f].tx = Log[e].tx

\* The whole of the indexer is an index of the log that grows by whole batches, without
\* holes, and tells the subscribers of each batch when it commits.
Index == INSTANCE IndexedLog WITH index <- events, tally <- credited,
                                  mark <- cursor, first <- origin,
                                  news <- published, orders <- deliveries
ImplementsIndexedLog == Index!Spec

\* Once the cursor is seeded, every decodable event of a later ledger is applied.
EveryEventIndexed ==
    \A e \in Events : Decodable(e) =>
        (origin # NoRow /\ UpTo[origin] < e /\ e <= UpTo[tip] ~> e \in events)

\* Every worker gets to the end of its window loop again and again, which is the only
\* place dispatchDueWebhooks is called from.
CyclesEnd == \A w \in Workers : []<>(pc[w] = "idle")

\* db/migrations/0009: "at-least-once sale deliveries" of a producer's webhooks: a sale
\* recorded with its seller has a delivery addressed to that seller.
SellerIsNotified == \A e \in sales : <<e, owner[Log[e].sample]>> \in deliveries
----------------------------------------------------------------------------
(* The inductive invariant behind the safety properties (IndexerProofs).   *)

\* Between the INSERT of an event and its last side effect.
InEffects == InTransaction \ {"insert"}

\* The batch stays inside the log.
InRange(w) ==
    pc[w] \in InTransaction =>
        /\ 1 <= at[w] /\ at[w] <= stop[w] + 1 /\ stop[w] <= UpTo[MaxLedger]
        /\ pc[w] \in InEffects => at[w] <= stop[w]

\* The cursor exists from the seed on, and never goes below it.
Seeded ==
    /\ cursor = NoRow <=> origin = NoRow
    /\ cursor # NoRow => origin <= cursor

\* A worker in its window loop goes on from a ledger at or above the seed, and its batch
\* from the event after that ledger to the last one of the window, or beyond; it never
\* looks past the tip.
OnCourse(w) ==
    /\ pc[w] \in InTransaction \cup {"window", "committed"} =>
        origin # NoRow /\ origin <= last[w]
    /\ pc[w] \in InTransaction =>
        last[w] < to[w] /\ UpTo[to[w]] <= stop[w] /\ UpTo[last[w]] < at[w]
    /\ pc[w] = "committed" => last[w] < to[w]
    /\ latest[w] <= tip

\* The events w's transaction has been through.
Passed(w) ==
    {e \in Events : /\ UpTo[last[w]] < e /\ Decodable(e)
                    /\ e < at[w] \/ (e = at[w] /\ pc[w] \in InEffects)}

\* What it has inserted: those of them that the committed table did not have.
InsertedInOrder(w) ==
    /\ pc[w] \notin InTransaction => tx[w] = EmptyTx
    /\ pc[w] \in InTransaction => /\ tx[w].events \subseteq Passed(w)
                                  /\ Passed(w) \subseteq events \cup tx[w].events
    /\ tx[w].events \cap events = {}
    /\ pc[w] \in InEffects => at[w] \in tx[w].events

\* What it has counted: each event it inserted, but for the one it is still at, and each
\* uploader that was new to the committed table.
OfUpload == {"producer", "upload", "announce"}
CountedInOrder(w) ==
    /\ pc[w] \in OfUpload => Log[at[w]].kind = "uploaded"
    /\ pc[w] \in InEffects \ OfUpload => Log[at[w]].kind = "licensed"
    /\ tx[w].credited = IF pc[w] \in {"sold", "volume", "producer", "upload"}
                        THEN tx[w].events \ {at[w]} ELSE tx[w].events
    /\ tx[w].known = Uploaders(IF pc[w] = "producer" THEN tx[w].events \ {at[w]}
                               ELSE tx[w].events) \ known
    /\ tx[w].counted = IF pc[w] = "upload" /\ fresh[w]
                       THEN tx[w].known \ {Log[at[w]].producer} ELSE tx[w].known
    /\ pc[w] = "upload" /\ fresh[w] => Log[at[w]].producer \in tx[w].known

WorkerInv(w) == InRange(w) /\ OnCourse(w) /\ InsertedInOrder(w) /\ CountedInOrder(w)

\* Whatever the workers, crashes and posts interleave to, each worker has inserted exactly
\* what its batch passed and the tables lacked, and counted exactly what it inserted.
IndInv ==
    /\ TypeOK /\ Seeded /\ \A w \in Workers : WorkerInv(w)
    /\ ScannedLedgersApplied /\ CountedOnce /\ OneWriter
=============================================================================
