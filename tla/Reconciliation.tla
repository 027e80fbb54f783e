--------------------------- MODULE Reconciliation ---------------------------
(***************************************************************************)
(* Royalties: POST /:id/royalty-splits (src/routes/royalties.ts) adds      *)
(* versions of a sample's split with createSplitVersion, and workers of    *)
(* src/reconciliation/worker.ts look for sales without a payout, resolve   *)
(* each against the split effective when its ledger closed and record the  *)
(* payout with createPayout.  Sales happen on the chain and reach          *)
(* contract_events through the indexer, in order.                          *)
(*                                                                         *)
(* A transaction's rows are visible from its COMMIT on.  What it holds     *)
(* while it is open - a sample's advisory lock, a payout's unique key - is *)
(* what its step says; its INSERTs of split rows and of line items are     *)
(* therefore part of the step that commits.  The shares of a payment are   *)
(* computed in RoyaltySplit; here a line item is the recipient and its     *)
(* basis points.                                                           *)
(***************************************************************************)
EXTENDS Integers, Sequences, FiniteSets, FiniteSetsExt

CONSTANTS
    Workers,     \* reconciliation processes
    Callers,     \* POST requests, each made at most once
    Samples,
    Configs,     \* the legal splits: functions from recipients to basis points
    BatchSize,   \* RECONCILIATION_BATCH_SIZE
    MaxTime,     \* bound: the clock
    MaxSales,    \* bound: sales
    MaxFailures  \* bound: crashes and database errors

Times == 0..MaxTime
SaleIds == 1..MaxSales  \* contract_events.id
NoSplit == 0            \* no version is effective: versions start at 1

ASSUME BoundsAssumption ==
    /\ BatchSize \in Nat \ {0} /\ MaxTime \in Nat /\ MaxSales \in Nat /\ MaxFailures \in Nat
    /\ IsFiniteSet(Callers)

VARIABLES
    now,        \* Date.now(), and the close time of a ledger
    chain,      \* the sales so far: sample, close time, whether the price can be paid out;
                \* inForce (history) is the version the table gave when the sale closed
    indexed,    \* how many of them are in contract_events
    posted,     \* samples with a row
    splits,     \* royalty_splits; asked (history) is when the version was requested
    payouts,    \* payouts: sale and version
    lineItems,  \* payout_line_items: sale, recipient, share
    cpc, request, next,          \* createSplitVersion: where, its arguments, next_version
    pc, batch, version, shares,  \* reconcileOnce: where, pending, effective
    failures

callers == <<cpc, request, next>>
workers == <<pc, batch, version, shares>>
tables == <<splits, payouts, lineItems>>
vars == <<now, chain, indexed, posted, tables, callers, workers, failures>>

NoRequest == [sample |-> "none", config |-> <<>>, from |-> 0, asked |-> 0]
RowsOf(config, s, v, from, asked) ==
    {[sample |-> s, version |-> v, recipient |-> r, basisPoints |-> config[r],
      from |-> from, asked |-> asked] : r \in DOMAIN config}
SplitOf(s, v) == {r \in splits : r.sample = s /\ r.version = v}

\* getEffectiveSplit: ORDER BY effective_from DESC, version DESC LIMIT 1.
EffectiveVersion(s, time) ==
    LET rows == {r \in splits : r.sample = s /\ r.from <= time} IN
    IF rows = {} THEN NoSplit
    ELSE (CHOOSE r \in rows : \A q \in rows :
              q.from < r.from \/ (q.from = r.from /\ q.version <= r.version)).version

Init ==
    /\ now = 0 /\ chain = <<>> /\ indexed = 0 /\ posted = {}
    /\ splits = {} /\ payouts = {} /\ lineItems = {}
    /\ cpc = [c \in Callers |-> "start"] /\ request = [c \in Callers |-> NoRequest]
    /\ next = [c \in Callers |-> 0]
    /\ pc = [w \in Workers |-> "idle"] /\ batch = [w \in Workers |-> {}]
    /\ version = [w \in Workers |-> NoSplit] /\ shares = [w \in Workers |-> {}]
    /\ failures = 0
----------------------------------------------------------------------------
(* The world around: time, sales, the indexer, metadata.                   *)

Tick ==
    /\ now < MaxTime /\ now' = now + 1
    /\ UNCHANGED <<chain, indexed, posted, tables, callers, workers, failures>>

Sell(s, payable) ==
    /\ Len(chain) < MaxSales
    /\ chain' = Append(chain, [sample |-> s, at |-> now, payable |-> payable,
                               inForce |-> EffectiveVersion(s, now)])
    /\ UNCHANGED <<now, indexed, posted, tables, callers, workers, failures>>

\* A batch of the indexer commits.
Index ==
    /\ indexed < Len(chain) /\ indexed' \in indexed + 1..Len(chain)
    /\ UNCHANGED <<now, chain, posted, tables, callers, workers, failures>>

PostMetadata(s) ==
    /\ s \notin posted /\ posted' = posted \cup {s}
    /\ UNCHANGED <<now, chain, indexed, tables, callers, workers, failures>>
----------------------------------------------------------------------------
(* createSplitVersion.                                                     *)

\* "effectiveFrom cannot be in the past"; without one it is the present.
MayStartAt(from) == from >= now

\* The route has checked the request, and createSplitVersion waits for the sample's lock.
Configure(c, s, config, from) ==
    /\ cpc[c] = "start" /\ s \in posted /\ MayStartAt(from)
    /\ request' = [request EXCEPT ![c] = [sample |-> s, config |-> config, from |-> from,
                                          asked |-> now]]
    /\ cpc' = [cpc EXCEPT ![c] = "lock"]
    /\ UNCHANGED <<now, chain, indexed, posted, tables, next, workers, failures>>

\* Mutant of LockFree.
LockIgnored(s) == TRUE

LockFree(s) == \A c \in Callers : cpc[c] \in {"version", "insert"} => request[c].sample # s

\* BEGIN; SELECT pg_advisory_xact_lock(sampleId)
LockSample(c) ==
    /\ cpc[c] = "lock" /\ LockFree(request[c].sample)
    /\ cpc' = [cpc EXCEPT ![c] = "version"]
    /\ UNCHANGED <<now, chain, indexed, posted, tables, request, next, workers, failures>>

\* Mutant of VersionAfter.
LastVersion(used) == Max(used \cup {0})

\* COALESCE(MAX(version), 0) + 1
VersionAfter(used) == Max(used \cup {0}) + 1

NextVersion(c) ==
    LET used == {r.version : r \in {q \in splits : q.sample = request[c].sample}} IN
    /\ cpc[c] = "version"
    /\ next' = [next EXCEPT ![c] = VersionAfter(used)]
    /\ cpc' = [cpc EXCEPT ![c] = "insert"]
    /\ UNCHANGED <<now, chain, indexed, posted, tables, request, workers, failures>>

\* createSplitVersion returns or throws: its locals go.
Answer(c) ==
    /\ cpc' = [cpc EXCEPT ![c] = "done"]
    /\ request' = [request EXCEPT ![c] = NoRequest] /\ next' = [next EXCEPT ![c] = 0]

\* One INSERT per recipient, and COMMIT.  Under the lock nobody else has used the version,
\* so UNIQUE (sample_id, version, recipient) stays silent.
CommitVersion(c) ==
    LET q == request[c] IN
    /\ cpc[c] = "insert"
    /\ splits' = splits \cup RowsOf(q.config, q.sample, next[c], q.from, q.asked)
    /\ Answer(c)
    /\ UNCHANGED <<now, chain, indexed, posted, payouts, lineItems, workers, failures>>

\* A crash or an error rolls the transaction back; the caller gets a 500.
AbandonVersion(c) ==
    /\ cpc[c] \in {"lock", "version", "insert"} /\ failures < MaxFailures
    /\ Answer(c) /\ failures' = failures + 1
    /\ UNCHANGED <<now, chain, indexed, posted, tables, workers>>
----------------------------------------------------------------------------
(* reconcileOnce.                                                          *)

HasPayout(e) == \E p \in payouts : p.sale = e

\* findUnreconciledLicensedEvents: the oldest BatchSize sales without a payout.
Pending ==
    LET open == {e \in 1..indexed : ~HasPayout(e)} IN
    {e \in open : Cardinality({f \in open : f < e}) < BatchSize}

SelectPending(w) ==
    /\ pc[w] = "idle"
    /\ batch' = [batch EXCEPT ![w] = Pending]
    /\ pc' = [pc EXCEPT ![w] = "resolve"]
    /\ UNCHANGED <<now, chain, indexed, posted, tables, callers, version, shares, failures>>

Sale(w) == Min(batch[w])  \* the event of the pass w is at

\* The locals of one turn of the loop go.
GoOnWith(w, rest) ==
    /\ batch' = [batch EXCEPT ![w] = rest]
    /\ version' = [version EXCEPT ![w] = NoSplit] /\ shares' = [shares EXCEPT ![w] = {}]
    /\ pc' = [pc EXCEPT ![w] = "resolve"]
NextEvent(w) == GoOnWith(w, batch[w] \ {Sale(w)})

\* Mutant of Skip.
SkipTheRest(w) == GoOnWith(w, {})

\* continue: one event that cannot be resolved does not end the pass.
Skip(w) == NextEvent(w)

\* Mutant of ResolveTime.
ResolveNow(e) == now

\* A sale is resolved at its own ledger's close time.
ResolveTime(e) == chain[e].at

\* getSampleByChainId, then getEffectiveSplit's SELECT of the version.
ResolveVersion(w) ==
    LET found == EffectiveVersion(chain[Sale(w)].sample, ResolveTime(Sale(w))) IN
    /\ pc[w] = "resolve" /\ batch[w] # {}
    /\ IF chain[Sale(w)].sample \notin posted \/ found = NoSplit
       THEN Skip(w)
       ELSE /\ version' = [version EXCEPT ![w] = found]
            /\ pc' = [pc EXCEPT ![w] = "recipients"]
            /\ UNCHANGED <<batch, shares>>
    /\ UNCHANGED <<now, chain, indexed, posted, tables, callers, failures>>

\* Mutant of Recipients.
OfAnyVersion(s, v) == {r \in splits : r.sample = s}

\* getEffectiveSplit's second SELECT.
Recipients(s, v) == SplitOf(s, v)

SharesIn(rows) ==
    {[recipient |-> r.recipient, basisPoints |-> r.basisPoints] : r \in rows}

\* The SELECT of the recipients, and computeLineItems, which throws for a price that is not
\* positive; the catch goes on with the next event.
ComputeShares(w) ==
    /\ pc[w] = "recipients"
    /\ IF chain[Sale(w)].payable
       THEN /\ shares' = [shares EXCEPT ![w] =
                             SharesIn(Recipients(chain[Sale(w)].sample, version[w]))]
            /\ pc' = [pc EXCEPT ![w] = "payout"]
            /\ UNCHANGED <<batch, version>>
       ELSE Skip(w)
    /\ UNCHANGED <<now, chain, indexed, posted, tables, callers, failures>>

\* Another worker's open transaction has inserted the payout.
KeyHeld(w) == \E v \in Workers \ {w} : pc[v] = "lines" /\ Sale(v) = Sale(w)

\* Mutant of Won.
ConflictIgnored(e) == TRUE

\* RETURNING id is not empty.
Won(e) == ~HasPayout(e)

\* INSERT INTO payouts ... ON CONFLICT (sale_event_id) DO NOTHING; the loser of the race
\* commits with nothing.
InsertPayout(w) ==
    /\ pc[w] = "payout" /\ ~KeyHeld(w)
    /\ IF Won(Sale(w))
       THEN pc' = [pc EXCEPT ![w] = "lines"] /\ UNCHANGED <<batch, version, shares>>
       ELSE NextEvent(w)
    /\ UNCHANGED <<now, chain, indexed, posted, tables, callers, failures>>

\* The line items, and COMMIT.
CommitPayout(w) ==
    /\ pc[w] = "lines"
    /\ payouts' = payouts \cup {[sale |-> Sale(w), version |-> version[w]]}
    /\ lineItems' = lineItems \cup {[sale |-> Sale(w), share |-> x] : x \in shares[w]}
    /\ NextEvent(w)
    /\ UNCHANGED <<now, chain, indexed, posted, splits, callers, failures>>

EndPass(w) ==
    /\ pc[w] = "resolve" /\ batch[w] = {}
    /\ pc' = [pc EXCEPT ![w] = "idle"]
    /\ UNCHANGED <<now, chain, indexed, posted, tables, callers, batch, version, shares,
                   failures>>

\* The catch around one event: roll back and go on with the next.
EventError(w) ==
    /\ pc[w] # "idle" /\ batch[w] # {} /\ failures < MaxFailures
    /\ Skip(w) /\ failures' = failures + 1
    /\ UNCHANGED <<now, chain, indexed, posted, tables, callers>>

\* The process dies and is started again.
Crash(w) ==
    /\ pc[w] # "idle" /\ failures < MaxFailures
    /\ batch' = [batch EXCEPT ![w] = {}] /\ pc' = [pc EXCEPT ![w] = "idle"]
    /\ version' = [version EXCEPT ![w] = NoSplit] /\ shares' = [shares EXCEPT ![w] = {}]
    /\ failures' = failures + 1
    /\ UNCHANGED <<now, chain, indexed, posted, tables, callers>>

Reconcile(w) ==
    \/ SelectPending(w) \/ ResolveVersion(w) \/ ComputeShares(w) \/ InsertPayout(w)
    \/ CommitPayout(w) \/ EndPass(w)

World ==
    \/ Tick \/ Index
    \/ \E s \in Samples : PostMetadata(s) \/ \E payable \in BOOLEAN : Sell(s, payable)

Split(c) ==
    \/ \E s \in Samples, config \in Configs, from \in Times : Configure(c, s, config, from)
    \/ LockSample(c) \/ NextVersion(c) \/ CommitVersion(c) \/ AbandonVersion(c)

Next ==
    \/ \E w \in Workers : Reconcile(w) \/ EventError(w) \/ Crash(w)
    \/ \E c \in Callers : Split(c)
    \/ World

Spec == Init /\ [][Next]_vars

\* runReconciliationForever starts pass after pass, and PostgreSQL answers.
FairSpec == Spec /\ \A w \in Workers : WF_vars(Reconcile(w))
----------------------------------------------------------------------------
(* Properties.                                                             *)

Shares(config) == {[recipient |-> r, basisPoints |-> config[r]] : r \in DOMAIN config}
AllShares == UNION {Shares(config) : config \in Configs}
Versions == 1..Cardinality(Callers)

TypeOK ==
    /\ now \in Times /\ indexed \in 0..Len(chain) /\ posted \subseteq Samples
    /\ chain \in Seq([sample : Samples, at : Times, payable : BOOLEAN,
                      inForce : Versions \cup {NoSplit}])
    /\ \A r \in splits : r.sample \in Samples /\ r.version \in Versions
                         /\ r.from \in Times /\ r.asked \in Times
    /\ payouts \subseteq [sale : SaleIds, version : Versions]
    /\ lineItems \subseteq [sale : SaleIds, share : AllShares]
    /\ cpc \in [Callers -> {"start", "lock", "version", "insert", "done"}]
    /\ next \in [Callers -> Versions \cup {0}]
    /\ pc \in [Workers -> {"idle", "resolve", "recipients", "payout", "lines"}]
    /\ batch \in [Workers -> SUBSET SaleIds]
    /\ version \in [Workers -> Versions \cup {NoSplit}]
    /\ shares \in [Workers -> SUBSET AllShares]
    /\ failures \in 0..MaxFailures

\* A version is "an immutable, all-or-nothing set" (migration 0005): concurrent requests
\* never "interleave two different recipient sets under the same version number".
VersionsWhole ==
    \A r \in splits :
        LET rows == SplitOf(r.sample, r.version) IN
        \E config \in Configs : rows = RowsOf(config, r.sample, r.version, r.from, r.asked)

LinesOf(e) == {i.share : i \in {j \in lineItems : j.sale = e}}

\* However often a sale is picked up, it has one payout, whose line items are the whole
\* split of the version it names, and no line item stands without its payout.
PayoutsWhole ==
    /\ \A p, q \in payouts : p.sale = q.sale => p = q
    /\ \A i \in lineItems : HasPayout(i.sale)
    /\ \A p \in payouts :
        LinesOf(p.sale) = SharesIn(SplitOf(chain[p.sale].sample, p.version))

\* "Versions only ever apply forward from creation" (routes/royalties.ts): however late a sale
\* is indexed or reconciled, the split that pays it is the one in force when the sale closed,
\* or a newer one that had been asked for by then and was still waiting to commit.
LaterSplitsDoNotPay ==
    \A p \in payouts :
        /\ p.version >= chain[p.sale].inForce
        /\ \A r \in SplitOf(chain[p.sale].sample, p.version) :
            r.asked <= r.from /\ r.from <= chain[p.sale].at

\* Versions and payouts, for all the requests and workers behind them, are a ledger that
\* adds whole versions one after another and pays each payable sale once, by one of its
\* sample's that had started when it was made and is not older than the one in force then.
\* No version, payout or line item ever changes or goes.
Ledger == INSTANCE RoyaltyLedger WITH
    Splits <- {Shares(config) : config \in Configs},
    versions <- {[sample |-> r.sample, number |-> r.version, from |-> r.from,
                  split |-> SharesIn(SplitOf(r.sample, r.version))] : r \in splits},
    sold <- chain,
    payments <- {[sale |-> p.sale, number |-> p.version, split |-> LinesOf(p.sale)] :
                 p \in payouts}
ImplementsRoyaltyLedger == Ledger!Spec

Payable(e) ==
    /\ e <= indexed /\ chain[e].payable /\ chain[e].sample \in posted
    /\ EffectiveVersion(chain[e].sample, chain[e].at) # NoSplit

\* "One malformed or unresolvable event must not block every event after it in this batch,
\* or every batch after this one" (reconciliation/worker.ts).  The code keeps less than these
\* words say: a sale that can be paid out is paid out, unless as many older ones as a batch
\* holds cannot be - those are selected first, again in every pass, and starve it.
PayableSalesPaid ==
    \A e \in SaleIds :
        (Payable(e) /\ Cardinality({f \in 1..e - 1 : ~Payable(f)}) < BatchSize) ~> HasPayout(e)
=============================================================================
