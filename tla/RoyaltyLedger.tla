---------------------------- MODULE RoyaltyLedger ----------------------------
(***************************************************************************)
(* What royalties promise: the splits of a sample are numbered versions    *)
(* that are only ever added, each of them whole and newer than the ones    *)
(* before; sales are made one after another, each with a version in force  *)
(* or with none; and a ledger of payments pays a sale once, for good, by   *)
(* one whole version of its sample that had started when the sale was made *)
(* and is not older than the one in force then.                            *)
(***************************************************************************)
EXTENDS Integers, Sequences

CONSTANTS Samples,
          Splits  \* what a version may divide a payment into

VARIABLES
    versions,  \* sample, number, start and split of each
    sold,      \* the sales: sample, time, whether payable, the version in force
    payments   \* sale, and number and split of the version it is paid by
vars == <<versions, sold, payments>>

Init == versions = {} /\ sold = <<>> /\ payments = {}

\* A split is configured.
Add ==
    \E v \in versions' \ versions :
        /\ versions' = versions \cup {v}
        /\ v.sample \in Samples /\ v.split \in Splits
        /\ \A u \in versions : u.sample = v.sample => u.number < v.number
        /\ UNCHANGED <<sold, payments>>

Started(sale) == {v \in versions : v.sample = sale.sample /\ v.from <= sale.at}

\* Of the versions that have started, the one that started last is in force; of several,
\* the newest; 0 says that there is none.
InForce(sale, number) ==
    \/ Started(sale) = {} /\ number = 0
    \/ \E v \in Started(sale) :
        /\ v.number = number
        /\ \A u \in Started(sale) : u.from < v.from \/ (u.from = v.from /\ u.number <= v.number)

\* A sale, not earlier than those before.
Sell ==
    /\ Len(sold') = Len(sold) + 1
    /\ \E sale \in {sold'[Len(sold')]} :
        /\ sold' = Append(sold, sale) /\ sale.sample \in Samples
        /\ \A e \in DOMAIN sold : sold[e].at <= sale.at
        /\ InForce(sale, sale.inForce)
    /\ UNCHANGED <<versions, payments>>

\* A version that may pay a sale.
MayPay(v, sale) ==
    v.sample = sale.sample /\ v.from <= sale.at /\ v.number >= sale.inForce

Pay ==
    \E p \in payments' \ payments :
        /\ payments' = payments \cup {p}
        /\ p.sale \in DOMAIN sold /\ sold[p.sale].payable
        /\ \E v \in versions : MayPay(v, sold[p.sale]) /\ v.number = p.number /\ v.split = p.split
        /\ \A q \in payments : q.sale # p.sale
        /\ UNCHANGED <<versions, sold>>

Next == Add \/ Sell \/ Pay
Spec == Init /\ [][Next]_vars
=============================================================================
