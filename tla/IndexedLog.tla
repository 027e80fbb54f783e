----------------------------- MODULE IndexedLog -----------------------------
(***************************************************************************)
(* What the indexer promises: an index of a log of events, with a tally of *)
(* how often each event has been counted and a mark that says how far the  *)
(* log has been indexed.  It grows by whole batches, in the log's order    *)
(* and without holes; a batch counts the events it adds, each of them      *)
(* once, tells the subscribers of those events and of no older ones, and   *)
(* may set the mark to any ledger all of whose events are then indexed - a *)
(* mark set by a slower worker may be below an earlier one.                *)
(***************************************************************************)
EXTENDS Integers

CONSTANTS MaxLedger, UpTo, Log, Announced

NoRow == -1
Ledgers == 0..MaxLedger
Events == 1..UpTo[MaxLedger]
\* The events the indexer knows; the others it passes over.
Known == {e \in Events : Log[e].kind # "unknown"}

VARIABLES
    index, tally, mark, first,
    news,    \* messages sent: <<event, channel>>
    orders   \* webhook deliveries ordered: <<event, addressee>>
vars == <<index, tally, mark, first, news, orders>>

Init ==
    /\ index = {} /\ tally = [e \in Events |-> 0] /\ mark = NoRow /\ first = NoRow
    /\ news = {} /\ orders = {}

\* The first worker chooses where the index begins.
Seed ==
    /\ mark = NoRow /\ mark' \in Ledgers /\ first' = mark'
    /\ UNCHANGED <<index, tally, news, orders>>

\* Everything the log holds between the first ledger and ledger l, but for the events
\* the indexer does not know.
Complete(l, set) == {e \in Known : UpTo[first] < e /\ e <= UpTo[l]} \subseteq set

\* A set without holes: it begins behind the first ledger, and an event in it has every
\* earlier one there too.
InOrder(set) ==
    \A e \in set : /\ UpTo[first] < e
                   /\ {f \in Known : UpTo[first] < f /\ f < e} \subseteq set

\* The messages and deliveries of a batch of new events: each upload is announced on the
\* channels for that, only licences order deliveries, and nothing is said about older events.
Tell(new) ==
    /\ news \subseteq news' /\ \A m \in news' \ news : m[1] \in new
    /\ \A e \in new : Log[e].kind = "uploaded" => {e} \X Announced \subseteq news'
    /\ orders \subseteq orders'
    /\ \A o \in orders' \ orders : o[1] \in new /\ Log[o[1]].kind = "licensed"

\* One batch commits: rows, totals, mark, messages and deliveries together.
Absorb ==
    /\ mark # NoRow /\ mark' \in Ledgers
    /\ index \subseteq index' /\ index' \subseteq Events
    /\ tally' = [e \in Events |-> tally[e] + IF e \in index' \ index THEN 1 ELSE 0]
    /\ Complete(mark', index') /\ InOrder(index') /\ Tell(index' \ index)
    /\ UNCHANGED first

Next == Seed \/ Absorb
Spec == Init /\ [][Next]_vars

\* What the readers of the index rely on, reconciliation and webhooks: the events known to
\* the index come to it one after another, never one older than another that is there, and
\* whatever is sent about an event is sent when it comes, and at no other time.
GrowsAtTheEnd ==
    [][/\ \A e \in Known \cap (index' \ index), f \in index : f < e
       /\ \A m \in (news' \ news) \cup (orders' \ orders) : m[1] \in index' \ index]_vars
=============================================================================
