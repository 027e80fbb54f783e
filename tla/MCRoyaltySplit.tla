--------------------------- MODULE MCRoyaltySplit ---------------------------
(* Inputs of computeLineItems for TLC. *)
EXTENDS RoyaltySplit

CONSTANTS r1, r2, r3, r4

Names == <<r1, r2, r3, r4>>
Entries(names, bps) == [recipient : names, basisPoints : bps]

\* Every list of up to two entries, duplicates and entries out of range included, and every
\* list of three or four distinct recipients.
ShortLists == UNION {[1..n -> Entries({r1, r2}, -1..TotalBps + 1)] : n \in 0..2}
LongLists ==
    UNION {{[i \in 1..n |-> [recipient |-> Names[i], basisPoints |-> bps[i]]] :
               bps \in [1..n -> 1..TotalBps - n + 1]} : n \in 3..4}
AllSplits == ShortLists \cup LongLists
AllAmounts == -1..2 * TotalBps + 1
=============================================================================
