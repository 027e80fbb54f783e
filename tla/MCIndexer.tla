------------------------------ MODULE MCIndexer ------------------------------
(* Instances of Indexer for TLC.                                           *)
EXTENDS Indexer, Sequences, SequencesExt, TLC

CONSTANTS w1, w2, p1, p2

\* A chain is a sequence of ledgers, each a sequence of events.
Upload(t, s, p) == [kind |-> "uploaded", tx |-> t, sample |-> s, producer |-> p, fits |-> TRUE]
Licence(t, s, p) == [Upload(t, s, p) EXCEPT !.kind = "licensed"]
Unknown(t, s, p) == [Upload(t, s, p) EXCEPT !.kind = "unknown"]
Oversized(t, s, p) == [Licence(t, s, p) EXCEPT !.fits = FALSE]

LogOf(chain) == FlattenSeq(chain)
UpToOf(chain) == [l \in 0..Len(chain) |-> Len(FlattenSeq(SubSeq(chain, 1, l)))]

\* Two licences bought in one transaction around an event the indexer does not know, and
\* two uploads of one producer; a page of two events is full in the second ledger.  The last
\* licence has a price that total_volume cannot hold.
RaceChain ==
    << <<Upload("t1", 1, p1)>>,
       <<Licence("t2", 2, p1), Unknown("t2", 2, p1), Licence("t2", 2, p1)>>,
       <<Upload("t3", 2, p1)>>,
       <<Oversized("t4", 1, p1)>> >>
RaceLog == LogOf(RaceChain)
RaceUpTo == UpToOf(RaceChain)

\* A sale in every ledger, the first before its sample can have been uploaded.
SalesChain ==
    << <<Licence("t1", 1, p1)>>, <<Upload("t2", 2, p1)>>, <<Licence("t3", 2, p1)>> >>
SalesLog == LogOf(SalesChain)
SalesUpTo == UpToOf(SalesChain)

\* The workers run the same code; used only where every property is a safety property.
WorkerSymmetry == Permutations(Workers)
=============================================================================
