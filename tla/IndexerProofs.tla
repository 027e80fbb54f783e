--------------------------- MODULE IndexerProofs ---------------------------
(***************************************************************************)
(* Proofs about Indexer, for any number of workers, any log and any        *)
(* bounds.                                                                 *)
(***************************************************************************)
EXTENDS Indexer, TLAPS

USE DEF NoRow

LEMMA EventsBelow ==
    ASSUME NEW l \in Ledgers
    PROVE  UpTo[l] \in Nat /\ UpTo[l] <= UpTo[MaxLedger]
BY BoundsAssumption, LogAssumption DEF Ledgers

\* In the middle of an event's effects, the batch is at an event of the log.
LEMMA AtAnEvent ==
    ASSUME TypeOK, NEW w \in Workers, InRange(w), pc[w] \in InEffects
    PROVE  at[w] \in Events /\ Log[at[w]].producer \in Producers
<1>1. at[w] \in Events
  BY EventsBelow, BoundsAssumption
  DEF TypeOK, BatchTyped, InRange, InEffects, InTransaction, Events, Ledgers
<1> QED
  BY <1>1, LogAssumption

\* A write of a transaction is typed when the new record is.
LEMMA WriteTyped ==
    ASSUME tx \in [Workers -> TxType], NEW w \in Workers, NEW t \in TxType,
           tx' = [tx EXCEPT ![w] = t]
    PROVE  tx' \in [Workers -> TxType]
OBVIOUS

\* A step of a worker keeps the types.
LEMMA StepTyped ==
    ASSUME TypeOK, NEW w \in Workers, InRange(w), Step(w)
    PROVE  TypeOK'
<1> USE DEF TypeOK, db, rows, locals, batch, Goto
<1> DEFINE t == tx[w]
           e == at[w]
<1>t. t \in TxType
  OBVIOUS
<1>e. pc[w] \in InEffects => e \in Events /\ Log[e].producer \in Producers
  BY AtAnEvent
<1>f. pc[w] \in InEffects => UploadersById(Log[e].sample) \subseteq Producers
  <2>1. pc[w] \in InEffects => Log[e].sample \in Samples
    BY <1>e, LogAssumption
  <2>2. pc[w] \in InEffects => Log[e].sample # 0
    BY <2>1, NamesAssumption
  <2> QED
    BY <2>2 DEF UploadersById, RowsTyped
<1>1. CASE PollTip(w)
  BY <1>1 DEF PollTip, Steps, TablesTyped, RowsTyped, LocalsTyped, BatchTyped
<1>2. CASE ReadCursor(w)
  BY <1>2 DEF ReadCursor, Steps, TablesTyped, RowsTyped, LocalsTyped, BatchTyped
<1>3. CASE ChooseStart(w)
  <2>1. Start(tip) - 1 \in Ledgers
    BY BoundsAssumption DEF Start, Ledgers, TablesTyped
  <2> QED
    BY <1>3, <2>1 DEF ChooseStart, Steps, TablesTyped, RowsTyped, LocalsTyped, BatchTyped
<1>4. CASE InitCursor(w)
  BY <1>4
  DEF InitCursor, AfterInit, Steps, TablesTyped, RowsTyped, LocalsTyped, BatchTyped
<1>5. CASE FetchWindow(w)
  <2>1. WindowEnd(w) \in Ledgers
    BY BoundsAssumption DEF WindowEnd, Ledgers, LocalsTyped
  <2>2. UpTo[last[w]] \in Nat /\ UpTo[WindowEnd(w)] \in Nat /\ UpTo[tip] \in Nat
    BY <2>1, EventsBelow DEF LocalsTyped, TablesTyped
  <2>3. LastFetched(last[w] + 1, WindowEnd(w)) \in Nat
    BY <2>2 DEF LastFetched
  <2> QED
    BY <1>5, <2>1, <2>2, <2>3
    DEF FetchWindow, Steps, TablesTyped, RowsTyped, LocalsTyped, BatchTyped
<1>6. CASE EndCycle(w)
  BY <1>6, BoundsAssumption
  DEF EndCycle, ForgetLocals, Ledgers, Steps, TablesTyped, RowsTyped, LocalsTyped, BatchTyped
<1>7. CASE SkipUndecodable(w)
  BY <1>7 DEF SkipUndecodable, TablesTyped, RowsTyped, LocalsTyped, BatchTyped
<1>8. CASE InsertEvent(w)
  <2>1. pc' \in [Workers -> Steps] /\ at' \in [Workers -> Nat]
    BY <1>8 DEF InsertEvent, Steps, BatchTyped
  <2>2. e \in Events
    BY <1>8, EventsBelow, BoundsAssumption
    DEF InsertEvent, InRange, InTransaction, Events, Ledgers, BatchTyped
  <2>3. [t EXCEPT !.events = @ \cup {e}] \in TxType
    BY <1>t, <2>2 DEF TxType
  <2>4. tx' \in [Workers -> TxType]
    BY <1>8, <2>3 DEF InsertEvent
  <2> QED
    BY <1>8, <2>1, <2>4
    DEF InsertEvent, TablesTyped, RowsTyped, LocalsTyped, BatchTyped
<1>9. CASE IncrementSales(w)
  <2>1. [t EXCEPT !.sold = @ \cup {e}] \in TxType
    BY <1>9, <1>t, <1>e DEF IncrementSales, InEffects, InTransaction, TxType
  <2>2. tx' \in [Workers -> TxType]
    BY <1>9, <2>1 DEF IncrementSales
  <2> QED
    BY <1>9, <2>2
    DEF IncrementSales, Steps, TablesTyped, RowsTyped, LocalsTyped, BatchTyped
<1>10. CASE AddVolume(w)
  <2>1. [t EXCEPT !.credited = @ \cup {e}] \in TxType
    BY <1>10, <1>t, <1>e DEF AddVolume, InEffects, InTransaction, TxType
  <2>2. tx' \in [Workers -> TxType]
    BY <1>10, <2>1 DEF AddVolume
  <2> QED
    BY <1>10, <2>2 DEF AddVolume, Steps, TablesTyped, RowsTyped, LocalsTyped, BatchTyped
<1>11. CASE RecordSale(w)
  <2>1. [t EXCEPT !.sales = @ \cup {e}] \in TxType
    BY <1>11, <1>t, <1>e DEF RecordSale, InEffects, InTransaction, TxType
  <2>2. tx' \in [Workers -> TxType]
    BY <1>11, <2>1 DEF RecordSale
  <2> QED
    BY <1>11, <2>2 DEF RecordSale, Steps, TablesTyped, RowsTyped, LocalsTyped, BatchTyped
<1>12. CASE EnqueueDelivery(w)
  <2>1. [t EXCEPT !.deliveries = @ \cup ({e} \X UploadersById(Log[e].sample))] \in TxType
    BY <1>12, <1>t, <1>e, <1>f DEF EnqueueDelivery, InEffects, InTransaction, TxType
  <2>2. tx' \in [Workers -> TxType]
    BY <1>12, <2>1 DEF EnqueueDelivery
  <2>3. broken' \in [Workers -> BOOLEAN]
    BY <1>12 DEF EnqueueDelivery, BatchTyped
  <2> QED
    BY <1>12, <2>2, <2>3
    DEF EnqueueDelivery, Steps, TablesTyped, RowsTyped, LocalsTyped, BatchTyped
<1>13. CASE NotifySale(w)
  <2>1. ASSUME NEW channels \in SUBSET (Producers \cup Announced)
        PROVE  [t EXCEPT !.published = @ \cup ({e} \X channels)] \in TxType
    BY <1>13, <1>t, <1>e DEF NotifySale, InEffects, InTransaction, TxType
  <2>2. tx' \in [Workers -> TxType]
    BY <1>13, <1>f, <2>1 DEF NotifySale, InEffects, InTransaction, Announced
  <2>3. at' \in [Workers -> Nat]
    BY <1>13 DEF NotifySale, BatchTyped
  <2> QED
    BY <1>13, <2>2, <2>3
    DEF NotifySale, Steps, TablesTyped, RowsTyped, LocalsTyped, BatchTyped
<1>14. CASE InsertProducer(w)
  <2>1. [t EXCEPT !.known = @ \cup ({Log[e].producer} \ known)] \in TxType
    BY <1>14, <1>t, <1>e DEF InsertProducer, InEffects, InTransaction, TxType
  <2>2. tx' \in [Workers -> TxType]
    BY <1>14, <2>1 DEF InsertProducer
  <2> QED
    BY <1>14, <2>2
    DEF InsertProducer, IsNewProducer, Steps, TablesTyped, RowsTyped, LocalsTyped, BatchTyped
<1>15. CASE AddUpload(w)
  <2>1. ASSUME NEW new \in SUBSET {Log[e].producer}
        PROVE  [t EXCEPT !.credited = @ \cup {e}, !.counted = @ \cup new] \in TxType
    BY <1>15, <1>t, <1>e DEF AddUpload, InEffects, InTransaction, TxType
  <2>2. tx' \in [Workers -> TxType]
    BY <1>15, <2>1 DEF AddUpload
  <2> QED
    BY <1>15, <2>2 DEF AddUpload, Steps, TablesTyped, RowsTyped, LocalsTyped, BatchTyped
<1>16. CASE NotifyUpload(w)
  <2>1. [t EXCEPT !.published = @ \cup ({e} \X Announced)] \in TxType
    BY <1>16, <1>t, <1>e DEF NotifyUpload, InEffects, InTransaction, TxType
  <2>2. tx' \in [Workers -> TxType]
    BY <1>16, <2>1 DEF NotifyUpload
  <2>3. at' \in [Workers -> Nat]
    BY <1>16 DEF NotifyUpload, BatchTyped
  <2> QED
    BY <1>16, <2>2, <2>3
    DEF NotifyUpload, Steps, TablesTyped, RowsTyped, LocalsTyped, BatchTyped
<1>17. CASE Commit(w)
  <2>1. EmptyTx \in TxType
    BY DEF EmptyTx, TxType
  <2>2. tx' \in [Workers -> TxType]
    BY <1>17, <2>1 DEF Commit
  <2>3. /\ events' \subseteq Events /\ known' \subseteq Producers /\ sales' \subseteq Events
        /\ deliveries' \subseteq Events \X Producers
        /\ published' \subseteq Events \X (Producers \cup Announced)
    BY <1>17, <1>t DEF Commit, TxType, TablesTyped
  <2>4. /\ credited' \in [Events -> Nat] /\ sold' \in [Events -> Nat]
        /\ counted' \in [Producers -> Nat]
    BY <1>17 DEF Commit, Plus, TablesTyped
  <2> QED
    BY <1>17, <2>2, <2>3, <2>4
    DEF Commit, NewCursor, ForgetBatch, Steps, TablesTyped, RowsTyped, LocalsTyped, BatchTyped
<1>18. CASE NextWindow(w)
  BY <1>18 DEF NextWindow, NewLast, Steps, TablesTyped, RowsTyped, LocalsTyped, BatchTyped
<1>19. CASE Rollback(w)
  <2>1. EmptyTx \in TxType
    BY DEF EmptyTx, TxType
  <2> QED
    BY <1>19, <2>1, BoundsAssumption
    DEF Rollback, Abandon, AfterError, ForgetLocals, ForgetBatch, Ledgers, Steps,
        TablesTyped, RowsTyped, LocalsTyped, BatchTyped
<1> QED
  BY <1>1, <1>2, <1>3, <1>4, <1>5, <1>6, <1>7, <1>8, <1>9, <1>10, <1>11, <1>12, <1>13,
     <1>14, <1>15, <1>16, <1>17, <1>18, <1>19 DEF Step

\* The steps of one worker leave the others' locals and transactions alone.
LEMMA OthersStandStill ==
    ASSUME TypeOK, NEW w \in Workers, Step(w), NEW v \in Workers, v # w
    PROVE  /\ pc'[v] = pc[v] /\ latest'[v] = latest[v] /\ last'[v] = last[v] /\ to'[v] = to[v]
           /\ at'[v] = at[v] /\ stop'[v] = stop[v] /\ fresh'[v] = fresh[v] /\ tx'[v] = tx[v]
<1> USE DEF TypeOK, LocalsTyped, BatchTyped, db, rows, locals, batch, Goto
<1>1. CASE PollTip(w) \/ ReadCursor(w) \/ ChooseStart(w) \/ InitCursor(w) \/ FetchWindow(w)
  BY <1>1 DEF PollTip, ReadCursor, ChooseStart, InitCursor, FetchWindow
<1>2. CASE EndCycle(w) \/ SkipUndecodable(w) \/ InsertEvent(w)
  BY <1>2 DEF EndCycle, ForgetLocals, SkipUndecodable, InsertEvent
<1>3. CASE IncrementSales(w) \/ AddVolume(w) \/ RecordSale(w)
  BY <1>3 DEF IncrementSales, AddVolume, RecordSale
<1>4. CASE EnqueueDelivery(w) \/ NotifySale(w)
  BY <1>4 DEF EnqueueDelivery, NotifySale
<1>5. CASE InsertProducer(w) \/ AddUpload(w) \/ NotifyUpload(w)
  BY <1>5 DEF InsertProducer, AddUpload, NotifyUpload
<1>6. CASE Commit(w) \/ NextWindow(w) \/ Rollback(w)
  BY <1>6 DEF Commit, NextWindow, Rollback, Abandon, ForgetLocals, ForgetBatch
<1> QED
  BY <1>1, <1>2, <1>3, <1>4, <1>5, <1>6 DEF Step

\* Only Commit changes the indexed tables, and only it and InitCursor the cursor.
LEMMA QuietSteps ==
    ASSUME NEW w \in Workers, Step(w), ~Commit(w)
    PROVE  /\ UNCHANGED <<events, credited, known, counted>>
           /\ ~InitCursor(w) => UNCHANGED <<cursor, origin>>
<1> USE DEF db, rows, locals, batch
<1>1. CASE PollTip(w) \/ ReadCursor(w) \/ ChooseStart(w) \/ InitCursor(w) \/ FetchWindow(w)
  BY <1>1 DEF PollTip, ReadCursor, ChooseStart, InitCursor, FetchWindow
<1>2. CASE EndCycle(w) \/ SkipUndecodable(w) \/ InsertEvent(w)
  BY <1>2 DEF EndCycle, SkipUndecodable, InsertEvent
<1>3. CASE IncrementSales(w) \/ AddVolume(w) \/ RecordSale(w)
  BY <1>3 DEF IncrementSales, AddVolume, RecordSale
<1>4. CASE EnqueueDelivery(w) \/ NotifySale(w)
  BY <1>4 DEF EnqueueDelivery, NotifySale
<1>5. CASE InsertProducer(w) \/ AddUpload(w) \/ NotifyUpload(w)
  BY <1>5 DEF InsertProducer, AddUpload, NotifyUpload
<1>6. CASE NextWindow(w) \/ Rollback(w)
  BY <1>6 DEF NextWindow, Rollback, Abandon
<1> QED
  BY <1>1, <1>2, <1>3, <1>4, <1>5, <1>6 DEF Step

\* A worker's batch stays inside the log, and starts where the worker has got to.
LEMMA StepStaysInRange ==
    ASSUME TypeOK, Seeded, NEW w \in Workers, InRange(w), OnCourse(w), Step(w)
    PROVE  InRange(w)' /\ OnCourse(w)'
<1> USE DEF TypeOK, TablesTyped, LocalsTyped, BatchTyped, db, rows, locals, batch, Goto,
            InRange, OnCourse, InTransaction, InEffects, Ledgers
<1>u. UpTo[last[w]] \in Nat /\ UpTo[to[w]] \in Nat /\ UpTo[tip] \in Nat /\ UpTo[MaxLedger] \in Nat
  BY EventsBelow, BoundsAssumption
<1>1. CASE PollTip(w) \/ ChooseStart(w) \/ EndCycle(w)
  BY <1>1 DEF PollTip, ChooseStart, EndCycle, ForgetLocals
<1>2. CASE ReadCursor(w)
  BY <1>2 DEF ReadCursor, Seeded
<1>3. CASE InitCursor(w)
  BY <1>3 DEF InitCursor, AfterInit
<1>4. CASE FetchWindow(w)
  <2>1. WindowEnd(w) \in Ledgers /\ last[w] < WindowEnd(w)
    BY <1>4, BoundsAssumption DEF WindowEnd, FetchWindow
  <2>2. WindowEnd(w) <= tip
    BY BoundsAssumption DEF WindowEnd
  <2>3. /\ UpTo[WindowEnd(w)] \in Nat
        /\ UpTo[WindowEnd(w)] <= UpTo[MaxLedger] /\ UpTo[tip] <= UpTo[MaxLedger]
    BY <2>1, EventsBelow
  <2>4. UpTo[last[w]] <= UpTo[WindowEnd(w)] /\ UpTo[WindowEnd(w)] <= UpTo[tip]
    BY <2>1, <2>2, LogAssumption
  <2> DEFINE end == LastFetched(last[w] + 1, WindowEnd(w))
  <2>5. end \in Nat /\ UpTo[WindowEnd(w)] <= end /\ end <= UpTo[MaxLedger]
    BY <1>u, <2>3, <2>4 DEF LastFetched
  <2>6. /\ pc[w] = "window" /\ pc'[w] = "insert" /\ to'[w] = WindowEnd(w)
        /\ at'[w] = UpTo[last[w]] + 1 /\ stop'[w] = end
        /\ last' = last /\ latest' = latest /\ tip' = tip /\ origin' = origin
    BY <1>4 DEF FetchWindow
  <2> HIDE DEF end
  <2>7. InRange(w)'
    BY <1>u, <2>3, <2>4, <2>5, <2>6
  <2>8. OnCourse(w)'
    BY <1>u, <2>1, <2>5, <2>6
  <2> QED
    BY <2>7, <2>8
<1>5. CASE SkipUndecodable(w) \/ InsertEvent(w)
  BY <1>5, <1>u DEF SkipUndecodable, InsertEvent
<1>6. CASE IncrementSales(w) \/ AddVolume(w) \/ RecordSale(w)
  BY <1>6 DEF IncrementSales, AddVolume, RecordSale
<1>7. CASE EnqueueDelivery(w) \/ NotifySale(w)
  BY <1>7, <1>u DEF EnqueueDelivery, NotifySale
<1>8. CASE InsertProducer(w) \/ AddUpload(w) \/ NotifyUpload(w)
  BY <1>8, <1>u DEF InsertProducer, AddUpload, NotifyUpload
<1>9. CASE Commit(w) \/ NextWindow(w) \/ Rollback(w)
  BY <1>9, <1>u
  DEF Commit, NextWindow, NewLast, Rollback, Abandon, AfterError, ForgetLocals, ForgetBatch
<1> QED
  BY <1>1, <1>2, <1>3, <1>4, <1>5, <1>6, <1>7, <1>8, <1>9 DEF Step

\* What a transaction has inserted stays what its batch has passed and the table lacked.
LEMMA StepInsertsInOrder ==
    ASSUME TypeOK, NEW w \in Workers, InRange(w), OnCourse(w), InsertedInOrder(w), Step(w)
    PROVE  InsertedInOrder(w)'
<1> USE DEF TypeOK, LocalsTyped, BatchTyped, db, rows, locals, batch, Goto, InTransaction,
            InEffects, InsertedInOrder
<1>u. UpTo[last[w]] \in Nat /\ at[w] \in Nat /\ \A e \in Events : e \in Nat
  BY EventsBelow, BoundsAssumption DEF Events
<1>t. tx[w] \in TxType
  OBVIOUS
<1>1. CASE PollTip(w) \/ ReadCursor(w) \/ ChooseStart(w) \/ InitCursor(w)
  BY <1>1 DEF PollTip, ReadCursor, ChooseStart, InitCursor, AfterInit
<1>2. CASE EndCycle(w) \/ NextWindow(w)
  BY <1>2 DEF EndCycle, NextWindow
<1>3. CASE FetchWindow(w)
  <2>1. /\ pc'[w] = "insert" /\ last' = last /\ at'[w] = UpTo[last[w]] + 1
        /\ tx'[w] = EmptyTx /\ events' = events
    BY <1>3 DEF FetchWindow
  <2>2. Passed(w)' = {}
    BY <1>u, <2>1 DEF Passed, Decodable
  <2> QED
    BY <2>1, <2>2 DEF EmptyTx
<1>4. CASE SkipUndecodable(w)
  <2>1. /\ pc[w] = "insert" /\ pc' = pc /\ last' = last /\ at'[w] = at[w] + 1
        /\ tx' = tx /\ events' = events /\ ~Decodable(at[w])
    BY <1>4 DEF SkipUndecodable
  <2>2. Passed(w)' = Passed(w)
    BY <1>u, <2>1 DEF Passed, Decodable
  <2> QED
    BY <2>1, <2>2
<1>5. CASE InsertEvent(w)
  <2>1. /\ pc[w] = "insert" /\ last' = last /\ events' = events /\ Decodable(at[w])
        /\ at[w] \in Events /\ UpTo[last[w]] < at[w]
    BY <1>5, EventsBelow, BoundsAssumption DEF InsertEvent, InRange, OnCourse, Events, Ledgers
  <2>2. CASE AlreadyApplied(w, at[w])
    <3>1. at'[w] = at[w] + 1 /\ pc' = pc /\ tx' = tx
      BY <1>5, <2>2 DEF InsertEvent
    <3>2. Passed(w)' = Passed(w) \cup {at[w]}
      BY <1>u, <2>1, <3>1 DEF Passed, Decodable
    <3> QED
      BY <2>1, <2>2, <3>1, <3>2 DEF AlreadyApplied
  <2>3. CASE ~AlreadyApplied(w, at[w])
    <3>1. /\ at' = at /\ pc'[w] \in {"sold", "producer"}
          /\ tx'[w].events = tx[w].events \cup {at[w]}
      BY <1>5, <1>t, <2>3 DEF InsertEvent, TxType
    <3>2. Passed(w)' = Passed(w) \cup {at[w]}
      BY <1>u, <2>1, <3>1 DEF Passed, Decodable
    <3> QED
      BY <2>1, <2>3, <3>1, <3>2 DEF AlreadyApplied
  <2> QED
    BY <2>2, <2>3
<1>6. ASSUME pc[w] \in InEffects, pc'[w] \in InEffects, at'[w] = at[w], last' = last,
             events' = events, tx'[w].events = tx[w].events
      PROVE  InsertedInOrder(w)'
  <2>1. Passed(w)' = Passed(w)
    BY <1>6 DEF Passed, Decodable
  <2> QED
    BY <1>6, <2>1
<1>7. CASE IncrementSales(w) \/ AddVolume(w) \/ RecordSale(w)
  BY <1>7, <1>t, <1>6 DEF IncrementSales, AddVolume, RecordSale, TxType
<1>8. CASE EnqueueDelivery(w) \/ InsertProducer(w) \/ AddUpload(w)
  BY <1>8, <1>t, <1>6 DEF EnqueueDelivery, InsertProducer, AddUpload, TxType
<1>9. CASE NotifySale(w) \/ NotifyUpload(w)
  <2>1. /\ pc[w] \in InEffects /\ pc'[w] = "insert" /\ at'[w] = at[w] + 1 /\ last' = last
        /\ events' = events /\ tx'[w].events = tx[w].events
    BY <1>9, <1>t DEF NotifySale, NotifyUpload, TxType
  <2>2. Passed(w)' = Passed(w)
    BY <1>u, <2>1 DEF Passed, Decodable
  <2> QED
    BY <2>1, <2>2
<1>10. CASE Commit(w) \/ Rollback(w)
  <2>1. pc'[w] \in {"committed", "idle"} /\ tx'[w] = EmptyTx
    BY <1>10 DEF Commit, Rollback, Abandon, AfterError
  <2> QED
    BY <2>1 DEF EmptyTx
<1> QED
  BY <1>1, <1>2, <1>3, <1>4, <1>5, <1>7, <1>8, <1>9, <1>10 DEF Step

LEMMA UploadersOfUnion ==
    ASSUME NEW S, NEW T
    PROVE  Uploaders(S \cup T) = Uploaders(S) \cup Uploaders(T)
BY DEF Uploaders

LEMMA UploadersOfOne ==
    ASSUME NEW e
    PROVE  /\ Log[e].kind = "uploaded" => Uploaders({e}) = {Log[e].producer}
           /\ Log[e].kind # "uploaded" => Uploaders({e}) = {}
           /\ Uploaders({}) = {}
BY DEF Uploaders

\* What a transaction has counted stays what it has inserted, less the event it is at.
LEMMA StepCountsInOrder ==
    ASSUME TypeOK, NEW w \in Workers, InRange(w), InsertedInOrder(w), CountedInOrder(w),
           Step(w), ~Commit(w)
    PROVE  CountedInOrder(w)'
<1> USE DEF TypeOK, LocalsTyped, BatchTyped, db, rows, locals, batch, Goto, CountedInOrder
<1> DEFINE t == tx[w]
           e == at[w]
<1>t. t \in TxType
  OBVIOUS
<1>i. pc[w] \notin InTransaction => tx[w] = EmptyTx
  BY DEF InsertedInOrder
<1>0. Uploaders({}) = {}
  BY UploadersOfOne
\* Outside an event's effects, everything inserted is counted.
<1>q. ASSUME pc'[w] \notin InEffects, tx'[w] = EmptyTx
      PROVE  CountedInOrder(w)'
  BY <1>q, <1>0 DEF EmptyTx, InEffects, InTransaction, OfUpload
<1>1. CASE PollTip(w) \/ ReadCursor(w) \/ ChooseStart(w) \/ InitCursor(w)
  BY <1>1, <1>i, <1>q
  DEF PollTip, ReadCursor, ChooseStart, InitCursor, AfterInit, InEffects, InTransaction
<1>2. CASE EndCycle(w) \/ NextWindow(w) \/ FetchWindow(w)
  BY <1>2, <1>i, <1>q DEF EndCycle, NextWindow, FetchWindow, InEffects, InTransaction
<1>3. CASE SkipUndecodable(w)
  BY <1>3 DEF SkipUndecodable, InEffects, InTransaction, OfUpload
<1>4. CASE InsertEvent(w)
  <2>1. CASE AlreadyApplied(w, e)
    BY <1>4, <2>1 DEF InsertEvent, InEffects, InTransaction, OfUpload
  <2>2. CASE ~AlreadyApplied(w, e)
    <3>1. /\ pc[w] = "insert" /\ at' = at /\ known' = known
          /\ pc'[w] = IF Log[e].kind = "licensed" THEN "sold" ELSE "producer"
          /\ tx'[w] = [t EXCEPT !.events = @ \cup {e}]
          /\ e \in Events /\ e \notin t.events
      BY <1>4, <2>2, EventsBelow, BoundsAssumption
      DEF InsertEvent, AlreadyApplied, InRange, InTransaction, Events, Ledgers
    <3>2. Log[e].kind \in {"licensed", "uploaded"}
      BY <1>4, <3>1, LogAssumption DEF InsertEvent, Decodable
    <3>3. /\ tx'[w].events = t.events \cup {e} /\ tx'[w].events \ {e} = t.events
          /\ tx'[w].credited = t.credited /\ tx'[w].known = t.known
          /\ tx'[w].counted = t.counted
      BY <1>t, <3>1 DEF TxType
    <3>4. /\ t.credited = t.events /\ t.known = Uploaders(t.events) \ known
          /\ t.counted = t.known
      BY <3>1
    <3>5. /\ Uploaders(t.events \cup {e}) = Uploaders(t.events) \cup Uploaders({e})
          /\ Log[e].kind # "uploaded" => Uploaders({e}) = {}
      BY UploadersOfUnion, UploadersOfOne
    <3> QED
      BY <3>1, <3>2, <3>3, <3>4, <3>5 DEF InEffects, InTransaction, OfUpload
  <2> QED
    BY <2>1, <2>2
\* Steps within a licence touch no counter but the volume.
<1>l. ASSUME pc[w] \in InEffects \ OfUpload, pc'[w] \in (InEffects \ OfUpload) \cup {"insert"},
             at'[w] = at[w] \/ pc'[w] = "insert", known' = known,
             tx'[w].events = t.events, tx'[w].known = t.known, tx'[w].counted = t.counted,
             tx'[w].credited = IF pc'[w] \in {"sold", "volume"} THEN t.events \ {e} ELSE t.events
      PROVE  CountedInOrder(w)'
  BY <1>l DEF InEffects, InTransaction, OfUpload
<1>5. CASE IncrementSales(w)
  <2>1. /\ pc[w] = "sold" /\ pc'[w] = "volume" /\ at' = at /\ known' = known
        /\ tx'[w] = t \/ tx'[w] = [t EXCEPT !.sold = @ \cup {e}]
    BY <1>5 DEF IncrementSales
  <2>2. /\ tx'[w].events = t.events /\ tx'[w].known = t.known
        /\ tx'[w].counted = t.counted /\ tx'[w].credited = t.credited
    BY <1>t, <2>1 DEF TxType
  <2> QED
    BY <2>1, <2>2, <1>l DEF InEffects, InTransaction, OfUpload
<1>6. CASE AddVolume(w)
  <2>1. e \in t.events
    BY <1>6 DEF AddVolume, InsertedInOrder, InEffects, InTransaction
  <2> QED
    BY <1>6, <2>1, <1>t, <1>l DEF AddVolume, InEffects, InTransaction, OfUpload, TxType
<1>7. CASE RecordSale(w) \/ EnqueueDelivery(w) \/ NotifySale(w)
  <2>1. /\ pc[w] \in {"sale", "delivery", "notice"} /\ pc'[w] \in {"delivery", "notice", "insert"}
        /\ (at'[w] = at[w] \/ pc'[w] = "insert") /\ known' = known
    BY <1>7 DEF RecordSale, EnqueueDelivery, NotifySale
  <2>2. /\ tx'[w].events = t.events /\ tx'[w].known = t.known
        /\ tx'[w].counted = t.counted /\ tx'[w].credited = t.credited
    <3>1. CASE RecordSale(w)
      <4>1. tx'[w] = t \/ tx'[w] = [t EXCEPT !.sales = @ \cup {e}]
        BY <3>1 DEF RecordSale
      <4> QED
        BY <1>t, <4>1 DEF TxType
    <3>2. CASE EnqueueDelivery(w)
      BY <3>2, <1>t, SMTT(30) DEF EnqueueDelivery, TxType
    <3>3. CASE NotifySale(w)
      BY <3>3, <1>t DEF NotifySale, TxType
    <3> QED
      BY <1>7, <3>1, <3>2, <3>3
  <2> QED
    BY <2>1, <2>2, <1>l DEF InEffects, InTransaction, OfUpload
<1>8. CASE InsertProducer(w)
  <2> DEFINE p == Log[e].producer
  <2>1. /\ pc[w] = "producer" /\ pc'[w] = "upload" /\ at' = at /\ known' = known
        /\ fresh'[w] = (p \notin known \cup t.known)
        /\ tx'[w] = [t EXCEPT !.known = @ \cup ({p} \ known)]
    BY <1>8 DEF InsertProducer, IsNewProducer
  <2>2. /\ tx'[w].events = t.events /\ tx'[w].credited = t.credited
        /\ tx'[w].known = t.known \cup ({p} \ known) /\ tx'[w].counted = t.counted
    BY <1>t, <2>1 DEF TxType
  <2>3. /\ t.known = Uploaders(t.events \ {e}) \ known /\ t.counted = t.known
        /\ t.credited = t.events \ {e}
    BY <2>1
  <2>4. e \in t.events /\ Log[e].kind = "uploaded"
    BY <2>1 DEF InsertedInOrder, InEffects, InTransaction, OfUpload
  <2>5. Uploaders(t.events) = Uploaders(t.events \ {e}) \cup {p}
    <3>1. t.events = (t.events \ {e}) \cup {e}
      BY <2>4
    <3>2. Uploaders((t.events \ {e}) \cup {e}) = Uploaders(t.events \ {e}) \cup Uploaders({e})
      BY UploadersOfUnion
    <3> QED
      BY <2>4, <3>1, <3>2, UploadersOfOne
  <2>6. tx'[w].known = Uploaders(t.events) \ known
    BY <2>2, <2>3, <2>5
  <2>7. tx'[w].counted = IF fresh'[w] THEN tx'[w].known \ {p} ELSE tx'[w].known
    <3>1. CASE p \in known \cup t.known
      <4>1. t.known \cup ({p} \ known) = t.known
        BY <3>1
      <4> QED
        BY <2>1, <2>2, <2>3, <3>1, <4>1
    <3>2. CASE p \notin known \cup t.known
      <4>1. (t.known \cup ({p} \ known)) \ {p} = t.known
        BY <3>2
      <4> QED
        BY <2>1, <2>2, <2>3, <3>2, <4>1
    <3> QED
      BY <3>1, <3>2
  <2>8. fresh'[w] => p \in tx'[w].known
    BY <2>1, <2>2
  <2> QED
    BY <2>1, <2>2, <2>3, <2>4, <2>6, <2>7, <2>8 DEF InEffects, InTransaction, OfUpload
<1>9. CASE AddUpload(w)
  <2> DEFINE p == Log[e].producer
  <2>1. /\ pc[w] = "upload" /\ pc'[w] = "announce" /\ at' = at /\ known' = known
        /\ tx'[w] = [t EXCEPT !.credited = @ \cup {e},
                              !.counted = @ \cup IF fresh[w] THEN {p} ELSE {}]
    BY <1>9 DEF AddUpload
  <2>2. /\ tx'[w].events = t.events /\ tx'[w].credited = t.credited \cup {e}
        /\ tx'[w].known = t.known
        /\ tx'[w].counted = t.counted \cup IF fresh[w] THEN {p} ELSE {}
    BY <1>t, <2>1 DEF TxType
  <2>3. e \in t.events
    BY <2>1 DEF InsertedInOrder, InEffects, InTransaction
  <2> QED
    BY <2>1, <2>2, <2>3 DEF InEffects, InTransaction, OfUpload
<1>10. CASE NotifyUpload(w)
  BY <1>10, <1>t DEF NotifyUpload, InEffects, InTransaction, OfUpload, TxType
<1>11. CASE Rollback(w)
  BY <1>11, <1>q DEF Rollback, Abandon, AfterError, InEffects, InTransaction
<1> QED
  BY <1>1, <1>2, <1>3, <1>4, <1>5, <1>6, <1>7, <1>8, <1>9, <1>10, <1>11 DEF Step

\* What COMMIT does, in terms of what the transaction inserted.
LEMMA CommitEffect ==
    ASSUME TypeOK, NEW w \in Workers, WorkerInv(w), Commit(w)
    PROVE  /\ pc[w] = "insert" /\ pc'[w] = "committed" /\ at[w] > stop[w]
           /\ cursor' = to[w] /\ last' = last /\ to' = to /\ origin' = origin
           /\ events' = events \cup tx[w].events
           /\ credited' = Plus(credited, tx[w].events)
           /\ known' = known \cup tx[w].known
           /\ counted' = Plus(counted, tx[w].known)
           /\ tx[w].known = Uploaders(tx[w].events) \ known
           /\ tx[w].events \cap events = {}
BY DEF TypeOK, BatchTyped, Commit, NewCursor, Goto, locals, WorkerInv, InsertedInOrder,
       CountedInOrder

\* A step of one worker does not disturb what is known of another.
LEMMA OthersKeepInvariant ==
    ASSUME TypeOK, Seeded, OneWriter, NEW w \in Workers, WorkerInv(w), Step(w),
           NEW v \in Workers, v # w, WorkerInv(v)
    PROVE  WorkerInv(v)'
<1>1. /\ pc'[v] = pc[v] /\ latest'[v] = latest[v] /\ last'[v] = last[v] /\ to'[v] = to[v]
      /\ at'[v] = at[v] /\ stop'[v] = stop[v] /\ fresh'[v] = fresh[v] /\ tx'[v] = tx[v]
  BY OthersStandStill
<1>2. tip' = tip
  BY DEF Step, PollTip, ReadCursor, ChooseStart, InitCursor, FetchWindow, EndCycle,
         SkipUndecodable, InsertEvent, IncrementSales, AddVolume, RecordSale,
         EnqueueDelivery, NotifySale, InsertProducer, AddUpload, NotifyUpload, Commit,
         NextWindow, Rollback, Abandon
<1>3. InRange(v)'
  BY <1>1 DEF WorkerInv, InRange
<1>4. origin' = origin \/ origin = NoRow
  <2>1. CASE InitCursor(w)
    BY <2>1 DEF InitCursor, Seeded
  <2>2. CASE Commit(w)
    BY <2>2, CommitEffect
  <2> QED
    BY <2>1, <2>2, QuietSteps
<1>5. OnCourse(v)'
  BY <1>1, <1>2, <1>4 DEF WorkerInv, OnCourse
<1>6. CASE ~Commit(w)
  <2>1. events' = events /\ known' = known
    BY <1>6, QuietSteps
  <2>2. Passed(v)' = Passed(v)
    BY <1>1 DEF Passed, Decodable
  <2>3. InsertedInOrder(v)'
    BY <1>1, <2>1, <2>2 DEF WorkerInv, InsertedInOrder
  <2>4. CountedInOrder(v)'
    BY <1>1, <2>1 DEF WorkerInv, CountedInOrder
  <2> QED
    BY <1>3, <1>5, <2>3, <2>4 DEF WorkerInv
<1>7. CASE Commit(w)
  <2>1. events' = events \cup tx[w].events /\ known' = known \cup tx[w].known
        /\ tx[w].known = Uploaders(tx[w].events) \ known
    BY <1>7, CommitEffect
  <2>2. Passed(v)' = Passed(v)
    BY <1>1 DEF Passed, Decodable
  <2>3. CASE tx[w].events = {}
    <3>1. events' = events /\ known' = known
      BY <2>1, <2>3, UploadersOfOne
    <3>2. InsertedInOrder(v)'
      BY <1>1, <2>2, <3>1 DEF WorkerInv, InsertedInOrder
    <3>3. CountedInOrder(v)'
      BY <1>1, <3>1 DEF WorkerInv, CountedInOrder
    <3> QED
      BY <1>3, <1>5, <3>2, <3>3 DEF WorkerInv
  \* Only one transaction has inserted anything, and it is w's.
  <2>4. CASE tx[w].events # {}
    <3>1. tx[v].events = {}
      BY <2>4 DEF OneWriter
    <3>2. pc[v] \notin InEffects
      BY <3>1 DEF WorkerInv, InsertedInOrder
    <3>3. InsertedInOrder(v)'
      BY <1>1, <2>1, <2>2, <3>1, <3>2 DEF WorkerInv, InsertedInOrder
    <3>4. tx[v].known = {}
      BY <3>1, UploadersOfOne DEF WorkerInv, CountedInOrder
    <3>5. CountedInOrder(v)'
      BY <1>1, <3>1, <3>2, <3>4, UploadersOfOne
      DEF WorkerInv, CountedInOrder, InEffects, InTransaction, OfUpload
    <3> QED
      BY <1>3, <1>5, <3>3, <3>5 DEF WorkerInv
  <2> QED
    BY <2>3, <2>4
<1> QED
  BY <1>6, <1>7

\* COMMIT leaves the counters of the worker itself empty.
LEMMA StepKeepsWorkerInv ==
    ASSUME TypeOK, Seeded, NEW w \in Workers, WorkerInv(w), Step(w)
    PROVE  WorkerInv(w)'
<1>1. InRange(w)' /\ OnCourse(w)'
  BY StepStaysInRange DEF WorkerInv
<1>2. InsertedInOrder(w)'
  BY StepInsertsInOrder DEF WorkerInv
<1>3. CountedInOrder(w)'
  <2>1. CASE Commit(w)
    <3>1. pc'[w] = "committed" /\ tx'[w] = EmptyTx
      BY <2>1 DEF Commit, Goto, TypeOK
    <3>2. Uploaders({}) = {}
      BY UploadersOfOne
    <3> QED
      BY <3>1, <3>2 DEF CountedInOrder, EmptyTx, InEffects, InTransaction, OfUpload
  <2> QED
    BY <2>1, StepCountsInOrder DEF WorkerInv
<1> QED
  BY <1>1, <1>2, <1>3 DEF WorkerInv

\* The cursor row and the seed are written together, and COMMIT moves it up from there.
LEMMA StepKeepsSeeded ==
    ASSUME TypeOK, Seeded, NEW w \in Workers, WorkerInv(w), Step(w)
    PROVE  Seeded'
<1>1. CASE InitCursor(w)
  BY <1>1 DEF InitCursor, Seeded, TypeOK, LocalsTyped, TablesTyped, Ledgers
<1>2. CASE Commit(w)
  <2>1. origin # NoRow /\ origin <= last[w] /\ last[w] < to[w] /\ to[w] \in Ledgers
        /\ cursor' = to[w] /\ origin' = origin /\ last[w] \in Ledgers
    BY <1>2, CommitEffect DEF WorkerInv, OnCourse, InTransaction, TypeOK, LocalsTyped
  <2> QED
    BY <2>1 DEF Seeded, TypeOK, TablesTyped, Ledgers
<1>3. CASE ~Commit(w) /\ ~InitCursor(w)
  BY <1>3, QuietSteps DEF Seeded
<1> QED
  BY <1>1, <1>2, <1>3

\* Nothing a cursor or a worker counts as scanned is missing after the step.
LEMMA StepKeepsCoverage ==
    ASSUME TypeOK, Seeded, \A v \in Workers : WorkerInv(v), ScannedLedgersApplied,
           NEW w \in Workers, Step(w)
    PROVE  ScannedLedgersApplied'
<1> USE DEF TypeOK, LocalsTyped
<1>1. \A v \in Workers : v # w => pc'[v] = pc[v] /\ last'[v] = last[v] /\ to'[v] = to[v]
  BY OthersStandStill
<1>2. WorkerInv(w)
  OBVIOUS
<1>3. CASE InitCursor(w)
  <2>1. CASE cursor = NoRow
    <3>1. /\ cursor' = last[w] /\ origin' = last[w] /\ events' = events
          /\ pc[w] = "init" /\ pc'[w] = "cursor" /\ last' = last
      BY <1>3, <2>1 DEF InitCursor, AfterInit, Goto, locals
    <3>2. Covered(cursor)'
      BY <3>1, EventsBelow DEF Covered, Events
    <3>3. \A v \in Workers :
              pc[v] \notin InTransaction \cup {"window", "committed"}
      BY <2>1 DEF Seeded, WorkerInv, OnCourse
    <3>4. \A v \in Workers :
              pc'[v] \notin InTransaction \cup {"window", "committed"}
      BY <1>1, <3>1, <3>3 DEF InTransaction
    <3> QED
      BY <3>2, <3>4 DEF ScannedLedgersApplied
  <2>2. CASE cursor # NoRow
    <3>1. /\ UNCHANGED <<cursor, origin, events, last, to>>
          /\ pc'[w] = "cursor"
      BY <1>3, <2>2 DEF InitCursor, AfterInit, Goto, locals
    <3> QED
      BY <1>1, <3>1 DEF ScannedLedgersApplied, Covered, InTransaction
  <2> QED
    BY <2>1, <2>2
<1>4. CASE Commit(w)
  <2>1. /\ pc[w] = "insert" /\ pc'[w] = "committed" /\ at[w] > stop[w]
        /\ cursor' = to[w] /\ last' = last /\ to' = to /\ origin' = origin
        /\ events' = events \cup tx[w].events
    BY <1>2, <1>4, CommitEffect
  <2>2. /\ UpTo[to[w]] <= stop[w] /\ Passed(w) \subseteq events \cup tx[w].events
        /\ Covered(last[w])
    BY <2>1, <1>2 DEF WorkerInv, OnCourse, InsertedInOrder, InTransaction,
                      ScannedLedgersApplied
  <2>3. /\ UpTo[to[w]] \in Nat /\ UpTo[last[w]] \in Nat /\ at[w] \in Nat /\ stop[w] \in Nat
        /\ \A e \in Events : e \in Nat
    BY EventsBelow DEF BatchTyped, Events
  <2>4. Covered(to[w])'
    <3> SUFFICES ASSUME NEW e \in Events, UpTo[origin] < e, e <= UpTo[to[w]], Decodable(e)
                 PROVE  e \in events'
      BY <2>1 DEF Covered, Decodable
    <3>1. CASE e <= UpTo[last[w]]
      BY <2>1, <2>2, <3>1 DEF Covered
    <3>2. CASE e > UpTo[last[w]]
      <4>1. e < at[w]
        BY <2>1, <2>2, <2>3
      <4> QED
        BY <2>1, <2>2, <3>2, <4>1 DEF Passed
    <3> QED
      BY <2>3, <3>1, <3>2
  <2>5. \A l : Covered(l) => Covered(l)'
    BY <2>1 DEF Covered, Decodable
  <2> QED
    BY <1>1, <2>1, <2>2, <2>4, <2>5 DEF ScannedLedgersApplied
<1>5. CASE ReadCursor(w)
  BY <1>1, <1>5 DEF ReadCursor, ScannedLedgersApplied, Covered, InTransaction, Goto, db
<1>6. CASE NextWindow(w)
  BY <1>1, <1>6
  DEF NextWindow, NewLast, ScannedLedgersApplied, Covered, InTransaction, Goto, db
<1>7. ASSUME ~InitCursor(w), ~Commit(w), last'[w] = last[w], pc'[w] # "committed",
             pc'[w] \in InTransaction \cup {"window"} => pc[w] \in InTransaction \cup {"window"}
      PROVE  ScannedLedgersApplied'
  <2>1. UNCHANGED <<cursor, origin, events>>
    BY <1>7, QuietSteps
  <2> QED
    BY <1>1, <1>7, <2>1 DEF ScannedLedgersApplied, Covered
<1>8. ASSUME ~InitCursor(w), ~Commit(w), pc'[w] \in {"idle", "init"}
      PROVE  ScannedLedgersApplied'
  <2>1. UNCHANGED <<cursor, origin, events>>
    BY <1>8, QuietSteps
  <2> QED
    BY <1>1, <1>8, <2>1 DEF ScannedLedgersApplied, Covered, InTransaction
<1>9. CASE ~InitCursor(w) /\ ~Commit(w) /\ ~ReadCursor(w) /\ ~NextWindow(w)
  <2>1. CASE PollTip(w) \/ FetchWindow(w) \/ SkipUndecodable(w) \/ InsertEvent(w)
    BY <1>7, <1>9, <2>1
    DEF PollTip, FetchWindow, SkipUndecodable, InsertEvent, Goto, InTransaction, locals
  <2>2. CASE IncrementSales(w) \/ AddVolume(w) \/ RecordSale(w) \/ EnqueueDelivery(w)
    BY <1>7, <1>9, <2>2
    DEF IncrementSales, AddVolume, RecordSale, EnqueueDelivery, Goto, InTransaction, locals
  <2>3. CASE NotifySale(w) \/ InsertProducer(w) \/ AddUpload(w) \/ NotifyUpload(w)
    BY <1>7, <1>9, <2>3
    DEF NotifySale, InsertProducer, AddUpload, NotifyUpload, Goto, InTransaction, locals
  <2>4. CASE ChooseStart(w) \/ EndCycle(w) \/ Rollback(w)
    BY <1>8, <1>9, <2>4 DEF ChooseStart, EndCycle, Rollback, Abandon, AfterError, Goto
  <2> QED
    BY <1>9, <2>1, <2>2, <2>3, <2>4 DEF Step
<1> QED
  BY <1>3, <1>4, <1>5, <1>6, <1>9

\* Only InsertEvent adds to what a transaction has inserted.
LEMMA OnlyInsertEventInserts ==
    ASSUME TypeOK, NEW w \in Workers, Step(w), ~InsertEvent(w)
    PROVE  tx'[w].events = tx[w].events \/ tx'[w].events = {}
<1> USE DEF TypeOK
<1>t. tx[w] \in TxType
  OBVIOUS
<1>1. CASE UNCHANGED tx
  BY <1>1
<1>2. CASE PollTip(w) \/ ReadCursor(w) \/ ChooseStart(w) \/ InitCursor(w) \/ FetchWindow(w)
  BY <1>2 DEF PollTip, ReadCursor, ChooseStart, InitCursor, FetchWindow
<1>3. CASE EndCycle(w) \/ SkipUndecodable(w) \/ NextWindow(w)
  BY <1>3 DEF EndCycle, SkipUndecodable, NextWindow
<1>4. CASE IncrementSales(w) \/ AddVolume(w) \/ RecordSale(w)
  BY <1>1, <1>4, <1>t DEF IncrementSales, AddVolume, RecordSale, TxType
<1>5. CASE EnqueueDelivery(w) \/ NotifySale(w)
  BY <1>5, <1>t DEF EnqueueDelivery, NotifySale, TxType
<1>6. CASE InsertProducer(w) \/ AddUpload(w) \/ NotifyUpload(w)
  BY <1>6, <1>t DEF InsertProducer, AddUpload, NotifyUpload, TxType
<1>7. CASE Commit(w) \/ Rollback(w)
  BY <1>7 DEF Commit, Rollback, Abandon, EmptyTx
<1> QED
  BY <1>2, <1>3, <1>4, <1>5, <1>6, <1>7 DEF Step

\* Every worker takes the events in the log's order from a ledger below which all of them
\* are applied, so it meets the first event an open transaction has inserted, and waits for
\* it, before it inserts any other.
LEMMA StepKeepsOneWriter ==
    ASSUME TypeOK, \A v \in Workers : WorkerInv(v), ScannedLedgersApplied, OneWriter,
           NEW w \in Workers, Step(w)
    PROVE  OneWriter'
<1>1. \A v \in Workers : v # w => tx'[v] = tx[v]
  BY OthersStandStill
<1>2. CASE ~InsertEvent(w)
  BY <1>1, <1>2, OnlyInsertEventInserts DEF OneWriter
<1>3. CASE InsertEvent(w) /\ AlreadyApplied(w, at[w])
  BY <1>3 DEF InsertEvent, OneWriter
<1>4. CASE InsertEvent(w) /\ ~AlreadyApplied(w, at[w])
  <2> DEFINE e == at[w]
  <2> SUFFICES ASSUME NEW v \in Workers, v # w, tx[v].events # {}
               PROVE  FALSE
    BY <1>1 DEF OneWriter
  <2>1. PICK f \in tx[v].events : TRUE
    OBVIOUS
  <2>2. /\ pc[w] = "insert" /\ Decodable(e) /\ e \in Events /\ e \notin events
        /\ e \notin tx[v].events
    BY <1>4, EventsBelow, BoundsAssumption
    DEF InsertEvent, AlreadyApplied, EventKeyHeld, Others, WorkerInv, InRange, InTransaction,
        Events, Ledgers, TypeOK, BatchTyped
  <2>3. pc[v] \in InTransaction
    BY DEF WorkerInv, InsertedInOrder, EmptyTx
  <2>4. /\ f \in Passed(v) /\ Passed(v) \subseteq events \cup tx[v].events /\ f \notin events
        /\ Passed(w) \subseteq events \cup tx[w].events
    BY <2>1, <2>2, <2>3 DEF WorkerInv, InsertedInOrder, InTransaction
  <2>5. tx[w].events = {}
    BY DEF OneWriter
  <2>6. /\ Covered(last[v]) /\ Covered(last[w]) /\ origin \in Ledgers
        /\ origin <= last[v] /\ origin <= last[w] /\ UpTo[last[w]] < e
    BY <2>2, <2>3
    DEF ScannedLedgersApplied, WorkerInv, OnCourse, InTransaction, TypeOK, TablesTyped
  <2>7. /\ UpTo[last[v]] \in Nat /\ UpTo[last[w]] \in Nat /\ UpTo[origin] \in Nat
        /\ UpTo[origin] <= UpTo[last[v]] /\ UpTo[origin] <= UpTo[last[w]]
        /\ f \in Events /\ f \in Nat /\ e \in Nat /\ at[v] \in Nat
        /\ Decodable(f) /\ UpTo[last[v]] < f /\ f <= at[v]
    BY <2>2, <2>4, <2>6, EventsBelow, LogAssumption
    DEF TypeOK, LocalsTyped, BatchTyped, Passed, Events
  <2>8. f # e
    BY <2>1, <2>2
  <2>9. CASE f < e
    <3>1. CASE f <= UpTo[last[w]]
      BY <2>4, <2>6, <2>7, <3>1 DEF Covered
    <3>2. CASE f > UpTo[last[w]]
      BY <2>4, <2>5, <2>7, <2>9, <3>2 DEF Passed
    <3> QED
      BY <2>7, <3>1, <3>2
  <2>10. CASE e < f
    <3>1. CASE e <= UpTo[last[v]]
      BY <2>2, <2>6, <2>7, <3>1 DEF Covered
    <3>2. CASE e > UpTo[last[v]]
      BY <2>2, <2>4, <2>7, <2>10, <3>2 DEF Passed
    <3> QED
      BY <2>7, <3>1, <3>2
  <2> QED
    BY <2>7, <2>8, <2>9, <2>10
<1> QED
  BY <1>2, <1>3, <1>4

\* COMMIT adds to the totals exactly what the tables did not hold.
LEMMA StepKeepsCounts ==
    ASSUME TypeOK, CountedOnce, NEW w \in Workers, WorkerInv(w), Step(w)
    PROVE  CountedOnce'
<1>1. CASE ~Commit(w)
  BY <1>1, QuietSteps DEF CountedOnce, Uploaders
<1>2. CASE Commit(w)
  <2> DEFINE T == tx[w].events
             P == tx[w].known
  <2>1. /\ events' = events \cup T /\ credited' = Plus(credited, T)
        /\ known' = known \cup P /\ counted' = Plus(counted, P)
        /\ P = Uploaders(T) \ known /\ T \cap events = {}
    BY <1>2, CommitEffect
  <2>2. DOMAIN credited = Events /\ DOMAIN counted = Producers
    BY DEF TypeOK, TablesTyped
  <2>3. \A e \in Events : credited'[e] = IF e \in events' THEN 1 ELSE 0
    BY <2>1, <2>2 DEF CountedOnce, Plus
  <2>4. known' = Uploaders(events')
    BY <2>1, UploadersOfUnion DEF CountedOnce
  <2>5. \A p \in Producers : counted'[p] = IF p \in known' THEN 1 ELSE 0
    BY <2>1, <2>2 DEF CountedOnce, Plus
  <2> QED
    BY <2>3, <2>4, <2>5 DEF CountedOnce, Uploaders
<1> QED
  BY <1>1, <1>2

\* A worker's step keeps the inductive invariant.
LEMMA StepKeepsInvariant ==
    ASSUME IndInv, NEW w \in Workers, Step(w)
    PROVE  IndInv'
<1>1. TypeOK'
  BY StepTyped DEF IndInv, WorkerInv
<1>2. Seeded'
  BY StepKeepsSeeded DEF IndInv
<1>3. ASSUME NEW v \in Workers
      PROVE  WorkerInv(v)'
  <2>1. CASE v = w
    BY <2>1, StepKeepsWorkerInv DEF IndInv
  <2>2. CASE v # w
    BY <2>2, OthersKeepInvariant DEF IndInv
  <2> QED
    BY <2>1, <2>2
<1>4. ScannedLedgersApplied'
  BY StepKeepsCoverage DEF IndInv
<1>5. CountedOnce'
  BY StepKeepsCounts DEF IndInv
<1>6. OneWriter'
  BY StepKeepsOneWriter DEF IndInv
<1> QED
  BY <1>1, <1>2, <1>3, <1>4, <1>5, <1>6 DEF IndInv

\* So does a crash, which only takes the worker and its transaction away.
LEMMA FailKeepsInvariant ==
    ASSUME IndInv, NEW w \in Workers, Fail(w)
    PROVE  IndInv'
<1> USE DEF IndInv, TypeOK, LocalsTyped, BatchTyped
<1>1. /\ pc' = [pc EXCEPT ![w] = "idle"] /\ tx' = [tx EXCEPT ![w] = EmptyTx]
      /\ latest' = [latest EXCEPT ![w] = 0] /\ last' = [last EXCEPT ![w] = 0]
      /\ to' = [to EXCEPT ![w] = 0] /\ at' = [at EXCEPT ![w] = 0]
      /\ stop' = [stop EXCEPT ![w] = 0] /\ fresh' = [fresh EXCEPT ![w] = FALSE]
      /\ broken' = [broken EXCEPT ![w] = FALSE] /\ failures' = failures + 1
      /\ UNCHANGED <<tip, db, rows>>
  BY DEF Fail, Abandon, AfterError, Goto, ForgetLocals, ForgetBatch
<1>2. TypeOK'
  <2>1. EmptyTx \in TxType
    BY DEF EmptyTx, TxType
  <2> QED
    BY <1>1, <2>1, BoundsAssumption DEF db, rows, TablesTyped, RowsTyped, Steps, Ledgers
<1>3. Seeded'
  BY <1>1 DEF db, Seeded
<1>4. ASSUME NEW v \in Workers
      PROVE  WorkerInv(v)'
  <2>1. CASE v = w
    <3>1. InRange(v)' /\ InsertedInOrder(v)'
      BY <1>1, <2>1 DEF InRange, InsertedInOrder, InTransaction, InEffects, EmptyTx
    <3>2. OnCourse(v)'
      BY <1>1, <2>1, BoundsAssumption DEF OnCourse, InTransaction, TablesTyped, Ledgers
    <3>3. CountedInOrder(v)'
      BY <1>1, <2>1, UploadersOfOne
      DEF CountedInOrder, InTransaction, InEffects, OfUpload, EmptyTx
    <3> QED
      BY <3>1, <3>2, <3>3 DEF WorkerInv
  <2>2. CASE v # w
    <3>1. /\ pc'[v] = pc[v] /\ latest'[v] = latest[v] /\ last'[v] = last[v]
          /\ to'[v] = to[v] /\ at'[v] = at[v] /\ stop'[v] = stop[v]
          /\ fresh'[v] = fresh[v] /\ tx'[v] = tx[v]
          /\ UNCHANGED <<tip, origin, events, known>>
      BY <1>1, <2>2 DEF db
    <3>2. Passed(v)' = Passed(v)
      BY <3>1 DEF Passed, Decodable
    <3>3. InRange(v)' /\ OnCourse(v)'
      BY <3>1 DEF WorkerInv, InRange, OnCourse
    <3>4. InsertedInOrder(v)'
      BY <3>1, <3>2 DEF WorkerInv, InsertedInOrder
    <3>5. CountedInOrder(v)'
      BY <3>1 DEF WorkerInv, CountedInOrder
    <3> QED
      BY <3>3, <3>4, <3>5 DEF WorkerInv
  <2> QED
    BY <2>1, <2>2
<1>5. ScannedLedgersApplied'
  BY <1>1 DEF db, ScannedLedgersApplied, Covered, InTransaction
<1>6. CountedOnce'
  BY <1>1 DEF db, CountedOnce, Uploaders
<1>7. OneWriter'
  BY <1>1 DEF OneWriter, EmptyTx
<1> QED
  BY <1>2, <1>3, <1>4, <1>5, <1>6, <1>7

\* What the rest of the world may do: a ledger closes, metadata is posted, or nothing.
LEMMA WorldKeepsInvariant ==
    ASSUME IndInv, TypeOK', tip' \in Ledgers, tip <= tip',
           UNCHANGED <<db, pc, locals, batch, tx>>
    PROVE  IndInv'
<1> USE DEF IndInv, db, locals, batch
<1>1. ASSUME NEW v \in Workers
      PROVE  WorkerInv(v)'
  <2>1. Passed(v)' = Passed(v)
    BY DEF Passed, Decodable
  <2>2. InRange(v)'
    BY DEF WorkerInv, InRange
  <2>3. InsertedInOrder(v)'
    BY <2>1 DEF WorkerInv, InsertedInOrder
  <2>4. CountedInOrder(v)'
    BY DEF WorkerInv, CountedInOrder, Uploaders
  <2>5. OnCourse(v)'
    BY DEF WorkerInv, OnCourse, TypeOK, TablesTyped, LocalsTyped, Ledgers
  <2> QED
    BY <2>2, <2>3, <2>4, <2>5 DEF WorkerInv
<1>2. Seeded' /\ OneWriter'
  BY DEF Seeded, OneWriter
<1>3. ScannedLedgersApplied'
  BY DEF ScannedLedgersApplied, Covered
<1>4. CountedOnce'
  BY DEF CountedOnce, Uploaders
<1> QED
  BY <1>1, <1>2, <1>3, <1>4

\* The invariant is inductive: it holds of the initial tables ...
LEMMA InitInvariant == Init => IndInv
<1> SUFFICES ASSUME Init
             PROVE  IndInv
  OBVIOUS
<1> USE DEF Init
<1>1. EmptyTx \in TxType
  BY DEF EmptyTx, TxType
<1>2. TypeOK
  BY <1>1, BoundsAssumption
  DEF TypeOK, TablesTyped, RowsTyped, LocalsTyped, BatchTyped, Steps, Ledgers
<1>3. ASSUME NEW w \in Workers
      PROVE  WorkerInv(w)
  <2>1. pc[w] = "idle" /\ tx[w] = EmptyTx /\ latest[w] = 0
    OBVIOUS
  <2>2. InRange(w) /\ OnCourse(w) /\ InsertedInOrder(w)
    BY <2>1 DEF InRange, OnCourse, InsertedInOrder, InTransaction, InEffects, EmptyTx
  <2>3. CountedInOrder(w)
    BY <2>1, UploadersOfOne
    DEF CountedInOrder, InTransaction, InEffects, OfUpload, EmptyTx
  <2> QED
    BY <2>2, <2>3 DEF WorkerInv
<1>4. Seeded /\ ScannedLedgersApplied /\ OneWriter
  BY DEF Seeded, ScannedLedgersApplied, OneWriter, InTransaction, EmptyTx
<1>5. CountedOnce
  BY UploadersOfOne DEF CountedOnce
<1> QED
  BY <1>2, <1>3, <1>4, <1>5 DEF IndInv

\* ... and every step keeps it.
LEMMA NextKeepsInvariant == IndInv /\ [Next]_vars => IndInv'
<1> SUFFICES ASSUME IndInv, [Next]_vars
             PROVE  IndInv'
  OBVIOUS
<1>1. CASE \E w \in Workers : Step(w)
  BY <1>1, StepKeepsInvariant
<1>2. CASE \E w \in Workers : Fail(w)
  BY <1>2, FailKeepsInvariant
<1>3. CASE CloseLedger
  <2>1. TypeOK' /\ tip' \in Ledgers /\ tip <= tip'
    BY <1>3, BoundsAssumption
    DEF CloseLedger, IndInv, TypeOK, TablesTyped, RowsTyped, LocalsTyped, BatchTyped, db,
        rows, locals, batch, Ledgers
  <2> QED
    BY <1>3, <2>1, WorldKeepsInvariant DEF CloseLedger
<1>4. ASSUME NEW s \in Samples, NEW p \in Producers, PostMetadata(s, p)
      PROVE  IndInv'
  <2>1. RowsTyped'
    BY <1>4, NamesAssumption DEF PostMetadata, IndInv, TypeOK, RowsTyped
  <2>2. TypeOK' /\ tip' \in Ledgers /\ tip <= tip'
    BY <1>4, <2>1
    DEF PostMetadata, IndInv, TypeOK, TablesTyped, LocalsTyped, BatchTyped, db, locals,
        batch, Ledgers
  <2> QED
    BY <1>4, <2>2, WorldKeepsInvariant DEF PostMetadata
<1>5. CASE UNCHANGED vars
  <2>1. TypeOK' /\ tip' \in Ledgers /\ tip <= tip'
    BY <1>5
    DEF vars, IndInv, TypeOK, TablesTyped, RowsTyped, LocalsTyped, BatchTyped, db, rows,
        locals, batch, Ledgers
  <2> QED
    BY <1>5, <2>1, WorldKeepsInvariant DEF vars
<1> QED
  BY <1>1, <1>2, <1>3, <1>4, <1>5 DEF Next

\* Type correctness: whatever the interleaving of workers, crashes and posts of metadata,
\* every table, local and open transaction keeps its type.
THEOREM TypeCorrectness == Spec => []TypeOK
<1>1. IndInv => TypeOK
  BY DEF IndInv
<1> QED
  BY <1>1, InitInvariant, NextKeepsInvariant, PTL DEF Spec

\* The cursor means what ensureCursor says, for any number of workers and crashes: nothing
\* at or below it, or below the ledger any worker goes on from, is missing.
THEOREM NothingSkipped == Spec => []ScannedLedgersApplied
<1>1. IndInv => ScannedLedgersApplied
  BY DEF IndInv
<1> QED
  BY <1>1, InitInvariant, NextKeepsInvariant, PTL DEF Spec

\* The totals of platform_stats hold every applied event and every producer exactly once.
THEOREM NothingDoubled == Spec => []CountedOnce
<1>1. IndInv => CountedOnce
  BY DEF IndInv
<1> QED
  BY <1>1, InitInvariant, NextKeepsInvariant, PTL DEF Spec

\* At most one open transaction has inserted an event, whatever the workers' windows: one
\* that overlaps it waits at its first new event.
THEOREM WritersExclude == Spec => []OneWriter
<1>1. IndInv => OneWriter
  BY DEF IndInv
<1> QED
  BY <1>1, InitInvariant, NextKeepsInvariant, PTL DEF Spec

(***************************************************************************)
(* The indexer implements IndexedLog.                                      *)
(***************************************************************************)

\* The applied events have no hole: with an event, every earlier one from the seed on.
AppliedInOrder ==
    \A e \in events :
        /\ origin # NoRow /\ UpTo[origin] < e
        /\ \A f \in Events : UpTo[origin] < f /\ f < e /\ Decodable(f) => f \in events

\* w's transaction speaks of the events it has inserted, and has announced each upload
\* among them but for the one it is at.
MessagesInOrder(w) ==
    /\ \A m \in tx[w].published : m[1] \in tx[w].events
    /\ \A d \in tx[w].deliveries : d[1] \in tx[w].events /\ Log[d[1]].kind = "licensed"
    /\ \A e \in tx[w].events :
        Log[e].kind = "uploaded" =>
            \/ {e} \X Announced \subseteq tx[w].published
            \/ e = at[w] /\ pc[w] \in OfUpload

BatchInv == AppliedInOrder /\ \A w \in Workers : MessagesInOrder(w)

\* Only Commit sends messages and deliveries.
LEMMA QuietMessages ==
    ASSUME NEW w \in Workers, Step(w), ~Commit(w)
    PROVE  UNCHANGED <<published, deliveries>>
<1> USE DEF db
<1>1. CASE PollTip(w) \/ ReadCursor(w) \/ ChooseStart(w) \/ InitCursor(w) \/ FetchWindow(w)
  BY <1>1 DEF PollTip, ReadCursor, ChooseStart, InitCursor, FetchWindow
<1>2. CASE EndCycle(w) \/ SkipUndecodable(w) \/ InsertEvent(w)
  BY <1>2 DEF EndCycle, SkipUndecodable, InsertEvent
<1>3. CASE IncrementSales(w) \/ AddVolume(w) \/ RecordSale(w)
  BY <1>3 DEF IncrementSales, AddVolume, RecordSale
<1>4. CASE EnqueueDelivery(w) \/ NotifySale(w)
  BY <1>4 DEF EnqueueDelivery, NotifySale
<1>5. CASE InsertProducer(w) \/ AddUpload(w) \/ NotifyUpload(w)
  BY <1>5 DEF InsertProducer, AddUpload, NotifyUpload
<1>6. CASE NextWindow(w) \/ Rollback(w)
  BY <1>6 DEF NextWindow, Rollback, Abandon
<1> QED
  BY <1>1, <1>2, <1>3, <1>4, <1>5, <1>6 DEF Step

LEMMA EmptyTxSaysNothing ==
    ASSUME NEW w \in Workers, tx'[w] = EmptyTx
    PROVE  MessagesInOrder(w)'
BY DEF MessagesInOrder, EmptyTx

\* Whatever a transaction says, it says of the event it is at, which it has inserted.
LEMMA StepKeepsMessages ==
    ASSUME TypeOK, NEW w \in Workers, WorkerInv(w), MessagesInOrder(w), Step(w)
    PROVE  MessagesInOrder(w)'
<1> USE DEF TypeOK, BatchTyped, db, rows, locals, batch, Goto
<1> DEFINE t == tx[w]
           e == at[w]
<1>t. t \in TxType /\ \A f \in t.events : f \in Events
  BY DEF TxType
<1>e. pc[w] \in InEffects => e \in t.events
  BY DEF WorkerInv, InsertedInOrder
<1>k. pc[w] \in InEffects \ OfUpload => Log[e].kind = "licensed"
  BY DEF WorkerInv, CountedInOrder
<1>1. ASSUME UNCHANGED tx, pc[w] \notin OfUpload
      PROVE  MessagesInOrder(w)'
  BY <1>1 DEF MessagesInOrder
<1>2. CASE PollTip(w) \/ ReadCursor(w) \/ ChooseStart(w) \/ InitCursor(w) \/ FetchWindow(w)
  BY <1>1, <1>2 DEF PollTip, ReadCursor, ChooseStart, InitCursor, FetchWindow, OfUpload
<1>3. CASE EndCycle(w) \/ SkipUndecodable(w) \/ NextWindow(w)
  BY <1>1, <1>3 DEF EndCycle, SkipUndecodable, NextWindow, OfUpload
<1>4. CASE InsertEvent(w)
  <2>1. CASE AlreadyApplied(w, e)
    BY <1>1, <1>4, <2>1 DEF InsertEvent, OfUpload
  <2>2. CASE ~AlreadyApplied(w, e)
    <3>1. /\ tx'[w].events = t.events \cup {e} /\ tx'[w].published = t.published
          /\ tx'[w].deliveries = t.deliveries /\ at' = at /\ pc[w] = "insert"
      BY <1>4, <1>t, <2>2 DEF InsertEvent, TxType
    <3>2. Log[e].kind = "uploaded" => pc'[w] = "producer"
      BY <1>4, <2>2 DEF InsertEvent
    <3> QED
      BY <3>1, <3>2 DEF MessagesInOrder, OfUpload
  <2> QED
    BY <2>1, <2>2
\* The steps of a licence before the last, and those of an upload before the last.
<1>5. ASSUME tx'[w].events = t.events, tx'[w].published = t.published, at' = at,
             tx'[w].deliveries = t.deliveries, pc[w] \in OfUpload => pc'[w] \in OfUpload
      PROVE  MessagesInOrder(w)'
  BY <1>5 DEF MessagesInOrder
<1>6. CASE IncrementSales(w) \/ AddVolume(w) \/ RecordSale(w) \/ InsertProducer(w) \/ AddUpload(w)
  <2>1. /\ at' = at /\ tx'[w].events = t.events
        /\ tx'[w].published = t.published /\ tx'[w].deliveries = t.deliveries
    <3>1. CASE IncrementSales(w)
      BY <1>t, <3>1 DEF IncrementSales, TxType
    <3>2. CASE AddVolume(w)
      BY <1>t, <3>2 DEF AddVolume, TxType
    <3>3. CASE RecordSale(w)
      <4>1. tx'[w] = t \/ tx'[w] = [t EXCEPT !.sales = @ \cup {e}]
        BY <3>3 DEF RecordSale
      <4> QED
        BY <1>t, <3>3, <4>1 DEF RecordSale, TxType
    <3>4. CASE InsertProducer(w) \/ AddUpload(w)
      BY <1>t, <3>4 DEF InsertProducer, AddUpload, TxType
    <3> QED
      BY <1>6, <3>1, <3>2, <3>3, <3>4
  <2>2. pc[w] \in OfUpload => pc'[w] \in OfUpload
    BY <1>6 DEF IncrementSales, AddVolume, RecordSale, InsertProducer, AddUpload, OfUpload
  <2> QED
    BY <1>5, <2>1, <2>2
<1>7. CASE EnqueueDelivery(w)
  <2>1. /\ pc[w] = "delivery" /\ at' = at
        /\ tx' = tx \/ tx'[w] = [t EXCEPT !.deliveries = @ \cup ({e} \X UploadersById(Log[e].sample))]
    BY <1>7 DEF EnqueueDelivery
  <2>2. /\ tx'[w].events = t.events /\ tx'[w].published = t.published
        /\ \A d \in tx'[w].deliveries : d \in t.deliveries \/ d[1] = e
    BY <1>t, <2>1 DEF TxType
  <2>3. e \in t.events /\ Log[e].kind = "licensed"
    BY <2>1, <1>e, <1>k DEF InEffects, InTransaction, OfUpload
  <2> QED
    BY <2>1, <2>2, <2>3 DEF MessagesInOrder, OfUpload
<1>8. CASE NotifySale(w)
  <2>1. PICK channels :
            /\ pc[w] = "notice" /\ tx'[w] = [t EXCEPT !.published = @ \cup ({e} \X channels)]
    BY <1>8 DEF NotifySale
  <2>2. /\ tx'[w].events = t.events /\ tx'[w].deliveries = t.deliveries
        /\ t.published \subseteq tx'[w].published
        /\ \A m \in tx'[w].published : m \in t.published \/ m[1] = e
    BY <1>t, <2>1 DEF TxType
  <2>3. e \in t.events
    BY <2>1, <1>e DEF InEffects, InTransaction
  <2> QED
    BY <2>1, <2>2, <2>3 DEF MessagesInOrder, OfUpload
<1>9. CASE NotifyUpload(w)
  <2>1. /\ pc[w] = "announce" /\ pc'[w] = "insert"
        /\ tx'[w].events = t.events /\ tx'[w].deliveries = t.deliveries
        /\ tx'[w].published = t.published \cup ({e} \X Announced)
    BY <1>9, <1>t DEF NotifyUpload, TxType
  <2>2. e \in t.events
    BY <2>1, <1>e DEF InEffects, InTransaction
  <2> QED
    BY <2>1, <2>2 DEF MessagesInOrder
<1>10. CASE Commit(w) \/ Rollback(w)
  BY <1>10, EmptyTxSaysNothing DEF Commit, Rollback, Abandon
<1> QED
  BY <1>2, <1>3, <1>4, <1>6, <1>7, <1>8, <1>9, <1>10 DEF Step

\* A batch continues the applied events where they stop, or lies within them.
LEMMA CommitKeepsOrder ==
    ASSUME IndInv, AppliedInOrder, NEW w \in Workers, Commit(w)
    PROVE  AppliedInOrder'
<1> USE DEF IndInv
<1> DEFINE T == tx[w].events
<1>1. /\ pc[w] = "insert" /\ origin' = origin /\ events' = events \cup T
  BY CommitEffect
<1>2. /\ T \subseteq Passed(w) /\ Passed(w) \subseteq events \cup T /\ Covered(last[w])
      /\ origin # NoRow /\ origin <= last[w]
  BY <1>1 DEF WorkerInv, InsertedInOrder, OnCourse, ScannedLedgersApplied, InTransaction
<1>3. origin \in Ledgers /\ last[w] \in Ledgers /\ at[w] \in Nat /\ \A e \in Events : e \in Nat
  BY <1>2 DEF TypeOK, TablesTyped, LocalsTyped, BatchTyped, Events
<1>4. /\ UpTo[origin] \in Nat /\ UpTo[last[w]] \in Nat /\ UpTo[origin] <= UpTo[last[w]]
  BY <1>2, <1>3, EventsBelow, LogAssumption
<1>5. ASSUME NEW e \in T
      PROVE  /\ UpTo[origin] < e
             /\ \A f \in Events : UpTo[origin] < f /\ f < e /\ Decodable(f) => f \in events \cup T
  <2>1. e \in Events /\ UpTo[last[w]] < e /\ e <= at[w]
    BY <1>2, <1>3 DEF Passed
  <2>2. ASSUME NEW f \in Events, UpTo[origin] < f, f < e, Decodable(f)
        PROVE  f \in events \cup T
    <3>1. CASE f <= UpTo[last[w]]
      BY <1>2, <2>2, <3>1 DEF Covered
    <3>2. CASE UpTo[last[w]] < f
      BY <1>2, <1>3, <2>1, <2>2, <3>2 DEF Passed
    <3> QED
      BY <1>3, <1>4, <3>1, <3>2
  <2> QED
    BY <1>3, <1>4, <2>1, <2>2
<1> QED
  BY <1>1, <1>2, <1>5 DEF AppliedInOrder, Decodable

LEMMA NextKeepsBatches ==
    ASSUME IndInv, BatchInv, [Next]_vars
    PROVE  BatchInv'
<1>1. ASSUME NEW w \in Workers, Step(w)
      PROVE  BatchInv'
  <2>1. MessagesInOrder(w)'
    BY <1>1, StepKeepsMessages DEF IndInv, BatchInv
  <2>2. ASSUME NEW v \in Workers, v # w
        PROVE  MessagesInOrder(v)'
    <3>1. pc'[v] = pc[v] /\ at'[v] = at[v] /\ tx'[v] = tx[v]
      BY <1>1, <2>2, OthersStandStill DEF IndInv
    <3> QED
      BY <3>1 DEF BatchInv, MessagesInOrder
  <2>3. AppliedInOrder'
    <3>1. CASE Commit(w)
      BY <3>1, CommitKeepsOrder DEF BatchInv
    <3>2. CASE InitCursor(w)
      <4>1. events' = events
        BY <1>1, <3>2, QuietSteps DEF InitCursor
      <4>2. origin # NoRow => origin' = origin
        BY <3>2 DEF InitCursor, IndInv, Seeded
      <4> QED
        BY <4>1, <4>2 DEF BatchInv, AppliedInOrder, Decodable
    <3>3. CASE ~Commit(w) /\ ~InitCursor(w)
      BY <1>1, <3>3, QuietSteps DEF BatchInv, AppliedInOrder, Decodable
    <3> QED
      BY <3>1, <3>2, <3>3
  <2> QED
    BY <2>1, <2>2, <2>3 DEF BatchInv
<1>2. ASSUME NEW w \in Workers, Fail(w)
      PROVE  BatchInv'
  <2>1. /\ tx' = [tx EXCEPT ![w] = EmptyTx] /\ UNCHANGED <<events, origin>>
        /\ \A v \in Workers : v # w => pc'[v] = pc[v] /\ at'[v] = at[v]
    BY <1>2 DEF Fail, Abandon, AfterError, Goto, ForgetBatch, db, IndInv, TypeOK, BatchTyped
  <2>2. MessagesInOrder(w)'
    BY <2>1, EmptyTxSaysNothing DEF IndInv, TypeOK
  <2>3. \A v \in Workers : v # w => MessagesInOrder(v)'
    BY <2>1 DEF BatchInv, MessagesInOrder, IndInv, TypeOK
  <2> QED
    BY <2>1, <2>2, <2>3 DEF BatchInv, AppliedInOrder, Decodable
<1>3. CASE UNCHANGED <<events, origin, tx, pc, at>>
  BY <1>3 DEF BatchInv, AppliedInOrder, Decodable, MessagesInOrder
<1>4. CASE CloseLedger \/ UNCHANGED vars \/ \E s \in Samples, p \in Producers : PostMetadata(s, p)
  BY <1>3, <1>4 DEF CloseLedger, PostMetadata, vars, db, batch
<1> QED
  BY <1>1, <1>2, <1>4 DEF Next

\* What a worker's step is to the index: the seed, a batch, or nothing.
LEMMA StepRefines ==
    ASSUME IndInv, IndInv', BatchInv, BatchInv', NEW w \in Workers, Step(w)
    PROVE  [Index!Next]_(Index!vars)
<1> USE DEF IndInv, TypeOK, TablesTyped, LocalsTyped
<1>1. CASE InitCursor(w)
  <2>1. CASE cursor = NoRow
    <3>1. /\ cursor' = last[w] /\ origin' = last[w]
          /\ UNCHANGED <<events, credited, published, deliveries>>
      BY <1>1, <2>1 DEF InitCursor
    <3> QED
      BY <2>1, <3>1 DEF Index!Next, Index!Seed, Index!NoRow, Index!Ledgers, Ledgers
  <2>2. CASE cursor # NoRow
    BY <1>1, <2>2 DEF InitCursor, Index!vars
  <2> QED
    BY <2>1, <2>2
<1>2. CASE Commit(w)
  <2> DEFINE T == tx[w].events
  <2>1. /\ cursor' = to[w] /\ origin' = origin /\ events' = events \cup T
        /\ credited' = Plus(credited, T) /\ T \cap events = {} /\ pc[w] = "insert"
        /\ published' = published \cup tx[w].published
        /\ deliveries' = deliveries \cup tx[w].deliveries
    BY <1>2, CommitEffect DEF Commit
  <2>2. cursor # NoRow /\ cursor' # NoRow /\ to[w] \in Ledgers
    BY <2>1 DEF Seeded, WorkerInv, OnCourse, InTransaction, Ledgers
  <2>3. events' \ events = T /\ DOMAIN credited = Events /\ events' \subseteq Events
    BY <2>1
  <2>4. credited' = [e \in Events |-> credited[e] + IF e \in events' \ events THEN 1 ELSE 0]
    BY <2>1, <2>3 DEF Plus
  <2>5. Index!Complete(cursor', events')
    BY <2>1, <2>2
    DEF ScannedLedgersApplied, Covered, Decodable, Index!Complete, Index!Known, Index!Events, Events
  <2>6. Index!InOrder(events')
    BY <2>1 DEF BatchInv, AppliedInOrder, Decodable, Index!InOrder, Index!Known, Index!Events, Events
  <2>7. Index!Tell(events' \ events)
    BY <2>1, <2>3 DEF BatchInv, MessagesInOrder, Index!Tell, OfUpload
  <2> QED
    BY <2>1, <2>2, <2>3, <2>4, <2>5, <2>6, <2>7
    DEF Index!Next, Index!Absorb, Index!NoRow, Index!Ledgers, Index!Events, Ledgers, Events
<1>3. CASE ~InitCursor(w) /\ ~Commit(w)
  BY <1>3, QuietSteps, QuietMessages DEF Index!vars
<1> QED
  BY <1>1, <1>2, <1>3

\* The indexer as a whole, statements, locks, crashes and all, is an index of the log that
\* grows by whole batches and in the log's order, counts each event once, never marks what
\* it does not hold, and sends each batch's messages with it.
THEOREM IndexerImplementsIndexedLog == Spec => ImplementsIndexedLog
<1>1. Init => Index!Init /\ BatchInv
  BY DEF Init, Index!Init, Index!NoRow, Index!Events, Events, BatchInv, AppliedInOrder,
         MessagesInOrder, EmptyTx
<1>2. IndInv /\ BatchInv /\ [Next]_vars => BatchInv'
  BY NextKeepsBatches
<1>3. IndInv /\ IndInv' /\ BatchInv /\ BatchInv' /\ [Next]_vars => [Index!Next]_(Index!vars)
  <2> SUFFICES ASSUME IndInv, IndInv', BatchInv, BatchInv', [Next]_vars
               PROVE  [Index!Next]_(Index!vars)
    OBVIOUS
  <2>1. CASE \E w \in Workers : Step(w)
    BY <2>1, StepRefines
  <2>2. CASE \E w \in Workers : Fail(w)
    BY <2>2 DEF Fail, Abandon, Index!vars, db
  <2>3. CASE CloseLedger \/ \E s \in Samples, p \in Producers : PostMetadata(s, p)
    BY <2>3 DEF CloseLedger, PostMetadata, Index!vars, db
  <2>4. CASE UNCHANGED vars
    BY <2>4 DEF vars, Index!vars, db
  <2> QED
    BY <2>1, <2>2, <2>3, <2>4 DEF Next
<1> QED
  BY <1>1, <1>2, <1>3, InitInvariant, NextKeepsInvariant, PTL
  DEF Spec, Index!Spec, ImplementsIndexedLog

\* What an IndexedLog keeps true: there is nothing before the seed, and never a hole.
WithoutHoles ==
    /\ events \subseteq Index!Events /\ Index!InOrder(events)
    /\ cursor = Index!NoRow => events = {}

LEMMA StaysWithoutHoles ==
    ASSUME WithoutHoles, [Index!Next]_(Index!vars)
    PROVE  WithoutHoles'
<1>1. CASE Index!Seed
  <2>1. events' = events /\ events = {} /\ cursor' \in Index!Ledgers
    BY <1>1 DEF Index!Seed, WithoutHoles
  <2> QED
    BY <2>1 DEF WithoutHoles, Index!InOrder
<1>2. CASE Index!Absorb
  <2>1. /\ events' \subseteq Index!Events /\ cursor' \in Index!Ledgers
        /\ Index!InOrder(events') /\ origin' = origin
    BY <1>2 DEF Index!Absorb
  <2>2. cursor' # Index!NoRow
    BY <2>1, BoundsAssumption DEF Index!Ledgers, Index!NoRow
  <2> QED
    BY <2>1, <2>2 DEF WithoutHoles, Index!InOrder
<1>3. CASE UNCHANGED Index!vars
  BY <1>3 DEF Index!vars, WithoutHoles, Index!InOrder
<1> QED
  BY <1>1, <1>2, <1>3 DEF Index!Next

\* An index without holes can only grow behind its last event.
LEMMA GrowsBehindTheLast ==
    ASSUME WithoutHoles, Index!Absorb,
           NEW e \in Index!Known \cap (events' \ events), NEW f \in events
    PROVE  f < e
<1>1. Index!InOrder(events') /\ origin' = origin
  BY DEF Index!Absorb
<1>2. e \in Index!Known /\ e \notin events /\ UpTo[origin] < e
  BY <1>1 DEF Index!InOrder
<1>3. ~(e < f)
  BY <1>2 DEF WithoutHoles, Index!InOrder
<1>4. e \in Nat /\ f \in Nat /\ e # f
  BY <1>2, LogAssumption, BoundsAssumption DEF WithoutHoles, Index!Known, Index!Events
<1> QED
  BY <1>3, <1>4

\* Reconciliation and the webhook dispatcher read what the indexer writes.  Sales reach
\* contract_events in the order of the chain, whichever worker brings them and however
\* windows overlap, and no delivery or message is sent about an event that was there before.
THEOREM IndexGrowsAtTheEnd == Spec => Index!GrowsAtTheEnd
<1> DEFINE Grows ==
        /\ \A e \in Index!Known \cap (events' \ events), f \in events : f < e
        /\ \A m \in (published' \ published) \cup (deliveries' \ deliveries) :
               m[1] \in events' \ events
<1>1. Index!Init => WithoutHoles
  BY DEF Index!Init, WithoutHoles, Index!InOrder
<1>2. WithoutHoles /\ [Index!Next]_(Index!vars) => WithoutHoles'
  BY StaysWithoutHoles
<1>3. WithoutHoles /\ [Index!Next]_(Index!vars) => [Grows]_(Index!vars)
  <2> SUFFICES ASSUME WithoutHoles, [Index!Next]_(Index!vars)
               PROVE  Grows \/ UNCHANGED Index!vars
    OBVIOUS
  <2>1. CASE Index!Absorb
    BY <2>1, GrowsBehindTheLast DEF Index!Absorb, Index!Tell
  <2>2. CASE Index!Seed
    BY <2>2 DEF Index!Seed
  <2> QED
    BY <2>1, <2>2 DEF Index!Next
<1>4. Index!Spec => Index!GrowsAtTheEnd
  <2>1. [][Grows]_(Index!vars) => Index!GrowsAtTheEnd
    BY DEF Index!GrowsAtTheEnd
  <2> HIDE DEF Grows
  <2> QED
    BY <1>1, <1>2, <1>3, <2>1, PTL DEF Index!Spec
<1> QED
  BY <1>4, IndexerImplementsIndexedLog, PTL DEF ImplementsIndexedLog

(***************************************************************************)
(* total_sales and the sales table.                                        *)
(***************************************************************************)

SameTx(e, f) == Log[e].tx = Log[f].tx

\* What w's transaction has counted and recorded of its sales: a licence it has counted has
\* its transaction in the sales table, or is the one it is at and about to be recorded, for
\* the metadata that was there when it was counted still is.
SalesInOrder(w) ==
    /\ tx[w].sold \subseteq tx[w].events /\ tx[w].sales \subseteq tx[w].events
    /\ \A e \in tx[w].sales : Log[e].kind = "licensed"
    /\ \A e \in tx[w].sold :
        \/ \E f \in sales \cup tx[w].sales : SameTx(f, e)
        \/ e = at[w] /\ pc[w] \in {"volume", "sale"} /\ owner[Log[e].sample] # Nobody

SalesInv == SalesAgree /\ \A w \in Workers : SalesInOrder(w)

\* No sale is involved.
LEMMA NoSaleHere ==
    ASSUME NEW w \in Workers, SalesInOrder(w), pc[w] \notin {"volume", "sale"},
           tx'[w].sold = tx[w].sold, tx'[w].sales = tx[w].sales, UNCHANGED sales,
           tx[w].events \subseteq tx'[w].events
    PROVE  SalesInOrder(w)'
BY DEF SalesInOrder, SameTx

\* Steps of a worker that COMMIT nothing.
LEMMA SalesOfOwnStep ==
    ASSUME TypeOK, NEW w \in Workers, WorkerInv(w), SalesInOrder(w), SalesAgree, Step(w), ~Commit(w)
    PROVE  SalesInOrder(w)' /\ UNCHANGED <<sales, sold, owner>>
<1> USE DEF TypeOK, db, rows, Goto
<1>t. tx[w] \in TxType
  OBVIOUS
<1>1. CASE UNCHANGED <<tx, sales, sold, owner>> /\ pc[w] \notin {"volume", "sale"}
  BY <1>1, NoSaleHere
<1>2. CASE PollTip(w) \/ ReadCursor(w) \/ ChooseStart(w) \/ InitCursor(w) \/ FetchWindow(w)
  BY <1>1, <1>2 DEF PollTip, ReadCursor, ChooseStart, InitCursor, FetchWindow
<1>3. CASE EndCycle(w) \/ SkipUndecodable(w) \/ NextWindow(w)
  BY <1>1, <1>3 DEF EndCycle, SkipUndecodable, NextWindow
<1>4. CASE InsertEvent(w) \/ EnqueueDelivery(w) \/ NotifySale(w) \/ InsertProducer(w)
           \/ AddUpload(w) \/ NotifyUpload(w)
  <2>1. /\ tx'[w].sold = tx[w].sold /\ tx'[w].sales = tx[w].sales
        /\ tx[w].events \subseteq tx'[w].events
    BY <1>4, <1>t
    DEF InsertEvent, EnqueueDelivery, NotifySale, InsertProducer, AddUpload, NotifyUpload, TxType
  <2>2. UNCHANGED <<sales, sold, owner>> /\ pc[w] \notin {"volume", "sale"}
    BY <1>4
    DEF InsertEvent, EnqueueDelivery, NotifySale, InsertProducer, AddUpload, NotifyUpload
  <2> QED
    BY <2>1, <2>2, NoSaleHere
<1>5. CASE IncrementSales(w)
  <2>1. /\ pc[w] = "sold" /\ pc'[w] = "volume" /\ at' = at
        /\ UNCHANGED <<sales, sold, owner>>
    BY <1>5 DEF IncrementSales, batch
  <2>2. at[w] \in tx[w].events
    BY <2>1 DEF WorkerInv, InsertedInOrder, InEffects, InTransaction
  <2>3. CASE owner[Log[at[w]].sample] = Nobody
    <3>1. tx' = tx
      BY <1>5, <2>3 DEF IncrementSales
    <3> QED
      BY <2>1, <3>1, NoSaleHere
  <2>4. CASE owner[Log[at[w]].sample] # Nobody
    <3>1. /\ tx'[w].sold = tx[w].sold \cup {at[w]} /\ tx'[w].sales = tx[w].sales
          /\ tx'[w].events = tx[w].events
      BY <1>5, <1>t, <2>4 DEF IncrementSales, TxType
    <3> QED
      BY <2>1, <2>2, <2>4, <3>1 DEF SalesInOrder, SameTx
  <2> QED
    BY <2>3, <2>4
<1>6. CASE AddVolume(w)
  <2>1. /\ pc[w] = "volume" /\ pc'[w] = "sale" /\ at' = at
        /\ UNCHANGED <<sales, sold, owner>>
        /\ tx'[w].sold = tx[w].sold /\ tx'[w].sales = tx[w].sales
        /\ tx'[w].events = tx[w].events
    BY <1>6, <1>t DEF AddVolume, batch, TxType
  <2> QED
    BY <2>1 DEF SalesInOrder, SameTx
<1>7. CASE RecordSale(w)
  <2> DEFINE e == at[w]
             taken == \E f \in sales \cup tx[w].sales : SameTx(f, e)
  <2>1. /\ pc[w] = "sale" /\ pc'[w] = "delivery" /\ at' = at
        /\ UNCHANGED <<sales, sold, owner>>
    BY <1>7 DEF RecordSale, batch
  <2>2. e \in tx[w].events /\ Log[e].kind = "licensed"
    BY <2>1
    DEF WorkerInv, InsertedInOrder, CountedInOrder, InEffects, InTransaction, OfUpload
  <2>3. CASE owner[Log[e].sample] = Nobody
    <3>1. tx' = tx
      BY <1>7, <2>3 DEF RecordSale, HasRow
    <3> QED
      BY <2>1, <2>3, <3>1 DEF SalesInOrder, SameTx
  <2>4. CASE owner[Log[e].sample] # Nobody /\ taken
    <3>1. tx' = tx
      BY <1>7, <2>4 DEF RecordSale, HasRow, SameTx
    <3> QED
      BY <2>1, <2>4, <3>1 DEF SalesInOrder, SameTx
  <2>5. CASE owner[Log[e].sample] # Nobody /\ ~taken
    <3>1. tx' = [tx EXCEPT ![w].sales = @ \cup {e}]
      BY <1>7, <2>5 DEF RecordSale, HasRow, SameTx
    <3>2. /\ tx'[w].sales = tx[w].sales \cup {e} /\ tx'[w].sold = tx[w].sold
          /\ tx'[w].events = tx[w].events
      BY <1>t, <3>1 DEF TxType
    <3> QED
      BY <2>1, <2>2, <2>5, <3>2 DEF SalesInOrder, SameTx
  <2> QED
    BY <2>3, <2>4, <2>5
<1>8. CASE Rollback(w)
  <2>1. tx'[w] = EmptyTx /\ UNCHANGED <<sales, sold, owner>>
    BY <1>8 DEF Rollback, Abandon
  <2> QED
    BY <2>1 DEF SalesInOrder, EmptyTx
<1> QED
  BY <1>2, <1>3, <1>4, <1>5, <1>6, <1>7, <1>8 DEF Step

\* COMMIT of sales.
LEMMA SalesOfCommit ==
    ASSUME TypeOK, SalesInv, NEW w \in Workers, WorkerInv(w), Commit(w)
    PROVE  SalesInv'
<1> USE DEF TypeOK, Goto
<1>1. /\ pc[w] = "insert" /\ pc'[w] = "committed" /\ tx' = [tx EXCEPT ![w] = EmptyTx]
      /\ events' = events \cup tx[w].events /\ sold' = Plus(sold, tx[w].sold)
      /\ sales' = sales \cup tx[w].sales /\ owner' = owner
  BY DEF Commit, rows
<1>2. \A v \in Workers : v # w => tx'[v] = tx[v] /\ pc'[v] = pc[v] /\ at'[v] = at[v]
  BY OthersStandStill DEF Step
<1>3. tx[w].events \cap events = {} /\ SalesInOrder(w) /\ DOMAIN sold = Events
  BY DEF WorkerInv, InsertedInOrder, SalesInv, TablesTyped
<1>4. SalesAgree'
  <2>1. \A e \in sales' : e \in events' /\ Log[e].kind = "licensed"
    BY <1>1, <1>3 DEF SalesInv, SalesAgree, SalesInOrder
  <2>2. ASSUME NEW e \in Events, sold'[e] # 0
        PROVE  sold'[e] = 1 /\ e \in events' /\ \E f \in sales' : Log[f].tx = Log[e].tx
    <3>1. CASE e \in tx[w].sold
      <4>1. e \in tx[w].events /\ e \notin events /\ sold[e] = 0
        BY <1>3, <3>1 DEF SalesInv, SalesAgree, SalesInOrder
      <4>2. sold'[e] = 1 /\ e \in events'
        BY <1>1, <1>3, <3>1, <4>1 DEF Plus
      <4>3. \E f \in sales \cup tx[w].sales : SameTx(f, e)
        BY <1>1, <1>3, <3>1 DEF SalesInOrder
      <4> QED
        BY <1>1, <4>2, <4>3 DEF SameTx
    <3>2. CASE e \notin tx[w].sold
      <4>1. sold'[e] = sold[e] + 0 /\ sold[e] \in Nat
        BY <1>1, <1>3, <3>2 DEF Plus, TablesTyped
      <4> QED
        BY <1>1, <2>2, <4>1 DEF SalesInv, SalesAgree
    <3> QED
      BY <3>1, <3>2
  <2> QED
    BY <2>1, <2>2 DEF SalesAgree
<1>5. SalesInOrder(w)'
  BY <1>1 DEF SalesInOrder, EmptyTx
<1>6. ASSUME NEW v \in Workers, v # w
      PROVE  SalesInOrder(v)'
  <2>1. SalesInOrder(v)
    BY DEF SalesInv
  <2> QED
    BY <1>1, <1>2, <1>6, <2>1 DEF SalesInOrder, SameTx
<1> QED
  BY <1>4, <1>5, <1>6 DEF SalesInv

LEMMA NextKeepsSales ==
    ASSUME IndInv, SalesInv, [Next]_vars
    PROVE  SalesInv'
<1> USE DEF IndInv
<1>1. ASSUME NEW w \in Workers, Step(w)
      PROVE  SalesInv'
  <2>1. CASE Commit(w)
    BY <2>1, SalesOfCommit
  <2>2. CASE ~Commit(w)
    <3>1. SalesInOrder(w)' /\ UNCHANGED <<sales, sold, owner>>
      BY <1>1, <2>2, SalesOfOwnStep DEF SalesInv
    <3>2. events' = events
      BY <1>1, <2>2, QuietSteps
    <3>3. \A v \in Workers : v # w => tx'[v] = tx[v] /\ pc'[v] = pc[v] /\ at'[v] = at[v]
      BY <1>1, OthersStandStill
    <3>4. \A v \in Workers : v # w => SalesInOrder(v)'
      BY <3>1, <3>3 DEF SalesInv, SalesInOrder, SameTx
    <3>5. SalesAgree'
      BY <3>1, <3>2 DEF SalesInv, SalesAgree
    <3> QED
      BY <3>1, <3>4, <3>5 DEF SalesInv
  <2> QED
    BY <2>1, <2>2
<1>2. ASSUME NEW w \in Workers, Fail(w)
      PROVE  SalesInv'
  <2>1. /\ tx' = [tx EXCEPT ![w] = EmptyTx] /\ UNCHANGED <<events, sales, sold, owner>>
        /\ \A v \in Workers : v # w => pc'[v] = pc[v] /\ at'[v] = at[v]
    BY <1>2
    DEF Fail, Abandon, AfterError, Goto, ForgetLocals, ForgetBatch, db, rows, TypeOK, BatchTyped
  <2>2. SalesInOrder(w)'
    BY <2>1 DEF SalesInOrder, EmptyTx, TypeOK
  <2>3. \A v \in Workers : v # w => SalesInOrder(v)'
    BY <2>1 DEF SalesInv, SalesInOrder, SameTx, TypeOK
  <2>4. SalesAgree'
    BY <2>1 DEF SalesInv, SalesAgree
  <2> QED
    BY <2>2, <2>3, <2>4 DEF SalesInv
<1>3. CASE UNCHANGED <<events, sales, sold, owner, tx, pc, at>>
  BY <1>3 DEF SalesInv, SalesAgree, SalesInOrder, SameTx
<1>4. CASE CloseLedger \/ UNCHANGED vars
  BY <1>3, <1>4 DEF CloseLedger, vars, db, rows, batch
\* Metadata once posted stays.
<1>5. ASSUME NEW s \in Samples, NEW p \in Producers, PostMetadata(s, p)
      PROVE  SalesInv'
  <2>1. /\ UNCHANGED <<events, sales, sold, tx, pc, at>>
        /\ \A x \in Samples : owner[x] # Nobody => owner'[x] = owner[x]
    BY <1>5 DEF PostMetadata, db, batch, TypeOK, RowsTyped
  <2>2. \A v \in Workers : \A e \in tx[v].sold : Log[e].sample \in Samples
    <3>1. \A v \in Workers : tx[v].sold \in SUBSET Events
      BY DEF TypeOK, TxType
    <3> QED
      BY <3>1, LogAssumption
  <2>3. \A v \in Workers : SalesInOrder(v)'
    BY <2>1, <2>2 DEF SalesInv, SalesInOrder, SameTx
  <2> QED
    BY <2>1, <2>3 DEF SalesInv, SalesAgree
<1> QED
  BY <1>1, <1>2, <1>4, <1>5 DEF Next

\* Initially nothing is sold.
LEMMA InitSales == Init => SalesInv
<1> SUFFICES ASSUME Init
             PROVE  SalesInv
  OBVIOUS
<1>1. \A w \in Workers : SalesInOrder(w)
  BY DEF Init, SalesInOrder, EmptyTx
<1> QED
  BY <1>1 DEF Init, SalesInv, SalesAgree

\* Metadata may come between any two statements of a batch, and batches fail anywhere:
\* total_sales counts a licence at most once, and only one whose transaction has its row
\* in sales.
THEOREM SalesDescribeTheSame == Spec => []SalesAgree
<1>1. IndInv /\ SalesInv /\ [Next]_vars => SalesInv'
  BY NextKeepsSales
<1>2. SalesInv => SalesAgree
  BY DEF SalesInv
<1> QED
  BY <1>1, <1>2, InitSales, InitInvariant, NextKeepsInvariant, PTL DEF Spec

\* Every row and key a transaction holds was written for an event it has inserted.
LEMMA LocksFollowEvents ==
    ASSUME IndInv, SalesInv, NEW v \in Workers, NEW w \in Workers, WaitsFor(v, w)
    PROVE  v # w /\ tx[w].events # {}
<1>1. /\ tx[w].sold \subseteq tx[w].events /\ tx[w].sales \subseteq tx[w].events
      /\ tx[w].credited \subseteq tx[w].events
  <2>1. SalesInOrder(w) /\ CountedInOrder(w)
    BY DEF SalesInv, IndInv, WorkerInv
  <2> QED
    BY <2>1 DEF SalesInOrder, CountedInOrder
<1>2. tx[w].known # {} => tx[w].events # {}
  BY DEF IndInv, WorkerInv, CountedInOrder, Uploaders
<1> QED
  BY <1>1, <1>2 DEF WaitsFor, SampleRowHeld

\* However many workers apply overlapping windows, no batch that another one waits for
\* waits itself, so that batches never wait in a circle.
THEOREM NoDeadlock == Spec => []WaitedForGoesOn
<1>1. IndInv /\ SalesInv => WaitedForGoesOn
  BY LocksFollowEvents DEF WaitedForGoesOn, IndInv, OneWriter
<1>2. IndInv /\ SalesInv /\ [Next]_vars => SalesInv'
  BY NextKeepsSales
<1> QED
  BY <1>1, <1>2, InitSales, InitInvariant, NextKeepsInvariant, PTL DEF Spec
=============================================================================
