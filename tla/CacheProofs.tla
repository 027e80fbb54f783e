----------------------------- MODULE CacheProofs -----------------------------
(***************************************************************************)
(* Proofs about Cache, for any number of requests and writers, any pages   *)
(* and offsets, and any number of commits, failures and crashes.           *)
(***************************************************************************)
EXTENDS Cache, TLAPS, FiniteSetTheorems

\* A request that goes on has an answer from the database.
Fetched == \A r \in Readers : rpc[r] \in {"rows", "store"} => got[r] \in Answers

\* No entry lists a sample: a page with one cannot be serialized, and is not stored.
NoRows == \A k \in Keys : entry[k].rows = {}

IndInv == TypeOK /\ Fetched /\ NoRows

LEMMA RowsTyped ==
    ASSUME TypeOK, NEW p
    PROVE  RowsOf(p) \in SUBSET Samples
BY CacheAssumption DEF TypeOK, RowsOf, Listed, Samples

\* The numbers in an answer stay within the bounds.
LEMMA AnswerTyped ==
    ASSUME TypeOK, NEW k \in Keys
    PROVE  Current(k) \in Answers
<1>1. Listed \subseteq 1..samples /\ 1..samples \subseteq Samples
  BY CacheAssumption DEF TypeOK, Listed, Samples
<1>2. Cardinality(Listed) \in 0..MaxSamples
  <2>1. IsFiniteSet(1..samples) /\ Cardinality(1..samples) = samples
    BY FS_Interval, CacheAssumption DEF TypeOK
  <2>2. IsFiniteSet(Listed) /\ Cardinality(Listed) <= samples
    BY <1>1, <2>1, FS_Subset
  <2> QED
    BY <2>2, FS_CardinalityType, CacheAssumption DEF TypeOK
<1>3. RowsOf(k) \subseteq Samples
  BY RowsTyped
<1> QED
  BY <1>2, <1>3, CacheAssumption DEF TypeOK, Current, Answers

\* What Drop and Excuse leave is typed.
LEMMA DropTyped ==
    ASSUME TypeOK, NEW keys, Drop(keys)
    PROVE  /\ entry' \in [Keys -> Answers \cup {None}]
           /\ excuses' \in [Keys -> SUBSET {"late", "missed", "takedown"}]
           /\ \A k \in Keys : entry'[k] = None => excuses'[k] = {}
BY DEF TypeOK, Drop

LEMMA ExcuseTyped ==
    ASSUME TypeOK, NEW keys, NEW why \in {"late", "missed", "takedown"}, Excuse(keys, why)
    PROVE  /\ entry' \in [Keys -> Answers \cup {None}]
           /\ excuses' \in [Keys -> SUBSET {"late", "missed", "takedown"}]
           /\ \A k \in Keys : entry'[k] = None => excuses'[k] = {}
BY DEF TypeOK, Excuse

LEMMA NoneIsNoAnswer == None \notin Answers
BY DEF None, Answers

LEMMA InitInvariant == Init => IndInv
BY CacheAssumption DEF Init, IndInv, TypeOK, Fetched, NoRows, Keys, None

\* Dropping and excusing store nothing.
LEMMA NothingStored ==
    ASSUME TypeOK, NoRows, NEW keys, NEW why, Drop(keys) \/ Excuse(keys, why)
    PROVE  NoRows'
BY DEF TypeOK, NoRows, Drop, Excuse, None

\* A step of a request.
LEMMA ReadTyped ==
    ASSUME IndInv, NEW r \in Readers, Read(r) \/ \E k \in Keys : Miss(r, k)
    PROVE  IndInv'
<1> USE DEF IndInv
<1>1. ASSUME NEW k \in Keys, Miss(r, k)
      PROVE  IndInv'
  BY <1>1 DEF TypeOK, Fetched, NoRows, Miss, Goto, tables, redis, writers
<1>2. ASSUME Fetch(r)
      PROVE  IndInv'
  <2>1. [count |-> Current(key[r]).count, rows |-> {}] \in Answers
    BY AnswerTyped DEF TypeOK, Answers
  <2> QED
    BY <1>2, <2>1 DEF TypeOK, Fetched, NoRows, Fetch, Goto, tables, redis, writers
<1>3. ASSUME FetchRows(r)
      PROVE  IndInv'
  <2>1. got'[r] \in Answers
    <3>1. rpc[r] = "rows" /\ got'[r] = [got[r] EXCEPT !.rows = RowsOf(key[r])] /\ got[r] \in Answers
      BY <1>3 DEF FetchRows, Fetched, TypeOK
    <3>2. RowsOf(key[r]) \in SUBSET Samples
      BY <1>3, RowsTyped DEF TypeOK
    <3> QED
      BY <3>1, <3>2 DEF Answers
  <2>2. got' \in [Readers -> Answers \cup {None}] /\ \A q \in Readers \ {r} : got'[q] = got[q]
    BY <1>3, <2>1 DEF FetchRows, TypeOK
  <2> QED
    BY <1>3, <2>1, <2>2 DEF TypeOK, Fetched, NoRows, FetchRows, Goto, tables, redis, writers
<1>4. ASSUME Store(r)
      PROVE  IndInv'
  <2>1. got[r] \in Answers /\ rpc' = [rpc EXCEPT ![r] = "idle"]
        /\ key' = [key EXCEPT ![r] = "stats"] /\ got' = [got EXCEPT ![r] = None]
        /\ UNCHANGED <<tables, writers, failures>>
    BY <1>4 DEF Store, Fetched, Return, Goto
  <2>2. CASE got[r].rows = {}
    <3>1. \E late \in SUBSET {"late"} :
              entry' = [entry EXCEPT ![key[r]] = got[r]] /\ excuses' = [excuses EXCEPT ![key[r]] = late]
      BY <1>4, <2>2 DEF Store, Serializable
    <3>2. NoRows' /\ entry' \in [Keys -> Answers \cup {None}]
          /\ excuses' \in [Keys -> SUBSET {"late", "missed", "takedown"}]
          /\ \A k \in Keys : entry'[k] = None => excuses'[k] = {}
      BY <2>1, <2>2, <3>1, NoneIsNoAnswer DEF TypeOK, NoRows
    <3> QED
      BY <2>1, <3>2 DEF TypeOK, Fetched, tables, writers, Keys
  <2>3. CASE got[r].rows # {}
    BY <1>4, <2>1, <2>3 DEF Store, Serializable, TypeOK, Fetched, NoRows, redis, tables, writers, Keys
  <2> QED
    BY <2>2, <2>3
<1>5. ASSUME GiveUp(r)
      PROVE  IndInv'
  BY <1>5 DEF TypeOK, Fetched, NoRows, GiveUp, Return, Goto, tables, redis, writers, Keys
<1> QED
  BY <1>1, <1>2, <1>3, <1>4, <1>5 DEF Read

\* A step of a writer.
LEMMA WriteTyped ==
    ASSUME IndInv, NEW x \in Writers,
           CommitBatch(x) \/ PostMetadata(x) \/ Invalidate(x) \/ InvalidationFails(x) \/ Crash(x)
    PROVE  IndInv'
<1> USE CacheAssumption DEF IndInv
<1>1. CASE CommitBatch(x)
  BY <1>1 DEF TypeOK, Fetched, NoRows, CommitBatch, Then, AfterCommit, redis, readers
<1>2. CASE PostMetadata(x)
  BY <1>2 DEF TypeOK, Fetched, NoRows, PostMetadata, Then, redis, readers
<1>3. CASE StartScan(x)
  BY <1>3 DEF TypeOK, Fetched, NoRows, StartScan, Then, tables, redis, readers
<1>4. CASE EndScan(x)
  BY <1>4 DEF TypeOK, Fetched, NoRows, EndScan, Then, tables, redis, readers
<1>5. CASE DeleteStats(x)
  BY <1>5, DropTyped, NothingStored
     DEF TypeOK, Fetched, DeleteStats, Then, tables, readers
<1>6. CASE DeletePages(x)
  <2>1. PICK keys \in SUBSET Pages : Drop(keys) /\ todo' = [todo EXCEPT ![x] = @ \ keys]
    BY <1>6 DEF DeletePages
  <2>2. UNCHANGED <<tables, readers, wpc, failures>>
    BY <1>6 DEF DeletePages
  <2>3. todo' \in [Writers -> SUBSET Pages]
    BY <2>1 DEF TypeOK
  <2> QED
    BY <2>1, <2>2, <2>3, DropTyped, NothingStored DEF TypeOK, Fetched, tables, readers
<1>7. CASE InvalidationFails(x) \/ Crash(x)
  <2>1. /\ \E keys : Excuse(keys, "missed")
        /\ wpc' \in [Writers -> {"idle", "stats", "scan", "delete"}]
        /\ \A y \in Writers \ {x} : wpc'[y] = wpc[y]
        /\ todo' = [todo EXCEPT ![x] = {}] /\ failures' \in 0..MaxFailures
        /\ UNCHANGED <<tables, readers>>
    BY <1>7 DEF InvalidationFails, Crash, Then, TypeOK
  <2> QED
    BY <2>1, ExcuseTyped, NothingStored DEF TypeOK, Fetched, tables, readers
<1> QED
  BY <1>1, <1>2, <1>3, <1>4, <1>5, <1>6, <1>7 DEF Invalidate

LEMMA NextInvariant ==
    ASSUME IndInv, [Next]_vars
    PROVE  IndInv'
<1>1. ASSUME NEW s \in Samples, TakeDown(s)
      PROVE  IndInv'
  BY <1>1, ExcuseTyped, NothingStored DEF IndInv, TypeOK, Fetched, TakeDown, readers, writers, Listed
<1>2. ASSUME NEW k \in Keys, Expire(k)
      PROVE  IndInv'
  BY <1>2, DropTyped, NothingStored DEF IndInv, TypeOK, Fetched, Expire, tables, readers
<1>3. CASE UNCHANGED vars
  BY <1>3 DEF IndInv, TypeOK, Fetched, NoRows, vars, tables, redis, readers, writers
<1> QED
  BY <1>1, <1>2, <1>3, ReadTyped, WriteTyped DEF Next

\* Every variable of the cache keeps its type, for any number of readers and writers.
THEOREM CacheTyped == Spec => []TypeOK
<1>1. IndInv => TypeOK
  BY DEF IndInv
<1> QED
  BY <1>1, InitInvariant, NextInvariant, PTL DEF Spec

\* However requests, takedowns, failures and expiries interleave, no page in Redis lists a
\* sample that has been taken down (in truth, because none with a sample can be stored).
THEOREM NoTakenDownHit == Spec => []TakenDownNotServed
<1>1. IndInv => TakenDownNotServed
  BY DEF IndInv, NoRows, TakenDownNotServed, Keys
<1> QED
  BY <1>1, InitInvariant, NextInvariant, PTL DEF Spec

\* A commit makes an entry stale only with its invalidation still to come; every step that
\* ends one without a deletion leaves an excuse.
LEMMA StepKeepsExplanation ==
    ASSUME IndInv, StaleIsExplained, [Next]_vars
    PROVE  StaleIsExplained'
<1> DEFINE Watched == {"stats"} \cup Pages
<1> USE CacheAssumption DEF IndInv, StaleIsExplained
<1>0. SUFFICES ASSUME NEW k \in Watched, Stale(k)'
               PROVE  excuses'[k] # {} \/ \E x \in Writers : WillDelete(x, k)'
  OBVIOUS
<1>a. k \in Keys /\ entry'[k] # None
  BY <1>0 DEF Stale, Keys
<1>b. ASSUME UNCHANGED tables, entry'[k] = entry[k]
      PROVE  excuses[k] # {} \/ \E x \in Writers : WillDelete(x, k)
  <2>1. Current(k)' = Current(k)
    BY <1>b DEF Current, RowsOf, Listed, tables
  <2> QED
    BY <1>0, <1>b, <2>1 DEF Stale
<1>1. ASSUME UNCHANGED tables, UNCHANGED redis, UNCHANGED writers
      PROVE  excuses'[k] # {} \/ \E x \in Writers : WillDelete(x, k)'
  BY <1>b, <1>1 DEF WillDelete, redis, writers
<1>2. ASSUME NEW r \in Readers, Read(r) \/ \E q \in Keys : Miss(r, q)
      PROVE  excuses'[k] # {} \/ \E x \in Writers : WillDelete(x, k)'
  <2>1. CASE Store(r) /\ Serializable(got[r])
    <3>1. /\ entry' = [entry EXCEPT ![key[r]] = got[r]]
          /\ excuses' = [excuses EXCEPT ![key[r]] = IF got[r] = Current(key[r]) THEN {} ELSE {"late"}]
          /\ UNCHANGED <<tables, writers>>
      BY <2>1 DEF Store
    <3>2. Current(k)' = Current(k) /\ \A x \in Writers : WillDelete(x, k)' <=> WillDelete(x, k)
      BY <3>1 DEF Current, RowsOf, Listed, WillDelete, tables, writers
    <3> QED
      BY <1>0, <3>1, <3>2 DEF Stale, TypeOK, Keys
  <2>2. CASE ~(Store(r) /\ Serializable(got[r]))
    <3>1. UNCHANGED tables /\ UNCHANGED redis /\ UNCHANGED writers
      BY <1>2, <2>2 DEF Read, Store, Fetch, FetchRows, GiveUp, Miss
    <3> QED
      BY <1>1, <3>1
  <2> QED
    BY <2>1, <2>2
<1>3. ASSUME NEW x \in Writers, CommitBatch(x) \/ PostMetadata(x) \/ Invalidate(x)
      PROVE  excuses'[k] # {} \/ \E y \in Writers : WillDelete(y, k)'
  <2>1. CASE CommitBatch(x)
    BY <2>1 DEF CommitBatch, Then, AfterCommit, WillDelete, TypeOK
  <2>2. CASE PostMetadata(x)
    BY <1>0, <2>2 DEF PostMetadata, Then, WillDelete, TypeOK, Stale, Current, redis
  <2>3. CASE DeleteStats(x)
    <3>1. k # "stats" /\ UNCHANGED tables /\ entry'[k] = entry[k] /\ excuses'[k] = excuses[k]
          /\ wpc' = [wpc EXCEPT ![x] = "scan"] /\ UNCHANGED todo
      BY <1>a, <2>3 DEF DeleteStats, Drop, Then
    <3> QED
      BY <1>b, <3>1 DEF WillDelete, TypeOK
  <2>4. CASE DeletePages(x)
    <3>1. PICK keys \in SUBSET Pages : Drop(keys) /\ todo' = [todo EXCEPT ![x] = @ \ keys]
      BY <2>4 DEF DeletePages
    <3>2. k \notin keys /\ UNCHANGED tables /\ entry'[k] = entry[k] /\ excuses'[k] = excuses[k]
          /\ UNCHANGED wpc
      BY <1>a, <2>4, <3>1 DEF DeletePages, Drop
    <3> QED
      BY <1>b, <3>1, <3>2 DEF WillDelete, TypeOK
  <2>5. CASE StartScan(x)
    <3>1. /\ UNCHANGED tables /\ UNCHANGED redis /\ wpc[x] = "scan"
          /\ wpc' = [wpc EXCEPT ![x] = "delete"]
          /\ todo' = [todo EXCEPT ![x] = {p \in Pages : entry[p] # None}]
      BY <2>5 DEF StartScan, Then
    <3> QED
      BY <1>a, <1>b, <3>1 DEF WillDelete, TypeOK, redis
  <2>6. CASE EndScan(x)
    <3>1. /\ UNCHANGED tables /\ UNCHANGED redis /\ wpc[x] = "delete" /\ todo[x] = {}
          /\ wpc' = [wpc EXCEPT ![x] = "idle"] /\ UNCHANGED todo
      BY <2>6 DEF EndScan, Then
    <3> QED
      BY <1>b, <3>1 DEF WillDelete, TypeOK, redis
  <2> QED
    BY <1>3, <2>1, <2>2, <2>3, <2>4, <2>5, <2>6 DEF Invalidate
<1>4. ASSUME NEW x \in Writers, InvalidationFails(x) \/ Crash(x)
      PROVE  excuses'[k] # {} \/ \E y \in Writers : WillDelete(y, k)'
  <2>1. /\ UNCHANGED tables /\ entry' = entry /\ todo' = [todo EXCEPT ![x] = {}]
        /\ wpc' \in {[wpc EXCEPT ![x] = "scan"], [wpc EXCEPT ![x] = "idle"]}
    BY <1>4 DEF InvalidationFails, Crash, Excuse, Then
  <2>2. \A y \in Writers \ {x} : WillDelete(y, k) => WillDelete(y, k)'
    BY <2>1 DEF WillDelete, TypeOK
  <2>3. excuses'[k] = {} => excuses[k] = {}
    BY <1>a, <1>4 DEF InvalidationFails, Crash, Excuse
  <2>4. WillDelete(x, k) => excuses'[k] # {} \/ WillDelete(x, k)'
    <3>1. CASE InvalidationFails(x)
      <4>1. CASE wpc[x] = "stats"
        <5>1. (k = "stats" => excuses'[k] # {}) /\ wpc'[x] = "scan"
          BY <1>a, <3>1, <4>1, SMTT(30) DEF InvalidationFails, Excuse, Then, TypeOK
        <5> QED
          BY <5>1 DEF WillDelete
      <4>2. CASE wpc[x] # "stats"
        <5>1. k \in (IF wpc[x] = "scan" THEN Pages ELSE todo[x]) => excuses'[k] # {}
          BY <1>a, <3>1, <4>2 DEF InvalidationFails, Excuse
        <5> QED
          BY <4>2, <5>1 DEF WillDelete
      <4> QED
        BY <4>1, <4>2
    <3>2. CASE Crash(x)
      <4>1. k \in (IF wpc[x] = "stats" THEN {"stats"} ELSE {})
                     \cup (IF wpc[x] = "delete" THEN todo[x] ELSE Pages) => excuses'[k] # {}
        BY <1>a, <2>1, <3>2 DEF Crash, Excuse
      <4> QED
        BY <4>1 DEF WillDelete
    <3> QED
      BY <1>4, <3>1, <3>2
  <2> QED
    BY <1>b, <2>1, <2>2, <2>3, <2>4
<1>5. ASSUME NEW s \in Samples, TakeDown(s)
      PROVE  excuses'[k] # {} \/ \E y \in Writers : WillDelete(y, k)'
  BY <1>0, <1>5 DEF TakeDown, Excuse, WillDelete, TypeOK, Stale, Current, writers, Keys
<1>6. ASSUME NEW q \in Keys, Expire(q)
      PROVE  excuses'[k] # {} \/ \E y \in Writers : WillDelete(y, k)'
  <2>1. /\ k # q /\ UNCHANGED tables /\ entry'[k] = entry[k] /\ excuses'[k] = excuses[k]
        /\ UNCHANGED wpc /\ todo' = [x \in Writers |-> todo[x] \ {q}]
    BY <1>a, <1>6 DEF Expire, Drop
  <2> QED
    BY <1>b, <2>1 DEF WillDelete, TypeOK
<1>7. CASE UNCHANGED vars
  BY <1>1, <1>7 DEF vars
<1> QED
  BY <1>2, <1>3, <1>4, <1>5, <1>6, <1>7 DEF Next

\* Whatever the interleaving: an entry for the statistics or a listing that the database has
\* overtaken is about to be deleted, or was stored late, or lost an invalidation, or a
\* sample was taken down.
THEOREM StaleEntriesExplained == Spec => []StaleIsExplained
<1>1. Init => StaleIsExplained
  BY DEF Init, StaleIsExplained, Stale, Keys
<1> QED
  BY <1>1, InitInvariant, NextInvariant, StepKeepsExplanation, PTL DEF Spec
=============================================================================
