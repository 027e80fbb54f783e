------------------------ MODULE ReconciliationProofs ------------------------
(***************************************************************************)
(* Proofs about Reconciliation, for any number of workers, callers,        *)
(* samples, legal splits and sales, and any batch size.                    *)
(***************************************************************************)
EXTENDS Reconciliation, TLAPS, FiniteSetTheorems

(***************************************************************************)
(* Minimum and maximum of a set of numbers, by the well-founded order of   *)
(* strict inclusion between intervals.                                     *)
(***************************************************************************)

LEMMA SmallestInterval ==
    ASSUME NEW F, F # {}, \A I \in F : IsFiniteSet(I)
    PROVE  \E I \in F : \A J \in F : ~(J \subseteq I /\ J # I)
<1> DEFINE S == UNION F
<1>1. F \subseteq FiniteSubsetsOf(S)
  BY DEF FiniteSubsetsOf
<1>2. PICK I \in F : \A J \in F : ~(<<J, I>> \in StrictSubsetOrdering(S))
  BY <1>1, WFMin, FS_StrictSubsetOrderingWellFounded
<1> QED
  BY <1>1, <1>2 DEF StrictSubsetOrdering, FiniteSubsetsOf

LEMMA MinExists ==
    ASSUME NEW T \in SUBSET Nat, T # {}
    PROVE  Min(T) \in T /\ \A y \in T : Min(T) <= y
<1> DEFINE Intervals == {0..a : a \in T}
<1>1. PICK x \in T : \A y \in T : ~(0..y \subseteq 0..x /\ 0..y # 0..x)
  <2>1. \A a \in T : IsFiniteSet(0..a)
    <3> TAKE a \in T
    <3>1. a \in Int
      OBVIOUS
    <3> QED
      BY <3>1, FS_Interval
  <2>2. \A I \in Intervals : IsFiniteSet(I)
    BY <2>1
  <2>3. \A a \in T : 0..a \in Intervals
    OBVIOUS
  <2>4. Intervals # {}
    BY <2>3
  <2>5. \A I \in Intervals : \E a \in T : I = 0..a
    OBVIOUS
  <2> HIDE DEF Intervals
  <2>6. PICK I \in Intervals : \A J \in Intervals : ~(J \subseteq I /\ J # I)
    BY <2>2, <2>4, SmallestInterval
  <2>7. PICK x \in T : I = 0..x
    BY <2>5
  <2> QED
    BY <2>3, <2>6, <2>7
<1>2. ASSUME NEW y \in T
      PROVE  x <= y
  <2> SUFFICES ASSUME y < x
               PROVE  FALSE
    OBVIOUS
  <2>1. 0..y \subseteq 0..x /\ x \in 0..x /\ x \notin 0..y
    OBVIOUS
  <2> QED
    BY <1>1, <2>1
<1> QED
  BY <1>2 DEF Min

LEMMA MaxExists ==
    ASSUME NEW T \in SUBSET Nat, T # {}, NEW n \in Nat, \A y \in T : y <= n
    PROVE  Max(T) \in T /\ \A y \in T : y <= Max(T)
<1> DEFINE Intervals == {a..n : a \in T}
<1>1. PICK x \in T : \A y \in T : ~(y..n \subseteq x..n /\ y..n # x..n)
  <2>1. \A a \in T : IsFiniteSet(a..n)
    <3> TAKE a \in T
    <3>1. a \in Int
      OBVIOUS
    <3> QED
      BY <3>1, FS_Interval
  <2>2. \A I \in Intervals : IsFiniteSet(I)
    BY <2>1
  <2>3. \A a \in T : a..n \in Intervals
    OBVIOUS
  <2>4. Intervals # {}
    BY <2>3
  <2>5. \A I \in Intervals : \E a \in T : I = a..n
    OBVIOUS
  <2> HIDE DEF Intervals
  <2>6. PICK I \in Intervals : \A J \in Intervals : ~(J \subseteq I /\ J # I)
    BY <2>2, <2>4, SmallestInterval
  <2>7. PICK x \in T : I = x..n
    BY <2>5
  <2> QED
    BY <2>3, <2>6, <2>7
<1>2. ASSUME NEW y \in T
      PROVE  y <= x
  <2> SUFFICES ASSUME x < y
               PROVE  FALSE
    OBVIOUS
  <2>1. y..n \subseteq x..n /\ x \in x..n /\ x \notin y..n
    OBVIOUS
  <2> QED
    BY <1>1, <2>1
<1> QED
  BY <1>2 DEF Max

(***************************************************************************)
(* Versions of a split.                                                    *)
(***************************************************************************)

Done == {c \in Callers : cpc[c] = "done"}

RowsTyped ==
    \A r \in splits :
        /\ r.sample \in Samples /\ r.from \in Times /\ r.asked \in Times /\ r.asked <= r.from
        /\ r.version \in Nat \ {0} /\ r.version <= Cardinality(Done)

\* A request that waits or has the lock.
Asking(c) == cpc[c] \in {"lock", "version", "insert"}

RequestTyped(c) ==
    /\ request[c].sample \in Samples /\ request[c].config \in Configs
    /\ request[c].from \in Times /\ request[c].asked \in Times
    /\ request[c].asked <= request[c].from

\* The lock is one caller's, and what it is about to insert is newer than what is there.
Locks(c) == cpc[c] \in {"version", "insert"}

CallersInv ==
    /\ now \in Times /\ cpc \in [Callers -> {"start", "lock", "version", "insert", "done"}]
    /\ next \in [Callers -> Versions \cup {0}] /\ DOMAIN request = Callers
    /\ \A c \in Callers : Asking(c) => RequestTyped(c)
    /\ \A c, d \in Callers : Locks(c) /\ Locks(d) /\ request[c].sample = request[d].sample => c = d
    /\ \A c \in Callers : cpc[c] = "insert" =>
           /\ next[c] \in Nat \ {0} /\ next[c] <= Cardinality(Done) + 1
           /\ \A r \in splits : r.sample = request[c].sample => r.version < next[c]

SplitsInv == RowsTyped /\ VersionsWhole

\* ORDER BY effective_from DESC, version DESC
Newest(r, rows) == \A q \in rows : q.from < r.from \/ (q.from = r.from /\ q.version <= r.version)

LEMMA NewestExists ==
    ASSUME NEW rows, rows # {}, NEW n \in Nat, NEW m \in Nat,
           \A r \in rows : r.from \in 0..n /\ r.version \in 0..m
    PROVE  /\ (CHOOSE r \in rows : Newest(r, rows)) \in rows
           /\ Newest(CHOOSE r \in rows : Newest(r, rows), rows)
<1> DEFINE Froms == {r.from : r \in rows}
<1>1. PICK f \in Froms : \A g \in Froms : g <= f
  <2>1. Froms \in SUBSET Nat /\ Froms # {} /\ \A g \in Froms : g <= n
    OBVIOUS
  <2> HIDE DEF Froms
  <2> QED
    BY <2>1, MaxExists
<1> DEFINE Latest == {r.version : r \in {q \in rows : q.from = f}}
<1>2. PICK v \in Latest : \A u \in Latest : u <= v
  <2>1. Latest \in SUBSET Nat /\ Latest # {} /\ \A u \in Latest : u <= m
    OBVIOUS
  <2> HIDE DEF Latest
  <2> QED
    BY <2>1, MaxExists
<1>3. PICK r \in rows : r.from = f /\ r.version = v
  OBVIOUS
<1>4. Newest(r, rows)
  <2> SUFFICES ASSUME NEW q \in rows
               PROVE  q.from < r.from \/ (q.from = r.from /\ q.version <= r.version)
    BY DEF Newest
  <2>1. q.from \in Nat /\ f \in Nat /\ q.from <= f
    BY <1>1, <1>3
  <2>2. q.from = f => q.version <= v
    BY <1>2
  <2> QED
    BY <1>3, <2>1, <2>2
<1> QED
  BY <1>4

EffectiveRows(s, time) == {r \in splits : r.sample = s /\ r.from <= time}

LEMMA EffectiveIsNewest ==
    ASSUME RowsTyped, NEW s, NEW time, EffectiveRows(s, time) # {}
    PROVE  \E r \in EffectiveRows(s, time) :
               Newest(r, EffectiveRows(s, time)) /\ EffectiveVersion(s, time) = r.version
<1> DEFINE rows == EffectiveRows(s, time)
<1>1. Cardinality(Done) \in Nat /\ MaxTime \in Nat
  BY BoundsAssumption, FS_Subset, FS_CardinalityType DEF Done
<1>2. \A r \in rows : r.from \in 0..MaxTime /\ r.version \in 0..Cardinality(Done)
  BY <1>1 DEF RowsTyped, EffectiveRows, Times
<1>3. EffectiveVersion(s, time) = (CHOOSE r \in rows : Newest(r, rows)).version
  BY DEF EffectiveVersion, EffectiveRows, Newest
<1> HIDE DEF rows
<1> QED
  BY <1>1, <1>2, <1>3, NewestExists DEF rows

LEMMA EffectiveIsNone ==
    ASSUME NEW s, NEW time, EffectiveRows(s, time) = {}
    PROVE  EffectiveVersion(s, time) = NoSplit
BY DEF EffectiveVersion, EffectiveRows

\* The callers are finitely many, and one that has not answered is one more than those that have.
LEMMA DoneCounts ==
    /\ IsFiniteSet(Done) /\ Cardinality(Done) \in Nat /\ Cardinality(Done) <= Cardinality(Callers)
    /\ Cardinality(Callers) \in Nat
    /\ \A c \in Callers \ Done : /\ Cardinality(Done) + 1 <= Cardinality(Callers)
                                 /\ Cardinality(Done \cup {c}) = Cardinality(Done) + 1
<1>1. Done \in SUBSET Callers /\ IsFiniteSet(Callers)
  BY BoundsAssumption DEF Done
<1>2. /\ IsFiniteSet(Done) /\ Cardinality(Done) \in Nat /\ Cardinality(Done) <= Cardinality(Callers)
      /\ Cardinality(Callers) \in Nat
  BY <1>1, FS_Subset, FS_CardinalityType
<1>3. ASSUME NEW c \in Callers \ Done
      PROVE  /\ Cardinality(Done) + 1 <= Cardinality(Callers)
             /\ Cardinality(Done \cup {c}) = Cardinality(Done) + 1
  <2>1. Cardinality(Done \cup {c}) = Cardinality(Done) + 1
    BY <1>2, FS_AddElement
  <2>2. Done \cup {c} \in SUBSET Callers
    BY <1>1
  <2>3. Cardinality(Done \cup {c}) <= Cardinality(Callers)
    BY <1>1, <2>2, FS_Subset
  <2> QED
    BY <2>1, <2>3
<1> QED
  BY <1>2, <1>3

LEMMA EffectiveTyped ==
    ASSUME RowsTyped, NEW s, NEW time
    PROVE  EffectiveVersion(s, time) \in Versions \cup {NoSplit}
<1>1. CASE EffectiveRows(s, time) = {}
  BY <1>1, EffectiveIsNone
<1>2. CASE EffectiveRows(s, time) # {}
  <2>1. PICK r \in EffectiveRows(s, time) : EffectiveVersion(s, time) = r.version
    BY <1>2, EffectiveIsNewest
  <2>2. r.version \in Nat \ {0} /\ r.version <= Cardinality(Done)
    BY DEF RowsTyped, EffectiveRows
  <2>3. r.version \in Versions
    BY <2>2, DoneCounts DEF Versions
  <2> QED
    BY <2>1, <2>3
<1> QED
  BY <1>1, <1>2

\* Steps of a caller before it commits.
LEMMA CallerSteps ==
    ASSUME CallersInv, SplitsInv, NEW c \in Callers,
           \/ \E s \in Samples, config \in Configs, from \in Times : Configure(c, s, config, from)
           \/ LockSample(c) \/ NextVersion(c)
    PROVE  CallersInv' /\ SplitsInv'
<1> USE DEF Asking, Locks
<1>1. CASE \E s \in Samples, config \in Configs, from \in Times : Configure(c, s, config, from)
  <2>1. PICK s \in Samples, config \in Configs, from \in Times : Configure(c, s, config, from)
    BY <1>1
  <2>2. /\ cpc[c] = "start" /\ from >= now /\ cpc' = [cpc EXCEPT ![c] = "lock"]
        /\ request' = [request EXCEPT ![c] = [sample |-> s, config |-> config, from |-> from,
                                              asked |-> now]]
        /\ UNCHANGED <<now, splits, next>>
    BY <2>1 DEF Configure, MayStartAt, tables
  <2>3. Done' = Done
    BY <2>2 DEF Done, CallersInv
  <2>4. CallersInv'
    <3>1. RequestTyped(c)'
      BY <2>2 DEF CallersInv, RequestTyped, Times
    <3>2. \A d \in Callers \ {c} : request'[d] = request[d] /\ cpc'[d] = cpc[d]
      BY <2>2 DEF CallersInv
    <3>3. cpc'[c] = "lock"
      BY <2>2 DEF CallersInv
    <3> QED
      BY <2>2, <2>3, <3>1, <3>2, <3>3 DEF CallersInv, RequestTyped
  <2> QED
    BY <2>2, <2>3, <2>4 DEF SplitsInv, RowsTyped, VersionsWhole, SplitOf
<1>2. CASE LockSample(c)
  <2>1. /\ cpc[c] = "lock" /\ cpc' = [cpc EXCEPT ![c] = "version"]
        /\ \A d \in Callers : Locks(d) => request[d].sample # request[c].sample
        /\ UNCHANGED <<now, splits, request, next>>
    BY <1>2 DEF LockSample, LockFree, tables
  <2>2. Done' = Done
    BY <2>1 DEF Done, CallersInv
  <2> QED
    BY <2>1, <2>2 DEF CallersInv, RequestTyped, SplitsInv, RowsTyped, VersionsWhole, SplitOf
<1>3. CASE NextVersion(c)
  <2> DEFINE used == {r.version : r \in {q \in splits : q.sample = request[c].sample}}
  <2>1. /\ cpc[c] = "version" /\ cpc' = [cpc EXCEPT ![c] = "insert"]
        /\ next' = [next EXCEPT ![c] = Max(used \cup {0}) + 1]
        /\ UNCHANGED <<now, splits, request>>
    BY <1>3 DEF NextVersion, VersionAfter, tables
  <2>2. Done' = Done /\ c \notin Done
    BY <2>1 DEF Done, CallersInv
  <2>3. \A v \in used \cup {0} : v \in Nat /\ v <= Cardinality(Done)
    BY DoneCounts DEF SplitsInv, RowsTyped
  <2>4. \A r \in splits : r.sample = request[c].sample => r.version \in used
    OBVIOUS
  <2> HIDE DEF used
  <2>5. /\ Max(used \cup {0}) \in Nat /\ Max(used \cup {0}) <= Cardinality(Done)
        /\ \A v \in used : v <= Max(used \cup {0})
    BY <2>3, DoneCounts, MaxExists
  <2> DEFINE last == Max(used \cup {0})
  <2>6. last \in Nat /\ last <= Cardinality(Done) /\ \A v \in used : v <= last /\ v \in Nat
    BY <2>3, <2>5
  <2> HIDE DEF last
  <2>7. Cardinality(Done) + 1 <= Cardinality(Callers) /\ Cardinality(Done) \in Nat
        /\ Cardinality(Callers) \in Nat
    BY <2>2, DoneCounts
  <2>8. last + 1 \in Versions /\ last + 1 <= Cardinality(Done) + 1 /\ last + 1 \in Nat \ {0}
    BY <2>6, <2>7 DEF Versions
  <2>9. \A r \in splits : r.sample = request[c].sample => r.version < last + 1
    BY <2>4, <2>6
  <2>10. next' = [next EXCEPT ![c] = last + 1]
    BY <2>1 DEF last
  <2>11. CallersInv'
    <3>1. /\ next'[c] = last + 1 /\ cpc'[c] = "insert"
          /\ \A d \in Callers \ {c} : next'[d] = next[d] /\ cpc'[d] = cpc[d]
      BY <2>1, <2>10 DEF CallersInv
    <3>2. \A d \in Callers : cpc'[d] = "insert" =>
              /\ next'[d] \in Nat \ {0} /\ next'[d] <= Cardinality(Done) + 1
              /\ \A r \in splits : r.sample = request[d].sample => r.version < next'[d]
      BY <2>8, <2>9, <3>1 DEF CallersInv
    <3>3. next' \in [Callers -> Versions \cup {0}]
      BY <2>8, <2>10 DEF CallersInv
    <3>4. cpc' \in [Callers -> {"start", "lock", "version", "insert", "done"}]
      BY <2>1 DEF CallersInv
    <3>5. \A d \in Callers : Asking(d)' => RequestTyped(d)'
      BY <2>1, <3>1 DEF CallersInv, RequestTyped
    <3>6. \A d, e \in Callers : Locks(d)' /\ Locks(e)' /\ request'[d].sample = request'[e].sample
                                => d = e
      BY <2>1, <3>1 DEF CallersInv
    <3> QED
      BY <2>1, <2>2, <3>2, <3>3, <3>4, <3>5, <3>6 DEF CallersInv
  <2> QED
    BY <2>1, <2>2, <2>11 DEF SplitsInv, RowsTyped, VersionsWhole, SplitOf
<1> QED
  BY <1>1, <1>2, <1>3

\* An answer leaves nothing of the request, and no other caller's lock is touched.
LEMMA AnswerSteps ==
    ASSUME CallersInv, NEW c \in Callers, Answer(c), Asking(c)
    PROVE  /\ Done' = Done \cup {c} /\ Cardinality(Done') = Cardinality(Done) + 1
           /\ next' \in [Callers -> Versions \cup {0}] /\ DOMAIN request' = Callers
           /\ cpc' \in [Callers -> {"start", "lock", "version", "insert", "done"}]
           /\ ~Asking(c)' /\ ~Locks(c)' /\ cpc'[c] = "done"
           /\ \A d \in Callers \ {c} :
                  cpc'[d] = cpc[d] /\ request'[d] = request[d] /\ next'[d] = next[d]
<1>1. /\ cpc' = [cpc EXCEPT ![c] = "done"] /\ request' = [request EXCEPT ![c] = NoRequest]
      /\ next' = [next EXCEPT ![c] = 0]
  BY DEF Answer
<1>2. c \notin Done
  BY DEF Done, Asking
<1>3. Done' = Done \cup {c}
  BY <1>1 DEF Done, CallersInv
<1>4. Cardinality(Done') = Cardinality(Done) + 1
  BY <1>2, <1>3, DoneCounts
<1> QED
  BY <1>1, <1>3, <1>4 DEF CallersInv, Asking, Locks

\* The rows of the new version are the whole of it, and what was there is as it was.
LEMMA NewRows ==
    ASSUME CallersInv, SplitsInv, NEW c \in Callers, CommitVersion(c)
    PROVE  LET q == request[c] IN
           /\ \A s, v : ~(s = q.sample /\ v = next[c]) => SplitOf(s, v)' = SplitOf(s, v)
           /\ SplitOf(q.sample, next[c]) = {}
           /\ \A r \in splits' \ splits : r.sample = q.sample /\ r.version = next[c]
                                          /\ r.from = q.from /\ r.asked = q.asked
           /\ \A r \in splits' \ splits :
                  SplitOf(r.sample, r.version)' = RowsOf(q.config, r.sample, r.version,
                                                         r.from, r.asked)
<1> DEFINE q == request[c]
           new == RowsOf(q.config, q.sample, next[c], q.from, q.asked)
<1>1. cpc[c] = "insert" /\ splits' = splits \cup new
  BY DEF CommitVersion
<1>2. \A r \in splits : r.sample = q.sample => r.version \in Nat /\ r.version < next[c]
  BY <1>1 DEF CallersInv, SplitsInv, RowsTyped
<1>3. next[c] \in Nat
  BY <1>1 DEF CallersInv
<1>4. \A r \in new : r.sample = q.sample /\ r.version = next[c] /\ r.from = q.from
                     /\ r.asked = q.asked
  BY DEF RowsOf
<1>5. \A r \in splits : ~(r.sample = q.sample /\ r.version = next[c])
  BY <1>2, <1>3
<1> HIDE DEF new
<1>6. \A s, v : SplitOf(s, v)' = {r \in splits \cup new : r.sample = s /\ r.version = v}
  BY <1>1 DEF SplitOf
<1>7. \A s, v : ~(s = q.sample /\ v = next[c]) => SplitOf(s, v)' = SplitOf(s, v)
  BY <1>4, <1>6 DEF SplitOf
<1>8. SplitOf(q.sample, next[c]) = {}
  BY <1>5 DEF SplitOf
<1>9. \A s, v : s = q.sample /\ v = next[c] => SplitOf(s, v)' = new
  BY <1>4, <1>5, <1>6
<1>10. \A r \in splits' \ splits : r \in new
  BY <1>1
<1>11. ASSUME NEW r \in splits' \ splits
       PROVE  SplitOf(r.sample, r.version)' = RowsOf(q.config, r.sample, r.version, r.from, r.asked)
  <2>1. r \in new /\ r.sample = q.sample /\ r.version = next[c] /\ r.from = q.from
        /\ r.asked = q.asked
    BY <1>4, <1>10
  <2>2. SplitOf(r.sample, r.version)' = new
    BY <1>4, <1>5, <1>6, <2>1
  <2> QED
    BY <2>1, <2>2 DEF new
<1> QED
  BY <1>4, <1>7, <1>8, <1>10, <1>11

LEMMA CommitSteps ==
    ASSUME CallersInv, SplitsInv, NEW c \in Callers, CommitVersion(c)
    PROVE  CallersInv' /\ SplitsInv'
<1> DEFINE q == request[c]
           new == splits' \ splits
<1>1. /\ cpc[c] = "insert" /\ Answer(c) /\ now' = now /\ Asking(c) /\ Locks(c)
      /\ splits \subseteq splits'
  BY DEF CommitVersion, Asking, Locks
<1>2. /\ Done' = Done \cup {c} /\ Cardinality(Done') = Cardinality(Done) + 1
      /\ next' \in [Callers -> Versions \cup {0}] /\ DOMAIN request' = Callers
      /\ cpc' \in [Callers -> {"start", "lock", "version", "insert", "done"}]
      /\ ~Asking(c)' /\ ~Locks(c)' /\ cpc'[c] = "done"
      /\ \A d \in Callers \ {c} :
             cpc'[d] = cpc[d] /\ request'[d] = request[d] /\ next'[d] = next[d]
  BY <1>1, AnswerSteps
<1>3. \A r \in new : r.sample = q.sample /\ r.version = next[c] /\ r.from = q.from
                     /\ r.asked = q.asked
  BY NewRows
<1>4. RequestTyped(c) /\ next[c] \in Nat \ {0} /\ next[c] <= Cardinality(Done) + 1
  BY <1>1 DEF CallersInv
<1>5. RowsTyped'
  <2> SUFFICES ASSUME NEW r \in splits'
               PROVE  /\ r.sample \in Samples /\ r.from \in Times /\ r.asked \in Times
                      /\ r.asked <= r.from
                      /\ r.version \in Nat \ {0} /\ r.version <= Cardinality(Done')
    BY DEF RowsTyped
  <2>1. CASE r \in splits
    BY <1>2, <2>1, DoneCounts DEF SplitsInv, RowsTyped
  <2>2. CASE r \in new
    BY <1>2, <1>3, <1>4, <2>2 DEF RequestTyped
  <2> QED
    BY <2>1, <2>2
<1>6. VersionsWhole'
  <2> SUFFICES ASSUME NEW r \in splits'
               PROVE  \E config \in Configs :
                          SplitOf(r.sample, r.version)' =
                          RowsOf(config, r.sample, r.version, r.from, r.asked)
    BY DEF VersionsWhole
  <2>1. CASE r \in splits
    <3>1. ~(r.sample = q.sample /\ r.version = next[c])
      <4>1. r.sample = q.sample => r.version < next[c]
        BY <1>1, <2>1 DEF CallersInv
      <4>2. r.version \in Nat
        BY <2>1 DEF SplitsInv, RowsTyped
      <4> QED
        BY <1>4, <4>1, <4>2
    <3>2. SplitOf(r.sample, r.version)' = SplitOf(r.sample, r.version)
      BY <3>1, NewRows
    <3> QED
      BY <2>1, <3>2 DEF SplitsInv, VersionsWhole
  <2>2. CASE r \in new
    BY <1>4, <2>2, NewRows DEF RequestTyped
  <2> QED
    BY <2>1, <2>2
<1>7. CallersInv'
  <2>1. \A d \in Callers : Asking(d)' => RequestTyped(d)'
    BY <1>2 DEF CallersInv, RequestTyped, Asking
  <2>2. \A d, e \in Callers : Locks(d)' /\ Locks(e)' /\ request'[d].sample = request'[e].sample
                              => d = e
    BY <1>2 DEF CallersInv, Locks
  <2>3. ASSUME NEW d \in Callers, cpc'[d] = "insert"
        PROVE  /\ next'[d] \in Nat \ {0} /\ next'[d] <= Cardinality(Done') + 1
               /\ \A r \in splits' : r.sample = request'[d].sample => r.version < next'[d]
    <3>1. d # c /\ cpc[d] = "insert" /\ next'[d] = next[d] /\ request'[d] = request[d]
      BY <1>2, <2>3
    <3>2. request[d].sample # q.sample
      BY <1>1, <3>1 DEF CallersInv, Locks
    <3>3. next[d] \in Nat \ {0} /\ next[d] <= Cardinality(Done) + 1
      BY <3>1 DEF CallersInv
    <3>4. next[d] <= Cardinality(Done') + 1
      BY <1>2, <3>3, DoneCounts
    <3>5. \A r \in splits : r.sample = request[d].sample => r.version < next[d]
      BY <3>1 DEF CallersInv
    <3>6. \A r \in splits' : r.sample = request[d].sample => r \in splits
      BY <1>3, <3>2
    <3> QED
      BY <3>1, <3>3, <3>4, <3>5, <3>6
  <2> QED
    BY <1>1, <1>2, <2>1, <2>2, <2>3 DEF CallersInv
<1> QED
  BY <1>5, <1>6, <1>7 DEF SplitsInv

LEMMA AbandonSteps ==
    ASSUME CallersInv, SplitsInv, NEW c \in Callers, AbandonVersion(c)
    PROVE  CallersInv' /\ SplitsInv'
<1>1. Answer(c) /\ now' = now /\ Asking(c) /\ splits' = splits
  BY DEF AbandonVersion, Asking, tables
<1>2. /\ Done' = Done \cup {c} /\ Cardinality(Done') = Cardinality(Done) + 1
      /\ next' \in [Callers -> Versions \cup {0}] /\ DOMAIN request' = Callers
      /\ cpc' \in [Callers -> {"start", "lock", "version", "insert", "done"}]
      /\ ~Asking(c)' /\ ~Locks(c)' /\ cpc'[c] = "done"
      /\ \A d \in Callers \ {c} :
             cpc'[d] = cpc[d] /\ request'[d] = request[d] /\ next'[d] = next[d]
  BY <1>1, AnswerSteps
<1>3. CallersInv'
  <2>1. \A d \in Callers : Asking(d)' => RequestTyped(d)'
    BY <1>2 DEF CallersInv, RequestTyped, Asking
  <2>2. \A d, e \in Callers : Locks(d)' /\ Locks(e)' /\ request'[d].sample = request'[e].sample
                              => d = e
    BY <1>2 DEF CallersInv, Locks
  <2>3. ASSUME NEW d \in Callers, cpc'[d] = "insert"
        PROVE  /\ next'[d] \in Nat \ {0} /\ next'[d] <= Cardinality(Done') + 1
               /\ \A r \in splits' : r.sample = request'[d].sample => r.version < next'[d]
    <3>1. d # c /\ cpc[d] = "insert" /\ next'[d] = next[d] /\ request'[d] = request[d]
      BY <1>2, <2>3
    <3>2. next[d] \in Nat \ {0} /\ next[d] <= Cardinality(Done) + 1
      BY <3>1 DEF CallersInv
    <3>3. next[d] <= Cardinality(Done') + 1
      BY <1>2, <3>2, DoneCounts
    <3> QED
      BY <1>1, <3>1, <3>2, <3>3 DEF CallersInv
  <2> QED
    BY <1>1, <1>2, <2>1, <2>2, <2>3 DEF CallersInv
<1>4. RowsTyped'
  <2> SUFFICES ASSUME NEW r \in splits
               PROVE  /\ r.sample \in Samples /\ r.from \in Times /\ r.asked \in Times
                      /\ r.asked <= r.from
                      /\ r.version \in Nat \ {0} /\ r.version <= Cardinality(Done')
    BY <1>1 DEF RowsTyped
  <2> QED
    BY <1>2, DoneCounts DEF SplitsInv, RowsTyped
<1> QED
  BY <1>1, <1>3, <1>4 DEF SplitsInv, VersionsWhole, SplitOf

\* What the workers and the world do leaves the versions alone.
LEMMA OthersLeaveVersions ==
    ASSUME CallersInv, SplitsInv, UNCHANGED <<splits, callers>>, now' \in Times
    PROVE  CallersInv' /\ SplitsInv'
<1>1. Done' = Done
  BY DEF Done, callers
<1> QED
  BY <1>1 DEF CallersInv, SplitsInv, RowsTyped, VersionsWhole, SplitOf, RequestTyped, Asking,
              Locks, callers

LEMMA VersionsInit ==
    ASSUME Init
    PROVE  CallersInv /\ SplitsInv
BY BoundsAssumption
   DEF Init, CallersInv, SplitsInv, RowsTyped, VersionsWhole, Asking, Locks, Times

LEMMA VersionsStep ==
    ASSUME CallersInv, SplitsInv, [Next]_vars
    PROVE  CallersInv' /\ SplitsInv'
<1>1. ASSUME NEW c \in Callers, Split(c)
      PROVE  CallersInv' /\ SplitsInv'
  BY <1>1, CallerSteps, CommitSteps, AbandonSteps DEF Split
<1>2. CASE \E w \in Workers : Reconcile(w) \/ EventError(w) \/ Crash(w)
  <2>1. UNCHANGED <<splits, callers, now>>
    BY <1>2 DEF Reconcile, SelectPending, ResolveVersion, ComputeShares, InsertPayout,
                CommitPayout, EndPass, EventError, Crash, tables
  <2> QED
    BY <2>1, OthersLeaveVersions DEF CallersInv
<1>3. CASE World
  <2>1. UNCHANGED <<splits, callers>> /\ now' \in Times
    <3>1. CASE Tick
      BY <3>1, BoundsAssumption DEF Tick, tables, CallersInv, Times
    <3>2. CASE Index \/ \E s \in Samples : PostMetadata(s) \/ \E p \in BOOLEAN : Sell(s, p)
      BY <3>2 DEF Index, PostMetadata, Sell, tables, CallersInv
    <3> QED
      BY <1>3, <3>1, <3>2 DEF World
  <2> QED
    BY <2>1, OthersLeaveVersions
<1>4. CASE UNCHANGED vars
  BY <1>4, OthersLeaveVersions DEF vars, tables, CallersInv
<1> QED
  BY <1>1, <1>2, <1>3, <1>4 DEF Next

\* However requests for one sample's split overlap, fail or wait, no version mixes the
\* recipients of two of them (createSplitVersion).
THEOREM VersionsAreWhole == Spec => []VersionsWhole
<1>1. Init => CallersInv /\ SplitsInv
  BY VersionsInit
<1>2. CallersInv /\ SplitsInv /\ [Next]_vars => CallersInv' /\ SplitsInv'
  BY VersionsStep
<1>3. SplitsInv => VersionsWhole
  BY DEF SplitsInv
<1> QED
  BY <1>1, <1>2, <1>3, PTL DEF Spec

(***************************************************************************)
(* The sales and the split each was sold under.                            *)
(***************************************************************************)

VersionIn(rows) == IF rows = {} THEN NoSplit ELSE (CHOOSE r \in rows : Newest(r, rows)).version

LEMMA EffectiveIsIn == \A s, time : EffectiveVersion(s, time) = VersionIn(EffectiveRows(s, time))
BY DEF EffectiveVersion, EffectiveRows, VersionIn, Newest

\* A version newer than all the others becomes effective or leaves the one that is.
LEMMA NewerOnlyAdds ==
    ASSUME NEW rows, NEW more, NEW n \in Nat, NEW m \in Nat,
           \A r \in rows \cup more : r.from \in 0..n /\ r.version \in 0..m,
           \A r \in rows, q \in more : r.version < q.version
    PROVE  VersionIn(rows \cup more) >= VersionIn(rows)
<1> DEFINE all == rows \cup more
           latest == CHOOSE r \in all : Newest(r, all)
           before == CHOOSE r \in rows : Newest(r, rows)
<1>1. CASE rows = {}
  <2>1. CASE all = {}
    BY <1>1, <2>1 DEF VersionIn, NoSplit
  <2>2. CASE all # {}
    <3>1. latest \in all
      BY <2>2, NewestExists
    <3>2. VersionIn(all) = latest.version /\ VersionIn(rows) = 0
      BY <1>1, <2>2 DEF VersionIn, NoSplit
    <3> QED
      BY <3>1, <3>2
  <2> QED
    BY <2>1, <2>2
<1>2. CASE rows # {}
  <2>1. latest \in all /\ Newest(latest, all)
    BY <1>2, NewestExists
  <2>2. before \in rows /\ Newest(before, rows)
    BY <1>2, NewestExists
  <2>3. VersionIn(all) = latest.version /\ VersionIn(rows) = before.version
    BY <1>2 DEF VersionIn
  <2> HIDE DEF latest, before
  <2>4. CASE latest \in more
    BY <2>2, <2>3, <2>4
  <2>5. CASE latest \in rows
    <3>1. before.from < latest.from
          \/ (before.from = latest.from /\ before.version <= latest.version)
      BY <2>1, <2>2 DEF Newest
    <3>2. latest.from < before.from
          \/ (latest.from = before.from /\ latest.version <= before.version)
      BY <2>2, <2>5 DEF Newest
    <3>3. before.from \in Nat /\ latest.from \in Nat /\ before.version \in Nat
          /\ latest.version \in Nat
      BY <2>2, <2>5
    <3> QED
      BY <2>3, <3>1, <3>2, <3>3
  <2> QED
    BY <2>1, <2>4, <2>5
<1> QED
  BY <1>1, <1>2

\* What was requested stays as it is, and what is effective at a time only gets newer.
LEMMA VersionsKept ==
    ASSUME CallersInv, SplitsInv, [Next]_vars
    PROVE  /\ \A s, v : SplitOf(s, v) # {} => SplitOf(s, v)' = SplitOf(s, v)
           /\ \A s, time : EffectiveVersion(s, time)' >= EffectiveVersion(s, time)
<1>1. ASSUME NEW c \in Callers, CommitVersion(c)
      PROVE  /\ \A s, v : SplitOf(s, v) # {} => SplitOf(s, v)' = SplitOf(s, v)
             /\ \A s, time : EffectiveVersion(s, time)' >= EffectiveVersion(s, time)
  <2>1. \A s, v : SplitOf(s, v) # {} => SplitOf(s, v)' = SplitOf(s, v)
    BY <1>1, NewRows
  <2>2. ASSUME NEW s, NEW time
        PROVE  EffectiveVersion(s, time)' >= EffectiveVersion(s, time)
    <3> DEFINE rows == EffectiveRows(s, time)
               more == {r \in splits' \ splits : r.sample = s /\ r.from <= time}
    <3>1. cpc[c] = "insert" /\ splits \subseteq splits'
      BY <1>1 DEF CommitVersion
    <3>2. \A r \in splits' \ splits : r.sample = request[c].sample /\ r.version = next[c]
      BY <1>1, NewRows
    <3>3. \A r \in rows, q \in more : r.version < q.version
      BY <3>1, <3>2 DEF EffectiveRows, CallersInv
    <3>4. RowsTyped' /\ RowsTyped
      BY <1>1, CommitSteps DEF SplitsInv
    <3>5. EffectiveRows(s, time)' = rows \cup more
      BY <3>1 DEF EffectiveRows
    <3>6. PICK m \in Nat : \A r \in splits' : r.version \in 0..m
      <4>1. Cardinality(Done') = Cardinality(Done) + 1 /\ Cardinality(Done) \in Nat
        BY <1>1, <3>1, AnswerSteps, DoneCounts DEF CommitVersion, Asking
      <4>2. Cardinality(Done') \in Nat
        BY <4>1
      <4>3. \A r \in splits' : r.version \in 0..Cardinality(Done')
        BY <3>4, <4>2 DEF RowsTyped
      <4> QED
        BY <4>2, <4>3
    <3>7. \A r \in splits' : r.from \in 0..MaxTime
      BY <3>4 DEF RowsTyped, Times
    <3>8. \A r \in rows \cup more : r \in splits'
      BY <3>1 DEF EffectiveRows
    <3>9. EffectiveVersion(s, time) = VersionIn(rows)
          /\ EffectiveVersion(s, time)' = VersionIn(rows \cup more)
      <4>1. EffectiveVersion(s, time)' = VersionIn(EffectiveRows(s, time)')
        BY DEF EffectiveVersion, EffectiveRows, VersionIn, Newest
      <4> QED
        BY <3>5, <4>1, EffectiveIsIn
    <3> HIDE DEF rows, more
    <3> QED
      BY <3>3, <3>6, <3>7, <3>8, <3>9, NewerOnlyAdds, BoundsAssumption
  <2> QED
    BY <2>1, <2>2
<1>2. CASE UNCHANGED splits
  <2>1. \A s, v : SplitOf(s, v)' = SplitOf(s, v)
    BY <1>2 DEF SplitOf
  <2>2. \A s, time : EffectiveVersion(s, time)' = EffectiveVersion(s, time)
    BY <1>2 DEF EffectiveVersion
  <2>3. \A s, time : EffectiveVersion(s, time) \in Nat
    BY EffectiveTyped DEF SplitsInv, Versions, NoSplit
  <2> QED
    BY <2>1, <2>2, <2>3
<1>3. CASE \E w \in Workers : Reconcile(w) \/ EventError(w) \/ Crash(w)
  BY <1>2, <1>3 DEF Reconcile, SelectPending, ResolveVersion, ComputeShares, InsertPayout,
                    CommitPayout, EndPass, EventError, Crash, tables
<1>4. CASE World
  BY <1>2, <1>4 DEF World, Tick, Index, PostMetadata, Sell, tables
<1>5. CASE UNCHANGED vars
  BY <1>2, <1>5 DEF vars, tables
<1>6. ASSUME NEW c \in Callers, Split(c), ~CommitVersion(c)
      PROVE  UNCHANGED splits
  BY <1>6 DEF Split, Configure, LockSample, NextVersion, AbandonVersion, tables
<1> QED
  BY <1>1, <1>2, <1>3, <1>4, <1>5, <1>6 DEF Next

SaleRecords == [sample : Samples, at : Times, payable : BOOLEAN, inForce : Versions \cup {NoSplit}]

ChainInv ==
    /\ chain \in Seq(SaleRecords) /\ Len(chain) <= MaxSales /\ indexed \in 0..Len(chain)
    /\ posted \subseteq Samples /\ failures \in 0..MaxFailures
    /\ \A e \in 1..Len(chain) : EffectiveVersion(chain[e].sample, chain[e].at) >= chain[e].inForce

\* Sales are appended; nothing about an earlier one changes.
LEMMA ChainGrows ==
    ASSUME ChainInv, CallersInv, [Next]_vars
    PROVE  /\ Len(chain') >= Len(chain) /\ Len(chain') \in Nat
           /\ \A e \in 1..Len(chain) : chain'[e] = chain[e]
           /\ indexed' >= indexed
<1>1. ASSUME NEW s \in Samples, NEW p \in BOOLEAN, Sell(s, p)
      PROVE  /\ Len(chain') >= Len(chain) /\ Len(chain') \in Nat
             /\ \A e \in 1..Len(chain) : chain'[e] = chain[e]
             /\ indexed' >= indexed
  BY <1>1 DEF Sell, ChainInv
<1>2. CASE UNCHANGED chain /\ indexed' >= indexed
  BY <1>2 DEF ChainInv
<1>3. CASE Index
  BY <1>2, <1>3 DEF Index, ChainInv
<1>4. CASE Tick \/ \E s \in Samples : PostMetadata(s)
  BY <1>2, <1>4 DEF Tick, PostMetadata, ChainInv
<1>5. CASE \E w \in Workers : Reconcile(w) \/ EventError(w) \/ Crash(w)
  BY <1>2, <1>5 DEF Reconcile, SelectPending, ResolveVersion, ComputeShares, InsertPayout,
                    CommitPayout, EndPass, EventError, Crash, ChainInv
<1>6. CASE \E c \in Callers : Split(c)
  BY <1>2, <1>6 DEF Split, Configure, LockSample, NextVersion, CommitVersion, AbandonVersion,
                    ChainInv
<1>7. CASE UNCHANGED vars
  BY <1>2, <1>7 DEF vars, ChainInv
<1> QED
  BY <1>1, <1>3, <1>4, <1>5, <1>6, <1>7 DEF Next, World

LEMMA ChainStep ==
    ASSUME ChainInv, CallersInv, SplitsInv, [Next]_vars
    PROVE  ChainInv'
<1>1. ASSUME chain' \in Seq(SaleRecords), Len(chain') <= MaxSales, indexed' \in 0..Len(chain'),
             posted' \subseteq Samples, failures' \in 0..MaxFailures,
             \A e \in 1..Len(chain') : e > Len(chain) =>
                 EffectiveVersion(chain'[e].sample, chain'[e].at) >= chain'[e].inForce
      PROVE  ChainInv'
  <2> SUFFICES ASSUME NEW e \in 1..Len(chain')
               PROVE  EffectiveVersion(chain[e].sample, chain[e].at)' >= chain'[e].inForce
    BY <1>1 DEF ChainInv
  <2>1. PICK x : x = chain'[e]
    OBVIOUS
  <2>2. EffectiveVersion(x.sample, x.at) >= x.inForce
    <3>1. CASE e > Len(chain)
      BY <1>1, <2>1, <3>1
    <3>2. CASE e \in 1..Len(chain)
      BY <2>1, <3>2, ChainGrows DEF ChainInv
    <3> QED
      BY <3>1, <3>2 DEF ChainInv
  <2>3. EffectiveVersion(x.sample, x.at)' >= EffectiveVersion(x.sample, x.at)
    BY VersionsKept
  <2>4. x.inForce \in Nat
    <3>1. x \in SaleRecords
      BY <1>1, <2>1
    <3> QED
      BY <3>1 DEF SaleRecords, Versions, NoSplit
  <2>5. EffectiveVersion(x.sample, x.at) \in Nat
    BY EffectiveTyped DEF SplitsInv, Versions, NoSplit
  <2>6. EffectiveVersion(x.sample, x.at)' \in Nat
    <3>1. CallersInv' /\ SplitsInv'
      BY VersionsStep
    <3>2. Cardinality(Done') \in Nat
      <4>1. Done' \in SUBSET Callers /\ IsFiniteSet(Callers)
        BY BoundsAssumption DEF Done
      <4> QED
        BY <4>1, FS_Subset, FS_CardinalityType
    <3> DEFINE rows == {r \in splits' : r.sample = x.sample /\ r.from <= x.at}
    <3>3. \A r \in rows : r.from \in 0..MaxTime /\ r.version \in 0..Cardinality(Done')
      BY <3>1, <3>2 DEF SplitsInv, RowsTyped, Times
    <3>4. EffectiveVersion(x.sample, x.at)' = VersionIn(rows)
      BY DEF EffectiveVersion, VersionIn, Newest
    <3> HIDE DEF rows
    <3>5. CASE rows = {}
      BY <3>4, <3>5 DEF VersionIn, NoSplit
    <3>6. CASE rows # {}
      <4>1. (CHOOSE r \in rows : Newest(r, rows)) \in rows
        BY <3>2, <3>3, <3>6, BoundsAssumption, NewestExists
      <4> QED
        BY <3>2, <3>3, <3>4, <3>6, <4>1 DEF VersionIn
    <3> QED
      BY <3>5, <3>6
  <2>7. EffectiveVersion(x.sample, x.at)' >= x.inForce
    BY <2>2, <2>3, <2>4, <2>5, <2>6
  <2>8. EffectiveVersion(chain[e].sample, chain[e].at)' = EffectiveVersion(x.sample, x.at)'
    BY <2>1 DEF EffectiveVersion
  <2> QED
    BY <2>1, <2>7, <2>8
<1>2. CASE UNCHANGED <<chain, indexed, posted>> /\ failures' \in 0..MaxFailures
  BY <1>1, <1>2 DEF ChainInv
<1>3. ASSUME NEW s \in Samples, NEW p \in BOOLEAN, Sell(s, p)
      PROVE  ChainInv'
  <2> DEFINE sale == [sample |-> s, at |-> now, payable |-> p, inForce |-> EffectiveVersion(s, now)]
  <2>1. /\ Len(chain) < MaxSales /\ chain' = Append(chain, sale)
        /\ UNCHANGED <<indexed, posted, failures>>
    BY <1>3 DEF Sell
  <2>2. sale \in SaleRecords /\ sale.sample = s /\ sale.at = now
        /\ sale.inForce = EffectiveVersion(s, now) /\ EffectiveVersion(s, now) \in Nat
    BY EffectiveTyped DEF SaleRecords, CallersInv, SplitsInv, Versions, NoSplit
  <2> HIDE DEF sale
  <2>3. chain' \in Seq(SaleRecords) /\ Len(chain') = Len(chain) + 1
        /\ chain'[Len(chain) + 1] = sale
    BY <2>1, <2>2 DEF ChainInv
  <2>4. \A e \in 1..Len(chain') : e > Len(chain) => chain'[e] = sale
    BY <2>3 DEF ChainInv
  <2>5. \A e \in 1..Len(chain') : e > Len(chain) =>
            EffectiveVersion(chain'[e].sample, chain'[e].at) >= chain'[e].inForce
    BY <2>2, <2>4
  <2>6. Len(chain') <= MaxSales /\ indexed' \in 0..Len(chain')
    BY <2>1, <2>3, BoundsAssumption DEF ChainInv
  <2> QED
    BY <1>1, <2>1, <2>3, <2>5, <2>6 DEF ChainInv
<1>4. CASE Index
  <2>1. indexed' \in 0..Len(chain) /\ UNCHANGED <<chain, posted, failures>>
    BY <1>4 DEF Index, ChainInv
  <2> QED
    BY <1>1, <2>1 DEF ChainInv
<1>5. ASSUME NEW s \in Samples, PostMetadata(s)
      PROVE  ChainInv'
  BY <1>1, <1>5 DEF PostMetadata, ChainInv
<1>6. CASE \E w \in Workers : Reconcile(w) \/ EventError(w) \/ Crash(w)
  <2>1. CASE \E w \in Workers : Reconcile(w)
    BY <1>2, <2>1 DEF Reconcile, SelectPending, ResolveVersion, ComputeShares, InsertPayout,
                      CommitPayout, EndPass, ChainInv
  <2>2. CASE \E w \in Workers : EventError(w) \/ Crash(w)
    <3>1. failures < MaxFailures /\ failures' = failures + 1
          /\ UNCHANGED <<chain, indexed, posted>>
      BY <2>2 DEF EventError, Crash
    <3> QED
      BY <1>2, <3>1, BoundsAssumption DEF ChainInv
  <2> QED
    BY <1>6, <2>1, <2>2
<1>7. CASE \E c \in Callers : Split(c)
  <2>1. CASE \E c \in Callers : AbandonVersion(c)
    <3>1. failures < MaxFailures /\ failures' = failures + 1
          /\ UNCHANGED <<chain, indexed, posted>>
      BY <2>1 DEF AbandonVersion
    <3> QED
      BY <1>2, <3>1, BoundsAssumption DEF ChainInv
  <2>2. CASE ~\E c \in Callers : AbandonVersion(c)
    BY <1>2, <1>7, <2>2 DEF Split, Configure, LockSample, NextVersion, CommitVersion, ChainInv
  <2> QED
    BY <2>1, <2>2
<1>8. CASE Tick \/ UNCHANGED vars
  BY <1>2, <1>8 DEF Tick, vars, ChainInv
<1> QED
  BY <1>3, <1>4, <1>5, <1>6, <1>7, <1>8 DEF Next, World

(***************************************************************************)
(* Workers and payouts.                                                    *)
(***************************************************************************)

SharesOf(e, v) == SharesIn(SplitOf(chain[e].sample, v))

\* The version v may pay sale e.
Fits(e, v) ==
    /\ e \in 1..Len(chain) /\ v \in Versions /\ v >= chain[e].inForce
    /\ SplitOf(chain[e].sample, v) # {}
    /\ \A r \in SplitOf(chain[e].sample, v) : r.asked <= r.from /\ r.from <= chain[e].at

\* What worker w knows of the sale it is at.
WorkInv(w) ==
    /\ pc[w] \in {"recipients", "payout", "lines"} => batch[w] # {} /\ Fits(Sale(w), version[w])
    /\ pc[w] \in {"payout", "lines"} => shares[w] = SharesOf(Sale(w), version[w])
    /\ pc[w] = "lines" => ~HasPayout(Sale(w))

WorkersInv ==
    /\ pc \in [Workers -> {"idle", "resolve", "recipients", "payout", "lines"}]
    /\ batch \in [Workers -> SUBSET (1..indexed)]
    /\ version \in [Workers -> Versions \cup {NoSplit}]
    /\ shares \in [Workers -> SUBSET AllShares]
    /\ \A w \in Workers : WorkInv(w)
    /\ \A v, w \in Workers : pc[v] = "lines" /\ pc[w] = "lines" /\ Sale(v) = Sale(w) => v = w

PaidInv ==
    /\ \A p \in payouts : p = [sale |-> p.sale, version |-> p.version] /\ Fits(p.sale, p.version)
                          /\ LinesOf(p.sale) = SharesOf(p.sale, p.version)
    /\ \A p, q \in payouts : p.sale = q.sale => p = q
    /\ \A i \in lineItems : HasPayout(i.sale)
    /\ lineItems \subseteq [sale : SaleIds, share : AllShares]

LEMMA SharesTyped ==
    ASSUME SplitsInv, NEW e, NEW v
    PROVE  SharesOf(e, v) \in SUBSET AllShares
<1> SUFFICES ASSUME NEW r \in SplitOf(chain[e].sample, v)
             PROVE  [recipient |-> r.recipient, basisPoints |-> r.basisPoints] \in AllShares
  BY DEF SharesOf, SharesIn
<1>1. r \in splits /\ r \in SplitOf(r.sample, r.version)
  BY DEF SplitOf
<1>2. PICK config \in Configs :
          SplitOf(r.sample, r.version) = RowsOf(config, r.sample, r.version, r.from, r.asked)
  BY <1>1 DEF SplitsInv, VersionsWhole
<1>3. PICK x \in DOMAIN config : r.recipient = x /\ r.basisPoints = config[x]
  BY <1>1, <1>2 DEF RowsOf
<1>4. [recipient |-> r.recipient, basisPoints |-> r.basisPoints] \in Shares(config)
  BY <1>3 DEF Shares
<1> QED
  BY <1>4 DEF AllShares

\* What is decided of a sale stays so, whatever else happens.
LEMMA FitsKept ==
    ASSUME ChainInv, CallersInv, SplitsInv, [Next]_vars, NEW e, NEW v, Fits(e, v)
    PROVE  Fits(e, v)' /\ SharesOf(e, v)' = SharesOf(e, v)
<1>1. e \in 1..Len(chain) /\ e \in 1..Len(chain') /\ chain'[e] = chain[e]
  BY ChainGrows DEF Fits, ChainInv
<1>2. PICK s : s = chain[e].sample
  OBVIOUS
<1>3. SplitOf(s, v)' = SplitOf(s, v)
  BY <1>2, VersionsKept DEF Fits
<1>4. SplitOf(chain[e].sample, v)' = SplitOf(s, v)' /\ SplitOf(chain[e].sample, v) = SplitOf(s, v)
  BY <1>1, <1>2 DEF SplitOf
<1> QED
  BY <1>1, <1>3, <1>4 DEF Fits, SharesOf

LEMMA SaleIsOfBatch ==
    ASSUME WorkersInv, ChainInv, NEW w \in Workers, batch[w] # {}
    PROVE  Sale(w) \in batch[w] /\ Sale(w) \in 1..indexed /\ Sale(w) \in 1..Len(chain)
<1>1. batch[w] \in SUBSET (1..indexed) /\ indexed \in 0..Len(chain)
  BY DEF WorkersInv, ChainInv
<1>2. batch[w] \in SUBSET Nat
  BY <1>1
<1>3. Sale(w) \in batch[w]
  BY <1>2, MinExists DEF Sale
<1> QED
  BY <1>1, <1>3 DEF ChainInv

\* Nothing of a worker and no payment: what was known is still so.
LEMMA OthersKeep ==
    ASSUME ChainInv, CallersInv, SplitsInv, WorkersInv, PaidInv, [Next]_vars,
           UNCHANGED <<workers, payouts, lineItems>>
    PROVE  WorkersInv' /\ PaidInv'
<1>1. UNCHANGED <<pc, batch, version, shares>> /\ indexed' >= indexed
      /\ indexed \in Nat /\ indexed' \in Nat
  BY ChainGrows, ChainStep DEF workers, ChainInv
<1>2. \A w : Sale(w)' = Sale(w)
  BY <1>1 DEF Sale
<1>3. \A e : HasPayout(e)' = HasPayout(e) /\ LinesOf(e)' = LinesOf(e)
  BY DEF HasPayout, LinesOf
<1>4. ASSUME NEW w \in Workers
      PROVE  WorkInv(w)'
  <2>1. pc[w] \in {"recipients", "payout", "lines"} =>
            /\ batch[w] # {} /\ Fits(Sale(w), version[w])
            /\ \A e, v : Fits(e, v) => Fits(e, v)' /\ SharesOf(e, v)' = SharesOf(e, v)
    BY FitsKept DEF WorkersInv, WorkInv
  <2>2. PICK e, v : e = Sale(w) /\ v = version[w]
    OBVIOUS
  <2>3. /\ Fits(Sale(w), version[w])' = Fits(e, v)'
        /\ SharesOf(Sale(w), version[w])' = SharesOf(e, v)'
    BY <1>1, <1>2, <2>2 DEF Fits, SharesOf, SplitOf
  <2> QED
    BY <1>1, <1>2, <1>3, <2>1, <2>2, <2>3 DEF WorkersInv, WorkInv, HasPayout
<1>5. WorkersInv'
  BY <1>1, <1>2, <1>4 DEF WorkersInv
<1>6. \A p \in payouts : Fits(p.sale, p.version)'
                         /\ SharesOf(p.sale, p.version)' = SharesOf(p.sale, p.version)
  BY FitsKept DEF PaidInv
<1> QED
  BY <1>3, <1>5, <1>6 DEF PaidInv

\* A worker's own step leaves everything that the payment of a sale rests on.
LEMMA WorkersLeaveSales ==
    ASSUME UNCHANGED <<chain, splits>>
    PROVE  \A e, v : Fits(e, v)' = Fits(e, v) /\ SharesOf(e, v)' = SharesOf(e, v)
BY DEF Fits, SharesOf, SplitOf

\* Worker w starts, ends or goes on in a pass and pays nobody.
LEMMA FreeStep ==
    ASSUME WorkersInv, PaidInv, NEW w \in Workers,
           UNCHANGED <<chain, indexed, splits, payouts, lineItems>>,
           pc' = [pc EXCEPT ![w] = pc'[w]], pc'[w] \in {"idle", "resolve"},
           batch' = [batch EXCEPT ![w] = batch'[w]], batch'[w] \in SUBSET (1..indexed),
           version' = [version EXCEPT ![w] = version'[w]],
           version'[w] \in Versions \cup {NoSplit},
           shares' = [shares EXCEPT ![w] = shares'[w]], shares'[w] \in SUBSET AllShares
    PROVE  WorkersInv' /\ PaidInv'
<1>1. \A e, v : Fits(e, v)' = Fits(e, v) /\ SharesOf(e, v)' = SharesOf(e, v)
  BY WorkersLeaveSales
<1>2. \A e : HasPayout(e)' = HasPayout(e) /\ LinesOf(e)' = LinesOf(e)
  BY DEF HasPayout, LinesOf
<1>3. PaidInv'
  BY <1>1, <1>2 DEF PaidInv
<1>4. \A u \in Workers \ {w} : /\ pc'[u] = pc[u] /\ batch'[u] = batch[u]
                               /\ version'[u] = version[u] /\ shares'[u] = shares[u]
  BY DEF WorkersInv
<1>5. \A u \in Workers \ {w} : Sale(u)' = Sale(u)
  BY <1>4 DEF Sale
<1>6. ASSUME NEW u \in Workers \ {w}
      PROVE  WorkInv(u)'
  <2>1. PICK e, v : e = Sale(u) /\ v = version[u]
    OBVIOUS
  <2>2. Fits(Sale(u), version[u])' = Fits(e, v)' /\ SharesOf(Sale(u), version[u])' = SharesOf(e, v)'
    <3>1. Sale(u)' = e /\ version'[u] = v
      BY <1>4, <1>5, <2>1
    <3>2. Fits(Sale(u), version[u])' = Fits(e, v)'
      BY <3>1 DEF Fits, SplitOf
    <3>3. SharesOf(Sale(u), version[u])' = SharesOf(e, v)'
      BY <3>1 DEF SharesOf, SplitOf
    <3> QED
      BY <3>2, <3>3
  <2> QED
    BY <1>1, <1>2, <1>4, <1>5, <2>1, <2>2 DEF WorkersInv, WorkInv, HasPayout
<1>7. WorkInv(w)'
  BY DEF WorkInv
<1> QED
  BY <1>3, <1>4, <1>5, <1>6, <1>7 DEF WorkersInv

\* GoOnWith, with a rest of the batch.
LEMMA GoesOn ==
    ASSUME WorkersInv, PaidInv, NEW w \in Workers, NEW rest \in SUBSET (1..indexed),
           GoOnWith(w, rest), UNCHANGED <<chain, indexed, splits, payouts, lineItems>>
    PROVE  WorkersInv' /\ PaidInv'
<1>1. /\ pc' = [pc EXCEPT ![w] = "resolve"] /\ batch' = [batch EXCEPT ![w] = rest]
      /\ version' = [version EXCEPT ![w] = NoSplit] /\ shares' = [shares EXCEPT ![w] = {}]
  BY DEF GoOnWith
<1>2. /\ pc'[w] = "resolve" /\ batch'[w] = rest /\ version'[w] = NoSplit /\ shares'[w] = {}
  BY <1>1 DEF WorkersInv
<1> QED
  BY <1>1, <1>2, FreeStep

LEMMA SkipSteps ==
    ASSUME WorkersInv, PaidInv, NEW w \in Workers, NextEvent(w),
           UNCHANGED <<chain, indexed, splits, payouts, lineItems>>
    PROVE  WorkersInv' /\ PaidInv'
<1>1. batch[w] \ {Sale(w)} \in SUBSET (1..indexed)
  BY DEF WorkersInv
<1> QED
  BY <1>1, GoesOn DEF NextEvent

\* The steps of w that move only its own pc, version and shares, past a sale it stays at.
LEMMA StaysAt ==
    ASSUME WorkersInv, PaidInv, ChainInv, NEW w \in Workers, batch[w] # {},
           UNCHANGED <<chain, indexed, splits, payouts, lineItems, batch>>,
           pc' = [pc EXCEPT ![w] = pc'[w]], pc'[w] \in {"recipients", "payout", "lines"},
           version' = [version EXCEPT ![w] = version'[w]], version'[w] \in Versions,
           shares' = [shares EXCEPT ![w] = shares'[w]], shares'[w] \in SUBSET AllShares,
           Fits(Sale(w), version'[w]),
           pc'[w] # "recipients" => shares'[w] = SharesOf(Sale(w), version'[w]),
           pc'[w] = "lines" => ~HasPayout(Sale(w)) /\ ~KeyHeld(w)
    PROVE  WorkersInv' /\ PaidInv'
<1>1. \A e, v : Fits(e, v)' = Fits(e, v) /\ SharesOf(e, v)' = SharesOf(e, v)
  BY WorkersLeaveSales
<1>2. \A e : HasPayout(e)' = HasPayout(e) /\ LinesOf(e)' = LinesOf(e)
  BY DEF HasPayout, LinesOf
<1>3. PaidInv'
  BY <1>1, <1>2 DEF PaidInv
<1>4. \A u \in Workers \ {w} : /\ pc'[u] = pc[u] /\ version'[u] = version[u]
                               /\ shares'[u] = shares[u]
  BY DEF WorkersInv
<1>5. \A u : Sale(u)' = Sale(u)
  BY DEF Sale
<1>6. \A u \in Workers : Fits(Sale(u), version'[u]) => Fits(Sale(u), version[u])'
  <2> SUFFICES ASSUME NEW u \in Workers, Fits(Sale(u), version'[u])
               PROVE  Fits(Sale(u), version[u])'
    OBVIOUS
  <2> QED
    BY <1>5 DEF Fits, SplitOf
<1>7. \A u \in Workers : SharesOf(Sale(u), version[u])' = SharesOf(Sale(u), version'[u])
  BY <1>5 DEF SharesOf, SplitOf
<1>8. ASSUME NEW u \in Workers \ {w}
      PROVE  WorkInv(u)'
  BY <1>2, <1>4, <1>5, <1>6, <1>7 DEF WorkersInv, WorkInv, HasPayout
<1>9. WorkInv(w)'
  BY <1>2, <1>5, <1>6, <1>7 DEF WorkInv, HasPayout
<1>10. \A u, v \in Workers : pc'[u] = "lines" /\ pc'[v] = "lines" /\ Sale(u) = Sale(v) => u = v
  BY <1>4 DEF WorkersInv, KeyHeld
<1> QED
  BY <1>3, <1>4, <1>5, <1>8, <1>9, <1>10 DEF WorkersInv

\* getEffectiveSplit: the version in force when the sale closed fits the sale.
LEMMA EffectiveFits ==
    ASSUME ChainInv, SplitsInv, NEW e \in 1..Len(chain),
           EffectiveVersion(chain[e].sample, chain[e].at) # NoSplit
    PROVE  Fits(e, EffectiveVersion(chain[e].sample, chain[e].at))
<1> DEFINE s == chain[e].sample
           t == chain[e].at
           v == EffectiveVersion(s, t)
<1>1. EffectiveRows(s, t) # {}
  BY EffectiveIsNone
<1>2. PICK r \in EffectiveRows(s, t) : v = r.version
  BY <1>1, EffectiveIsNewest DEF SplitsInv
<1>3. r \in splits /\ r.sample = s /\ r.from <= t /\ r \in SplitOf(s, v)
  BY <1>2 DEF EffectiveRows, SplitOf
<1>4. PICK config \in Configs : SplitOf(s, v) = RowsOf(config, r.sample, r.version, r.from, r.asked)
  BY <1>2, <1>3 DEF SplitsInv, VersionsWhole
<1>5. \A q \in SplitOf(s, v) : q.from = r.from /\ q.asked = r.asked
  BY <1>4 DEF RowsOf
<1>6. r.asked <= r.from
  BY <1>3 DEF SplitsInv, RowsTyped
<1>7. v \in Versions
  BY EffectiveTyped DEF SplitsInv, Versions, NoSplit
<1>8. v >= chain[e].inForce
  BY DEF ChainInv
<1> QED
  BY <1>3, <1>5, <1>6, <1>7, <1>8 DEF Fits

LEMMA ResolveSteps ==
    ASSUME WorkersInv, PaidInv, ChainInv, SplitsInv, NEW w \in Workers, ResolveVersion(w)
    PROVE  WorkersInv' /\ PaidInv'
<1> DEFINE e == Sale(w)
           found == EffectiveVersion(chain[e].sample, ResolveTime(e))
<1>1. UNCHANGED <<chain, indexed, splits, payouts, lineItems>> /\ batch[w] # {}
  BY DEF ResolveVersion, tables
<1>2. CASE chain[e].sample \notin posted \/ found = NoSplit
  <2>1. NextEvent(w)
    BY <1>2 DEF ResolveVersion, Skip
  <2> QED
    BY <1>1, <2>1, SkipSteps
<1>3. CASE ~(chain[e].sample \notin posted \/ found = NoSplit)
  <2>1. /\ version' = [version EXCEPT ![w] = found] /\ pc' = [pc EXCEPT ![w] = "recipients"]
        /\ UNCHANGED <<batch, shares>>
    BY <1>3 DEF ResolveVersion
  <2>2. e \in 1..Len(chain)
    BY <1>1, SaleIsOfBatch
  <2>3. found = EffectiveVersion(chain[e].sample, chain[e].at)
    BY DEF ResolveTime
  <2>4. Fits(e, found)
    BY <1>3, <2>2, <2>3, EffectiveFits
  <2>5. found \in Versions
    BY <2>4 DEF Fits
  <2> HIDE DEF found
  <2>6. /\ version'[w] = found /\ pc'[w] = "recipients"
        /\ shares' = [shares EXCEPT ![w] = shares'[w]] /\ shares'[w] \in SUBSET AllShares
    BY <2>1 DEF WorkersInv
  <2> QED
    BY <1>1, <2>1, <2>4, <2>5, <2>6, StaysAt
<1> QED
  BY <1>2, <1>3

LEMMA ComputeSteps ==
    ASSUME WorkersInv, PaidInv, ChainInv, SplitsInv, NEW w \in Workers, ComputeShares(w)
    PROVE  WorkersInv' /\ PaidInv'
<1> DEFINE e == Sale(w)
<1>1. UNCHANGED <<chain, indexed, splits, payouts, lineItems>> /\ pc[w] = "recipients"
  BY DEF ComputeShares, tables
<1>2. CASE ~chain[e].payable
  <2>1. NextEvent(w)
    BY <1>2 DEF ComputeShares, Skip
  <2> QED
    BY <1>1, <2>1, SkipSteps
<1>3. CASE chain[e].payable
  <2>1. /\ shares' = [shares EXCEPT ![w] = SharesOf(e, version[w])]
        /\ pc' = [pc EXCEPT ![w] = "payout"] /\ UNCHANGED <<batch, version>>
    BY <1>3 DEF ComputeShares, Recipients, SharesOf
  <2>2. batch[w] # {} /\ Fits(e, version[w])
    BY <1>1 DEF WorkersInv, WorkInv
  <2>3. /\ shares'[w] = SharesOf(e, version[w]) /\ pc'[w] = "payout" /\ version'[w] = version[w]
        /\ version' = [version EXCEPT ![w] = version'[w]]
    BY <2>1 DEF WorkersInv
  <2>4. SharesOf(e, version[w]) \in SUBSET AllShares /\ version[w] \in Versions
    BY <2>2, SharesTyped DEF Fits
  <2> QED
    BY <1>1, <2>1, <2>2, <2>3, <2>4, StaysAt
<1> QED
  BY <1>2, <1>3

LEMMA InsertSteps ==
    ASSUME WorkersInv, PaidInv, ChainInv, SplitsInv, NEW w \in Workers, InsertPayout(w)
    PROVE  WorkersInv' /\ PaidInv'
<1> DEFINE e == Sale(w)
<1>1. UNCHANGED <<chain, indexed, splits, payouts, lineItems>> /\ pc[w] = "payout" /\ ~KeyHeld(w)
  BY DEF InsertPayout, tables
<1>2. CASE HasPayout(e)
  <2>1. NextEvent(w)
    BY <1>2 DEF InsertPayout, Won
  <2> QED
    BY <1>1, <2>1, SkipSteps
<1>3. CASE ~HasPayout(e)
  <2>1. pc' = [pc EXCEPT ![w] = "lines"] /\ UNCHANGED <<batch, version, shares>>
    BY <1>3 DEF InsertPayout, Won
  <2>2. batch[w] # {} /\ Fits(e, version[w]) /\ shares[w] = SharesOf(e, version[w])
    BY <1>1 DEF WorkersInv, WorkInv
  <2>3. /\ shares'[w] = shares[w] /\ pc'[w] = "lines" /\ version'[w] = version[w]
        /\ version' = [version EXCEPT ![w] = version'[w]]
        /\ shares' = [shares EXCEPT ![w] = shares'[w]]
    BY <2>1 DEF WorkersInv
  <2>4. shares[w] \in SUBSET AllShares /\ version[w] \in Versions
    BY <2>2 DEF Fits, WorkersInv
  <2> QED
    BY <1>1, <1>3, <2>1, <2>2, <2>3, <2>4, StaysAt
<1> QED
  BY <1>2, <1>3

\* The payout and its line items appear together, for a sale that had neither.
LEMMA PayEffect ==
    ASSUME WorkersInv, PaidInv, NEW w \in Workers, CommitPayout(w)
    PROVE  \E e, v :
               /\ e = Sale(w) /\ v = version[w] /\ Fits(e, v) /\ ~HasPayout(e)
               /\ \A p \in payouts : p.sale # e
               /\ payouts' = payouts \cup {[sale |-> e, version |-> v]}
               /\ lineItems' = lineItems \cup {[sale |-> e, share |-> x] : x \in shares[w]}
               /\ LinesOf(e)' = SharesOf(e, v)
               /\ \A f : f # e => LinesOf(f)' = LinesOf(f)
               /\ \A f : HasPayout(f)' <=> (HasPayout(f) \/ f = e)
<1>1. PICK e, v : e = Sale(w) /\ v = version[w]
  OBVIOUS
<1> DEFINE paid == [sale |-> e, version |-> v]
           items == {[sale |-> e, share |-> x] : x \in shares[w]}
<1>2. /\ pc[w] = "lines" /\ NextEvent(w) /\ UNCHANGED <<chain, indexed, splits>>
      /\ payouts' = payouts \cup {paid} /\ lineItems' = lineItems \cup items
  BY <1>1 DEF CommitPayout
<1>3. /\ batch[w] # {} /\ Fits(e, v) /\ shares[w] = SharesOf(e, v) /\ ~HasPayout(e)
      /\ shares[w] \in SUBSET AllShares
  BY <1>1, <1>2 DEF WorkersInv, WorkInv
<1>4. \A f, u : Fits(f, u)' = Fits(f, u) /\ SharesOf(f, u)' = SharesOf(f, u)
  BY <1>2, WorkersLeaveSales
<1>5. \A f : HasPayout(f)' <=> (HasPayout(f) \/ f = e)
  <2>1. paid.sale = e
    OBVIOUS
  <2> HIDE DEF paid, items
  <2> QED
    BY <1>2, <2>1 DEF HasPayout
<1>6. \A p \in payouts : p.sale # e
  BY <1>3 DEF HasPayout
<1>7. \A i \in lineItems : i.sale # e
  BY <1>3 DEF PaidInv
<1>8. LinesOf(e)' = SharesOf(e, v)
  <2>1. \A i \in items : i.sale = e /\ i.share \in shares[w]
    OBVIOUS
  <2>2. \A x \in shares[w] : [sale |-> e, share |-> x] \in items
    OBVIOUS
  <2>3. \A x \in shares[w] : \E i \in items : i.share = x
    BY <2>2
  <2> HIDE DEF items
  <2>4. LinesOf(e)' = {i.share : i \in {j \in lineItems \cup items : j.sale = e}}
    BY <1>2 DEF LinesOf
  <2>5. {j \in lineItems \cup items : j.sale = e} = items
    BY <1>7, <2>1
  <2>6. LinesOf(e)' = {i.share : i \in items}
    BY <2>4, <2>5
  <2> QED
    BY <1>3, <2>1, <2>3, <2>6
<1>9. ASSUME NEW f, f # e
      PROVE  LinesOf(f)' = LinesOf(f)
  <2>1. \A i \in items : i.sale = e
    OBVIOUS
  <2> HIDE DEF items
  <2>2. {j \in lineItems' : j.sale = f} = {j \in lineItems : j.sale = f}
    BY <1>2, <1>9, <2>1
  <2> QED
    BY <2>2 DEF LinesOf
<1> QED
  BY <1>1, <1>2, <1>3, <1>5, <1>6, <1>8, <1>9

LEMMA PaySteps ==
    ASSUME WorkersInv, PaidInv, ChainInv, SplitsInv, NEW w \in Workers, CommitPayout(w)
    PROVE  WorkersInv' /\ PaidInv'
<1>1. PICK e, v :
          /\ e = Sale(w) /\ v = version[w] /\ Fits(e, v) /\ ~HasPayout(e)
          /\ \A p \in payouts : p.sale # e
          /\ payouts' = payouts \cup {[sale |-> e, version |-> v]}
          /\ lineItems' = lineItems \cup {[sale |-> e, share |-> x] : x \in shares[w]}
          /\ LinesOf(e)' = SharesOf(e, v)
          /\ \A f : f # e => LinesOf(f)' = LinesOf(f)
          /\ \A f : HasPayout(f)' <=> (HasPayout(f) \/ f = e)
  BY PayEffect
<1> DEFINE paid == [sale |-> e, version |-> v]
           items == {[sale |-> e, share |-> x] : x \in shares[w]}
<1>2. /\ pc[w] = "lines" /\ NextEvent(w) /\ UNCHANGED <<chain, indexed, splits>>
      /\ payouts' = payouts \cup {paid} /\ lineItems' = lineItems \cup items
  BY <1>1 DEF CommitPayout
<1>3. shares[w] \in SUBSET AllShares
  BY DEF WorkersInv
<1>4. \A f, u : Fits(f, u)' = Fits(f, u) /\ SharesOf(f, u)' = SharesOf(f, u)
  BY <1>2, WorkersLeaveSales
<1>10. PaidInv'
  <2>1. e \in SaleIds
    <3>1. e \in 1..Len(chain) /\ Len(chain) <= MaxSales /\ Len(chain) \in Nat
      BY <1>1 DEF Fits, ChainInv
    <3> QED
      BY <3>1, BoundsAssumption DEF SaleIds
  <2>2. lineItems' \subseteq [sale : SaleIds, share : AllShares]
    BY <1>2, <1>3, <2>1 DEF PaidInv
  <2>3. \A i \in lineItems' : HasPayout(i.sale)'
    BY <1>1, <1>2 DEF PaidInv
  <2>4. \A p, q \in payouts' : p.sale = q.sale => p = q
    BY <1>1, <1>2 DEF PaidInv
  <2>5. ASSUME NEW p \in payouts'
        PROVE  p = [sale |-> p.sale, version |-> p.version] /\ Fits(p.sale, p.version)'
               /\ LinesOf(p.sale)' = SharesOf(p.sale, p.version)'
    <3>1. CASE p \in payouts
      BY <1>1, <1>4, <3>1 DEF PaidInv
    <3>2. CASE p = paid
      <4>1. p.sale = e /\ p.version = v
        BY <3>2
      <4> QED
        BY <1>1, <1>4, <3>2, <4>1
    <3> QED
      BY <1>2, <3>1, <3>2
  <2> QED
    BY <2>2, <2>3, <2>4, <2>5 DEF PaidInv
<1>11. /\ pc' = [pc EXCEPT ![w] = "resolve"] /\ batch' = [batch EXCEPT ![w] = batch[w] \ {Sale(w)}]
       /\ version' = [version EXCEPT ![w] = NoSplit] /\ shares' = [shares EXCEPT ![w] = {}]
  BY <1>2 DEF NextEvent, GoOnWith
<1>12. \A u \in Workers \ {w} : /\ pc'[u] = pc[u] /\ batch'[u] = batch[u]
                                /\ version'[u] = version[u] /\ shares'[u] = shares[u]
  BY <1>11 DEF WorkersInv
<1>13. \A u \in Workers \ {w} : Sale(u)' = Sale(u)
  BY <1>12 DEF Sale
<1>14. ASSUME NEW u \in Workers \ {w}
       PROVE  WorkInv(u)'
  <2>1. PICK f, x : f = Sale(u) /\ x = version[u]
    OBVIOUS
  <2>2. Fits(Sale(u), version[u])' = Fits(f, x)' /\ SharesOf(Sale(u), version[u])' = SharesOf(f, x)'
    BY <1>12, <1>13, <2>1 DEF Fits, SharesOf, SplitOf
  <2>3. pc[u] = "lines" => f # e
    BY <1>1, <1>2, <2>1 DEF WorkersInv
  <2>4. HasPayout(Sale(u))' <=> HasPayout(f)'
    BY <1>13, <2>1 DEF HasPayout
  <2> QED
    BY <1>1, <1>4, <1>12, <2>1, <2>2, <2>3, <2>4 DEF WorkersInv, WorkInv
<1>15. pc'[w] = "resolve"
  BY <1>11 DEF WorkersInv
<1>16. WorkersInv'
  <2>1. /\ pc' \in [Workers -> {"idle", "resolve", "recipients", "payout", "lines"}]
        /\ batch' \in [Workers -> SUBSET (1..indexed')]
        /\ version' \in [Workers -> Versions \cup {NoSplit}]
        /\ shares' \in [Workers -> SUBSET AllShares]
    BY <1>2, <1>11 DEF WorkersInv
  <2>2. \A u \in Workers : WorkInv(u)'
    BY <1>14, <1>15 DEF WorkInv
  <2>3. \A u, x \in Workers : pc'[u] = "lines" /\ pc'[x] = "lines" /\ Sale(u)' = Sale(x)' => u = x
    BY <1>12, <1>13, <1>15 DEF WorkersInv
  <2> QED
    BY <2>1, <2>2, <2>3 DEF WorkersInv
<1> QED
  BY <1>10, <1>16

LEMMA PassSteps ==
    ASSUME WorkersInv, PaidInv, ChainInv, NEW w \in Workers,
           SelectPending(w) \/ EndPass(w) \/ EventError(w) \/ Crash(w)
    PROVE  WorkersInv' /\ PaidInv'
<1>1. UNCHANGED <<chain, indexed, splits, payouts, lineItems>>
  BY DEF SelectPending, EndPass, EventError, Crash, tables
<1>2. CASE SelectPending(w)
  <2>1. /\ pc' = [pc EXCEPT ![w] = "resolve"] /\ batch' = [batch EXCEPT ![w] = Pending]
        /\ UNCHANGED <<version, shares>>
    BY <1>2 DEF SelectPending
  <2>2. Pending \in SUBSET (1..indexed)
    BY DEF Pending
  <2>3. /\ pc'[w] = "resolve" /\ batch'[w] = Pending
        /\ version' = [version EXCEPT ![w] = version'[w]]
        /\ version'[w] \in Versions \cup {NoSplit}
        /\ shares' = [shares EXCEPT ![w] = shares'[w]] /\ shares'[w] \in SUBSET AllShares
    BY <2>1 DEF WorkersInv
  <2> QED
    BY <1>1, <2>1, <2>2, <2>3, FreeStep
<1>3. CASE EndPass(w)
  <2>1. pc' = [pc EXCEPT ![w] = "idle"] /\ UNCHANGED <<batch, version, shares>>
    BY <1>3 DEF EndPass
  <2>2. /\ pc'[w] = "idle" /\ batch' = [batch EXCEPT ![w] = batch'[w]]
        /\ batch'[w] \in SUBSET (1..indexed)
        /\ version' = [version EXCEPT ![w] = version'[w]]
        /\ version'[w] \in Versions \cup {NoSplit}
        /\ shares' = [shares EXCEPT ![w] = shares'[w]] /\ shares'[w] \in SUBSET AllShares
    BY <2>1 DEF WorkersInv
  <2> QED
    BY <1>1, <2>1, <2>2, FreeStep
<1>4. CASE EventError(w)
  BY <1>1, <1>4, SkipSteps DEF EventError, Skip
<1>5. CASE Crash(w)
  <2>1. /\ pc' = [pc EXCEPT ![w] = "idle"] /\ batch' = [batch EXCEPT ![w] = {}]
        /\ version' = [version EXCEPT ![w] = NoSplit] /\ shares' = [shares EXCEPT ![w] = {}]
    BY <1>5 DEF Crash
  <2>2. pc'[w] = "idle" /\ batch'[w] = {} /\ version'[w] = NoSplit /\ shares'[w] = {}
    BY <2>1 DEF WorkersInv
  <2> QED
    BY <1>1, <2>1, <2>2, FreeStep
<1> QED
  BY <1>2, <1>3, <1>4, <1>5

(***************************************************************************)
(* The theorems.                                                           *)
(***************************************************************************)

IInv == CallersInv /\ SplitsInv /\ ChainInv /\ WorkersInv /\ PaidInv

LEMMA IInvInit ==
    ASSUME Init
    PROVE  IInv
<1>1. ChainInv
  BY BoundsAssumption DEF Init, ChainInv
<1>2. WorkersInv
  BY DEF Init, WorkersInv, WorkInv
<1>3. PaidInv
  BY DEF Init, PaidInv
<1> QED
  BY <1>1, <1>2, <1>3, VersionsInit DEF IInv

LEMMA IInvStep ==
    ASSUME IInv, [Next]_vars
    PROVE  IInv'
<1> USE DEF IInv
<1>1. CallersInv' /\ SplitsInv' /\ ChainInv'
  BY VersionsStep, ChainStep
<1>2. ASSUME NEW w \in Workers, Reconcile(w) \/ EventError(w) \/ Crash(w)
      PROVE  WorkersInv' /\ PaidInv'
  BY <1>2, PassSteps, ResolveSteps, ComputeSteps, InsertSteps, PaySteps DEF Reconcile
<1>3. CASE \E c \in Callers : Split(c)
  <2>1. UNCHANGED <<workers, payouts, lineItems>>
    BY <1>3 DEF Split, Configure, LockSample, NextVersion, CommitVersion, AbandonVersion, tables
  <2> QED
    BY <1>1, <2>1, OthersKeep
<1>4. CASE World
  <2>1. UNCHANGED <<workers, payouts, lineItems>>
    BY <1>4 DEF World, Tick, Index, PostMetadata, Sell, tables
  <2> QED
    BY <1>1, <2>1, OthersKeep
<1>5. CASE UNCHANGED vars
  <2>1. UNCHANGED <<workers, payouts, lineItems>>
    BY <1>5 DEF vars, tables
  <2> QED
    BY <1>1, <2>1, OthersKeep
<1> QED
  BY <1>1, <1>2, <1>3, <1>4, <1>5 DEF Next

LEMMA Invariance == Spec => []IInv
<1>1. Init => IInv
  BY IInvInit
<1>2. IInv /\ [Next]_vars => IInv'
  BY IInvStep
<1> QED
  BY <1>1, <1>2, PTL DEF Spec

\* The variables keep their types: no version beyond the number of requests, no payout or
\* line item for anything but a sale.
THEOREM ReconciliationTyped == Spec => []TypeOK
<1>1. ASSUME IInv
      PROVE  TypeOK
  <2> USE <1>1 DEF IInv
  <2>1. ASSUME NEW r \in splits
        PROVE  r.sample \in Samples /\ r.version \in Versions /\ r.from \in Times /\ r.asked \in Times
    <3>1. r.version \in Nat \ {0} /\ r.version <= Cardinality(Done)
      BY DEF SplitsInv, RowsTyped
    <3>2. r.version \in Versions
      BY <3>1, DoneCounts DEF Versions
    <3> QED
      BY <3>2 DEF SplitsInv, RowsTyped
  <2>2. batch \in [Workers -> SUBSET SaleIds]
    <3>1. 1..indexed \subseteq SaleIds
      BY BoundsAssumption DEF ChainInv, SaleIds
    <3> QED
      BY <3>1 DEF WorkersInv
  <2>3. payouts \subseteq [sale : SaleIds, version : Versions]
    <3> SUFFICES ASSUME NEW p \in payouts
                 PROVE  p \in [sale : SaleIds, version : Versions]
      OBVIOUS
    <3>1. p = [sale |-> p.sale, version |-> p.version] /\ p.version \in Versions
          /\ p.sale \in 1..Len(chain)
      BY DEF PaidInv, Fits
    <3>2. 1..Len(chain) \subseteq SaleIds
      BY BoundsAssumption DEF ChainInv, SaleIds
    <3> QED
      BY <3>1, <3>2
  <2>4. chain \in Seq([sample : Samples, at : Times, payable : BOOLEAN,
                       inForce : Versions \cup {NoSplit}])
    BY DEF ChainInv, SaleRecords
  <2> QED
    BY <2>1, <2>2, <2>3, <2>4 DEF TypeOK, CallersInv, ChainInv, WorkersInv, PaidInv
<1> QED
  BY <1>1, Invariance, PTL

\* However many workers pick up a sale, and wherever they or the database fail, it is paid
\* once, with all the line items of the version its payout names (createPayout).
THEOREM PaidOnceAndWhole == Spec => []PayoutsWhole
<1>1. IInv => PayoutsWhole
  BY DEF IInv, PaidInv, PayoutsWhole, SharesOf
<1> QED
  BY <1>1, Invariance, PTL

\* The split that pays a sale is the one in force when the sale closed or a newer one that
\* starts no later than it: nothing requested after the sale can pay it.
THEOREM PaidAsSold == Spec => []LaterSplitsDoNotPay
<1>1. IInv => LaterSplitsDoNotPay
  BY DEF IInv, PaidInv, Fits, LaterSplitsDoNotPay
<1> QED
  BY <1>1, Invariance, PTL

(***************************************************************************)
(* The refinement.  Beyond IInv it rests on two facts: no sale lies in the *)
(* future, and a worker past computeLineItems is at a payable sale.        *)
(***************************************************************************)

NothingAhead == \A e \in 1..Len(chain) : chain[e].at <= now

PaysPayable == \A w \in Workers : pc[w] \in {"payout", "lines"} => chain[Sale(w)].payable

LEMMA TimePasses ==
    ASSUME IInv, NothingAhead, [Next]_vars
    PROVE  NothingAhead'
<1> USE DEF IInv
<1>1. ASSUME NEW s \in Samples, NEW p \in BOOLEAN, Sell(s, p)
      PROVE  NothingAhead'
  <2> DEFINE sale == [sample |-> s, at |-> now, payable |-> p, inForce |-> EffectiveVersion(s, now)]
  <2>1. chain' = Append(chain, sale) /\ now' = now /\ sale.at = now /\ now \in Nat
    BY <1>1 DEF Sell, CallersInv, Times
  <2> HIDE DEF sale
  <2> QED
    BY <2>1 DEF NothingAhead, ChainInv
<1>2. CASE Tick
  <2>1. chain' = chain /\ now' = now + 1 /\ now \in Nat
    BY <1>2 DEF Tick, CallersInv, Times
  <2>2. ASSUME NEW e \in 1..Len(chain)
        PROVE  chain[e].at \in Nat
    <3>1. chain[e] \in SaleRecords
      BY DEF ChainInv
    <3> QED
      BY <3>1 DEF SaleRecords, Times
  <2> QED
    BY <2>1, <2>2 DEF NothingAhead
<1>3. CASE UNCHANGED <<chain, now>>
  BY <1>3 DEF NothingAhead
<1>4. CASE Index \/ \E s \in Samples : PostMetadata(s)
  BY <1>3, <1>4 DEF Index, PostMetadata
<1>5. CASE \E w \in Workers : Reconcile(w) \/ EventError(w) \/ Crash(w)
  BY <1>3, <1>5 DEF Reconcile, SelectPending, ResolveVersion, ComputeShares, InsertPayout,
                    CommitPayout, EndPass, EventError, Crash
<1>6. CASE \E c \in Callers : Split(c)
  BY <1>3, <1>6 DEF Split, Configure, LockSample, NextVersion, CommitVersion, AbandonVersion
<1>7. CASE UNCHANGED vars
  BY <1>3, <1>7 DEF vars
<1> QED
  BY <1>1, <1>2, <1>4, <1>5, <1>6, <1>7 DEF Next, World

\* computeLineItems throws for a price that is not positive; what passes it is still at the
\* same sale when it commits.
LEMMA PayableKept ==
    ASSUME IInv, PaysPayable, [Next]_vars
    PROVE  PaysPayable'
<1> USE DEF IInv
<1>1. \A w \in Workers : pc[w] \in {"recipients", "payout", "lines"} =>
          chain'[Sale(w)] = chain[Sale(w)]
  BY ChainGrows DEF WorkersInv, WorkInv, Fits
<1>2. ASSUME UNCHANGED workers
      PROVE  PaysPayable'
  <2>1. \A w \in Workers : pc'[w] = pc[w] /\ Sale(w)' = Sale(w)
    BY <1>2 DEF workers, Sale
  <2> QED
    BY <1>1, <2>1 DEF PaysPayable
<1>3. ASSUME NEW w \in Workers, Reconcile(w) \/ EventError(w) \/ Crash(w)
      PROVE  PaysPayable'
  <2>1. UNCHANGED chain /\ \A u \in Workers \ {w} : pc'[u] = pc[u] /\ batch'[u] = batch[u]
    BY <1>3 DEF Reconcile, SelectPending, ResolveVersion, ComputeShares, InsertPayout,
                CommitPayout, EndPass, EventError, Crash, Skip, NextEvent, GoOnWith, WorkersInv
  <2>2. \A u \in Workers \ {w} : Sale(u)' = Sale(u)
    BY <2>1 DEF Sale
  <2>3. pc'[w] \in {"payout", "lines"} => chain'[Sale(w)'].payable
    <3>1. CASE ComputeShares(w)
      <4>1. CASE chain[Sale(w)].payable
        BY <2>1, <3>1, <4>1 DEF ComputeShares, Sale
      <4>2. CASE ~chain[Sale(w)].payable
        BY <3>1, <4>2 DEF ComputeShares, Skip, NextEvent, GoOnWith, WorkersInv
      <4> QED
        BY <4>1, <4>2
    <3>2. CASE InsertPayout(w)
      <4>1. CASE Won(Sale(w))
        <5>1. pc[w] = "payout" /\ Sale(w)' = Sale(w)
          BY <3>2, <4>1 DEF InsertPayout, Sale
        <5> QED
          BY <2>1, <5>1 DEF PaysPayable
      <4>2. CASE ~Won(Sale(w))
        BY <3>2, <4>2 DEF InsertPayout, NextEvent, GoOnWith, WorkersInv
      <4> QED
        BY <4>1, <4>2
    <3>3. CASE SelectPending(w) \/ ResolveVersion(w) \/ CommitPayout(w) \/ EndPass(w)
               \/ EventError(w) \/ Crash(w)
      BY <3>3 DEF SelectPending, ResolveVersion, CommitPayout, EndPass, EventError, Crash,
                  Skip, NextEvent, GoOnWith, WorkersInv
    <3> QED
      BY <1>3, <3>1, <3>2, <3>3 DEF Reconcile
  <2> QED
    BY <2>1, <2>2, <2>3 DEF PaysPayable
<1>4. CASE \E c \in Callers : Split(c)
  BY <1>2, <1>4 DEF Split, Configure, LockSample, NextVersion, CommitVersion, AbandonVersion
<1>5. CASE World
  BY <1>2, <1>5 DEF World, Tick, Index, PostMetadata, Sell
<1>6. CASE UNCHANGED vars
  BY <1>2, <1>6 DEF vars
<1> QED
  BY <1>3, <1>4, <1>5, <1>6 DEF Next

LInv == IInv /\ NothingAhead /\ PaysPayable

LEMMA LedgerInvariance == Spec => []LInv
<1>1. Init => NothingAhead /\ PaysPayable
  BY DEF Init, NothingAhead, PaysPayable
<1>2. IInv /\ NothingAhead /\ PaysPayable /\ [Next]_vars => (NothingAhead /\ PaysPayable)'
  BY TimePasses, PayableKept
<1> QED
  BY <1>1, <1>2, Invariance, PTL DEF Spec, LInv

VersionOf(r) == [sample |-> r.sample, number |-> r.version, from |-> r.from,
                 split |-> SharesIn(SplitOf(r.sample, r.version))]
PaymentOf(p) == [sale |-> p.sale, number |-> p.version, split |-> LinesOf(p.sale)]
AllVersions == {VersionOf(r) : r \in splits}
AllPayments == {PaymentOf(p) : p \in payouts}

LEMMA SharesOfRows ==
    ASSUME NEW config, NEW s, NEW v, NEW from, NEW asked
    PROVE  SharesIn(RowsOf(config, s, v, from, asked)) = Shares(config)
<1> DEFINE rows == RowsOf(config, s, v, from, asked)
<1>1. ASSUME NEW x \in DOMAIN config
      PROVE  \E r \in rows : r.recipient = x /\ r.basisPoints = config[x]
  <2> DEFINE row == [sample |-> s, version |-> v, recipient |-> x, basisPoints |-> config[x],
                     from |-> from, asked |-> asked]
  <2>1. row \in rows
    BY DEF RowsOf
  <2>2. row.recipient = x /\ row.basisPoints = config[x]
    OBVIOUS
  <2> HIDE DEF row, rows
  <2> QED
    BY <2>1, <2>2
<1>2. ASSUME NEW r \in rows
      PROVE  \E x \in DOMAIN config : r.recipient = x /\ r.basisPoints = config[x]
  BY DEF RowsOf
<1> HIDE DEF rows
<1>3. SharesIn(rows) = Shares(config)
  <2>1. \A y : y \in SharesIn(rows) => y \in Shares(config)
    BY <1>2 DEF SharesIn, Shares
  <2>2. \A y : y \in Shares(config) => y \in SharesIn(rows)
    BY <1>1 DEF SharesIn, Shares
  <2> QED
    BY <2>1, <2>2
<1> QED
  BY <1>3 DEF rows

\* COMMIT of a version adds it whole, or adds nothing if it has no rows.
LEMMA CommitAdds ==
    ASSUME IInv, NEW c \in Callers, CommitVersion(c)
    PROVE  Ledger!Add \/ UNCHANGED <<AllVersions, chain, AllPayments>>
<1> USE DEF IInv
<1>1. PICK q, n : q = request[c] /\ n = next[c]
  OBVIOUS
<1>2. /\ cpc[c] = "insert" /\ UNCHANGED <<chain, payouts, lineItems>> /\ splits \subseteq splits'
      /\ q.sample \in Samples /\ q.config \in Configs
  BY <1>1 DEF CommitVersion, CallersInv, Asking, RequestTyped
<1>3. AllPayments' = AllPayments
  BY <1>2 DEF AllPayments, PaymentOf, LinesOf
<1>4. \A r \in splits : /\ r.sample = q.sample => r.version < n
                        /\ r.version \in Nat /\ n \in Nat
  BY <1>1, <1>2 DEF CallersInv, SplitsInv, RowsTyped
<1>5. \A r \in splits : VersionOf(r)' = VersionOf(r)
  <2> SUFFICES ASSUME NEW r \in splits
               PROVE  SplitOf(r.sample, r.version)' = SplitOf(r.sample, r.version)
    BY DEF VersionOf
  <2>1. ~(r.sample = q.sample /\ r.version = n)
    BY <1>4
  <2> QED
    BY <1>1, <2>1, NewRows
<1>6. CASE splits' = splits
  BY <1>2, <1>3, <1>5, <1>6 DEF AllVersions
<1>7. ASSUME NEW x \in splits' \ splits
      PROVE  Ledger!Add
  <2> DEFINE v == [sample |-> q.sample, number |-> n, from |-> q.from, split |-> Shares(q.config)]
  <2>1. ASSUME NEW r \in splits' \ splits
        PROVE  VersionOf(r)' = v
    <3>1. r.sample = q.sample /\ r.version = n /\ r.from = q.from
      BY <1>1, NewRows
    <3>2. SplitOf(r.sample, r.version)' =
          RowsOf(q.config, r.sample, r.version, r.from, r.asked)
      BY <1>1, NewRows
    <3>3. SharesIn(SplitOf(r.sample, r.version))' = Shares(q.config)
      <4>1. SharesIn(SplitOf(r.sample, r.version))' = SharesIn(SplitOf(r.sample, r.version)')
        BY DEF SharesIn
      <4> QED
        BY <3>2, <4>1, SharesOfRows
    <3> QED
      BY <3>1, <3>3 DEF VersionOf
  <2>2. v.sample = q.sample /\ v.number = n /\ v.split = Shares(q.config)
    OBVIOUS
  <2> HIDE DEF v
  <2>3. AllVersions' = AllVersions \cup {v}
    BY <1>2, <1>5, <1>7, <2>1 DEF AllVersions
  <2>4. \A u \in AllVersions : u.sample = v.sample => u.number < v.number
    BY <1>4, <2>2 DEF AllVersions, VersionOf
  <2>5. v \notin AllVersions
    <3>1. n \in Nat
      BY <1>1, <1>2 DEF CallersInv
    <3> QED
      BY <2>2, <2>4, <3>1
  <2>6. v \in AllVersions' \ AllVersions /\ v.split \in {Shares(config) : config \in Configs}
    BY <1>2, <2>2, <2>3, <2>5
  <2> QED
    BY <1>2, <1>3, <2>2, <2>3, <2>4, <2>6
       DEF Ledger!Add, AllVersions, AllPayments, VersionOf, PaymentOf
<1> QED
  BY <1>2, <1>6, <1>7

\* COMMIT of a payout adds one payment, by a version that is there and may pay the sale.
LEMMA CommitPays ==
    ASSUME LInv, NEW w \in Workers, CommitPayout(w)
    PROVE  Ledger!Pay
<1> USE DEF LInv, IInv
<1>1. PICK e, v :
          /\ e = Sale(w) /\ v = version[w] /\ Fits(e, v) /\ ~HasPayout(e)
          /\ \A p \in payouts : p.sale # e
          /\ payouts' = payouts \cup {[sale |-> e, version |-> v]}
          /\ lineItems' = lineItems \cup {[sale |-> e, share |-> x] : x \in shares[w]}
          /\ LinesOf(e)' = SharesOf(e, v)
          /\ \A f : f # e => LinesOf(f)' = LinesOf(f)
          /\ \A f : HasPayout(f)' <=> (HasPayout(f) \/ f = e)
  BY PayEffect
<1> DEFINE paid == [sale |-> e, version |-> v]
           payment == [sale |-> e, number |-> v, split |-> SharesOf(e, v)]
<1>2. UNCHANGED <<chain, splits>> /\ pc[w] = "lines"
  BY DEF CommitPayout
<1>3. AllVersions' = AllVersions
  BY <1>2 DEF AllVersions, VersionOf, SplitOf
<1>4. PICK u \in AllVersions : Ledger!MayPay(u, chain[e]) /\ u.number = v /\ u.split = SharesOf(e, v)
  <2>1. PICK r \in SplitOf(chain[e].sample, v) : TRUE
    BY <1>1 DEF Fits
  <2>2. r \in splits /\ r.sample = chain[e].sample /\ r.version = v /\ r.from <= chain[e].at
    BY <1>1, <2>1 DEF SplitOf, Fits
  <2>3. VersionOf(r) \in AllVersions /\ v >= chain[e].inForce
    BY <1>1, <2>2 DEF AllVersions, Fits
  <2>4. /\ VersionOf(r).sample = chain[e].sample /\ VersionOf(r).number = v
        /\ VersionOf(r).from = r.from /\ VersionOf(r).split = SharesOf(e, v)
    BY <2>2 DEF VersionOf, SharesOf
  <2> QED
    BY <2>2, <2>3, <2>4 DEF Ledger!MayPay
<1>5. e \in DOMAIN chain /\ chain[e].payable
  BY <1>1, <1>2 DEF Fits, ChainInv, PaysPayable
<1>6. \A p \in payouts : PaymentOf(p)' = PaymentOf(p)
  BY <1>1 DEF PaymentOf
<1>7. PaymentOf(paid)' = payment
  <2>1. paid.sale = e /\ paid.version = v
    OBVIOUS
  <2> HIDE DEF paid
  <2> QED
    BY <1>1, <2>1 DEF PaymentOf
<1>8. payment.sale = e /\ payment.number = v /\ payment.split = SharesOf(e, v)
  OBVIOUS
<1> HIDE DEF payment
<1>9. AllPayments' = AllPayments \cup {payment}
  BY <1>1, <1>6, <1>7 DEF AllPayments
<1>10. \A q \in AllPayments : q.sale # e
  BY <1>1 DEF AllPayments, PaymentOf
<1>11. payment \in AllPayments' \ AllPayments
  BY <1>8, <1>9, <1>10
<1> QED
  BY <1>2, <1>3, <1>4, <1>5, <1>8, <1>9, <1>10, <1>11
     DEF Ledger!Pay, AllVersions, AllPayments, VersionOf, PaymentOf

\* The version that the table gives for a sale is in force for it.
LEMMA EffectiveIsInForce ==
    ASSUME RowsTyped, NEW sale
    PROVE  Ledger!InForce(sale, EffectiveVersion(sale.sample, sale.at))
<1> DEFINE rows == EffectiveRows(sale.sample, sale.at)
           found == EffectiveVersion(sale.sample, sale.at)
<1>1. \A r : VersionOf(r).sample = r.sample /\ VersionOf(r).number = r.version
             /\ VersionOf(r).from = r.from
  BY DEF VersionOf
<1>2. Ledger!Started(sale) = {v \in AllVersions : v.sample = sale.sample /\ v.from <= sale.at}
  BY DEF Ledger!Started, AllVersions, VersionOf
<1>3. Ledger!Started(sale) = {VersionOf(r) : r \in rows}
  BY <1>1, <1>2 DEF AllVersions, EffectiveRows
<1>4. CASE rows = {}
  <2>1. found = 0
    BY <1>4, EffectiveIsNone DEF NoSplit
  <2> QED
    BY <1>3, <1>4, <2>1 DEF Ledger!InForce
<1>5. CASE rows # {}
  <2>1. PICK r \in rows : Newest(r, rows) /\ found = r.version
    BY <1>5, EffectiveIsNewest
  <2>2. VersionOf(r) \in Ledger!Started(sale) /\ VersionOf(r).number = found
    BY <1>1, <1>3, <2>1
  <2>3. \A u \in Ledger!Started(sale) :
            \/ u.from < VersionOf(r).from
            \/ u.from = VersionOf(r).from /\ u.number <= VersionOf(r).number
    BY <1>1, <1>3, <2>1 DEF Newest
  <2> QED
    BY <2>2, <2>3 DEF Ledger!InForce
<1> QED
  BY <1>4, <1>5

LEMMA SaleIsRecorded ==
    ASSUME LInv, NEW s \in Samples, NEW p \in BOOLEAN, Sell(s, p)
    PROVE  Ledger!Sell
<1> USE DEF LInv, IInv
<1> DEFINE sale == [sample |-> s, at |-> now, payable |-> p, inForce |-> EffectiveVersion(s, now)]
<1>1. chain' = Append(chain, sale) /\ UNCHANGED <<splits, payouts, lineItems>>
  BY DEF Sell, tables
<1>2. sale.sample = s /\ sale.at = now /\ sale.inForce = EffectiveVersion(s, now)
  OBVIOUS
<1> HIDE DEF sale
<1>3. Len(chain') = Len(chain) + 1 /\ chain'[Len(chain')] = sale
  BY <1>1 DEF ChainInv
<1>4. \A e \in DOMAIN chain : chain[e].at <= sale.at
  BY <1>2 DEF NothingAhead, ChainInv
<1>5. Ledger!InForce(sale, sale.inForce)
  BY <1>2, EffectiveIsInForce DEF SplitsInv
<1>6. UNCHANGED <<AllVersions, AllPayments>>
  BY <1>1 DEF AllVersions, AllPayments, VersionOf, PaymentOf, SplitOf, LinesOf
<1> QED
  BY <1>1, <1>2, <1>3, <1>4, <1>5, <1>6
     DEF Ledger!Sell, AllVersions, AllPayments, VersionOf, PaymentOf

LEMMA QuietStep ==
    ASSUME UNCHANGED <<chain, splits, payouts, lineItems>>
    PROVE  UNCHANGED <<AllVersions, chain, AllPayments>>
BY DEF AllVersions, AllPayments, VersionOf, PaymentOf, SplitOf, LinesOf

LEMMA StepRefines ==
    ASSUME LInv, [Next]_vars
    PROVE  [Ledger!Next]_(Ledger!vars)
<1>1. (UNCHANGED <<AllVersions, chain, AllPayments>>) => UNCHANGED Ledger!vars
  BY DEF Ledger!vars, AllVersions, AllPayments, VersionOf, PaymentOf
<1>2. CASE \E c \in Callers : CommitVersion(c)
  BY <1>1, <1>2, CommitAdds DEF Ledger!Next, LInv
<1>3. CASE \E w \in Workers : CommitPayout(w)
  BY <1>3, CommitPays DEF Ledger!Next
<1>4. CASE \E s \in Samples, p \in BOOLEAN : Sell(s, p)
  BY <1>4, SaleIsRecorded DEF Ledger!Next
<1>5. CASE /\ ~(\E c \in Callers : CommitVersion(c)) /\ ~(\E w \in Workers : CommitPayout(w))
           /\ ~(\E s \in Samples, p \in BOOLEAN : Sell(s, p))
  <2>1. UNCHANGED <<chain, splits, payouts, lineItems>>
    <3>1. CASE \E w \in Workers : Reconcile(w) \/ EventError(w) \/ Crash(w)
      BY <1>5, <3>1 DEF Reconcile, SelectPending, ResolveVersion, ComputeShares, InsertPayout,
                        EndPass, EventError, Crash, tables
    <3>2. CASE \E c \in Callers : Split(c)
      BY <1>5, <3>2 DEF Split, Configure, LockSample, NextVersion, AbandonVersion, tables
    <3>3. CASE World
      BY <1>5, <3>3 DEF World, Tick, Index, PostMetadata, tables
    <3>4. CASE UNCHANGED vars
      BY <3>4 DEF vars, tables
    <3> QED
      BY <3>1, <3>2, <3>3, <3>4 DEF Next
  <2> QED
    BY <1>1, <2>1, QuietStep
<1> QED
  BY <1>2, <1>3, <1>4, <1>5

\* createSplitVersion and createPayout, statement by statement and with everything that can
\* fail around them, are a ledger of whole versions and of sales paid once, by a version
\* that had started when the sale was made and is no older than the one in force then.
THEOREM RoyaltiesImplementLedger == Spec => ImplementsRoyaltyLedger
<1>1. Init => Ledger!Init
  BY DEF Init, Ledger!Init
<1>2. LInv /\ [Next]_vars => [Ledger!Next]_(Ledger!vars)
  BY StepRefines
<1> QED
  BY <1>1, <1>2, LedgerInvariance, PTL DEF Spec, ImplementsRoyaltyLedger, Ledger!Spec
=============================================================================
