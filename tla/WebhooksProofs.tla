--------------------------- MODULE WebhooksProofs ---------------------------
(***************************************************************************)
(* Proofs about Webhooks, for any subscriptions, sales and calls, any      *)
(* batch size, any number of attempts, crashes and database errors.        *)
(***************************************************************************)
EXTENDS Webhooks, TLAPS, FiniteSetTheorems

Posting == {"post", "ok", "bad", "caught"}

\* The calls that are past the claim of delivery d.
PastClaim(d) == {c \in Calls : job[c][d] \in Posting}

\* A call is busy with deliveries there are, and a claim with one that is still pending.
RowsThere ==
    \A d \in Deliveries :
        /\ d[2] \notin sold => status[d] = "none"
        /\ \A c \in Calls : job[c][d] # "none" => status[d] # "none"
        /\ \A c \in Calls : job[c][d] = "claimed" => status[d] = "pending"

\* What the lease keeps apart: while an attempt is under way the row is not due, so nobody
\* claims it.
Leased ==
    \A d \in Deliveries \ lapsed :
        /\ \A b, c \in Calls : job[b][d] # "none" /\ job[c][d] # "none" => b = c
        /\ \A c \in Calls : job[c][d] \in Posting => ~due[d]
        /\ failures = 0 => \A c \in Calls : job[c][d] # "none" => status[d] = "pending"

\* Only pending deliveries are claimed, and a pending one has attempts left; from then on
\* every attempt recorded is one less to come, or costs a failure.
AttemptsBounded ==
    \A d \in Deliveries :
        /\ attempts[d] >= MaxAttempts => status[d] \in {"delivered", "failed"}
        /\ attempts[d] + Cardinality(PastClaim(d)) < MaxAttempts + Cardinality(Calls) + failures

IndInv == TypeOK /\ RowsThere /\ Leased /\ AttemptsBounded

LEMMA InitInvariant == Init => IndInv
<1> SUFFICES ASSUME Init
             PROVE  IndInv
  OBVIOUS
<1> USE BoundsAssumption
<1>1. TypeOK /\ RowsThere /\ Leased
  BY DEF Init, TypeOK, RowsThere, Leased, Jobs, Posting
<1>2. AttemptsBounded
  <2> SUFFICES ASSUME NEW d \in Deliveries
               PROVE  /\ attempts[d] = 0
                      /\ 0 + Cardinality(PastClaim(d)) < MaxAttempts + Cardinality(Calls) + failures
    BY DEF AttemptsBounded
  <2>1. PastClaim(d) = {}
    BY DEF Init, PastClaim, Posting
  <2> QED
    BY <2>1, FS_EmptySet, FS_CardinalityType DEF Init
<1> QED
  BY <1>1, <1>2 DEF IndInv

\* PastClaim is finite, and part of Calls.
LEMMA PastClaimFinite ==
    ASSUME NEW d
    PROVE  /\ IsFiniteSet(PastClaim(d)) /\ Cardinality(PastClaim(d)) \in Nat
           /\ Cardinality(PastClaim(d)) <= Cardinality(Calls) /\ Cardinality(Calls) \in Nat
<1>1. PastClaim(d) \in SUBSET Calls
  BY DEF PastClaim
<1> QED
  BY <1>1, BoundsAssumption, FS_Subset, FS_CardinalityType

\* Steps that leave the calls and the attempts alone keep the bound.
LEMMA SameAttempts ==
    ASSUME IndInv, UNCHANGED <<attempts, job, failures>>,
           \A d \in Deliveries : status'[d] = status[d] \/ status[d] = "none"
    PROVE  AttemptsBounded'
BY BoundsAssumption DEF IndInv, TypeOK, AttemptsBounded, PastClaim

LEMMA WorldSteps ==
    ASSUME IndInv,
           \/ \E s \in Subscriptions : Subscribe(s) \/ Unsubscribe(s)
           \/ \E e \in Sales : Sell(e)
           \/ \E d \in Deliveries : ComeDue(d)
    PROVE  IndInv'
<1> USE DEF IndInv
<1>1. ASSUME NEW s \in Subscriptions, Subscribe(s) \/ Unsubscribe(s)
      PROVE  IndInv'
  <2>1. AttemptsBounded'
    BY <1>1, SameAttempts DEF Subscribe, Unsubscribe, rows
  <2> QED
    BY <1>1, <2>1 DEF Subscribe, Unsubscribe, rows, TypeOK, RowsThere, Leased
<1>2. ASSUME NEW e \in Sales, Sell(e)
      PROVE  IndInv'
  <2>1. \A d \in active \X {e} : d \in Deliveries /\ d[2] = e /\ status[d] = "none"
    BY <1>2 DEF Sell, RowsThere, TypeOK, Deliveries
  <2>2. AttemptsBounded'
    BY <1>2, <2>1, SameAttempts DEF Sell
  <2>3. TypeOK'
    BY <1>2, <2>1 DEF Sell, TypeOK
  <2>4. RowsThere'
    BY <1>2, <2>1 DEF Sell, RowsThere
  <2>5. Leased'
    <3>1. \A d \in Deliveries : d \notin active \X {e} =>
              (due'[d] <=> due[d]) /\ status'[d] = status[d]
      BY <1>2 DEF Sell, TypeOK
    <3>2. \A d \in active \X {e} : \A c \in Calls : job[c][d] = "none"
      BY <2>1 DEF RowsThere
    <3> QED
      BY <1>2, <2>1, <3>1, <3>2 DEF Sell, Leased, Posting
  <2> QED
    BY <2>2, <2>3, <2>4, <2>5
<1>3. ASSUME NEW d \in Deliveries, ComeDue(d)
      PROVE  IndInv'
  <2>1. AttemptsBounded'
    BY <1>3, SameAttempts DEF ComeDue
  <2>2. UnderWay(d) <=> \E c \in Calls : job[c][d] \in Posting
    BY DEF UnderWay, Posting
  <2>3. TypeOK' /\ RowsThere'
    BY <1>3 DEF ComeDue, TypeOK, RowsThere
  <2>4. Leased'
    BY <1>3, <2>2 DEF ComeDue, Leased, TypeOK
  <2> QED
    BY <2>1, <2>3, <2>4
<1> QED
  BY <1>1, <1>2, <1>3

\* SKIP LOCKED and the lease: a delivery that is claimed is nobody else's.
LEMMA ClaimStep ==
    ASSUME IndInv, NEW c \in Calls, Claim(c)
    PROVE  IndInv'
<1> USE DEF IndInv
<1>1. PICK batch \in SUBSET Deliveries :
          /\ \A d \in batch : Claimable(d) /\ ~Locked(d)
          /\ job' = [job EXCEPT ![c] = [d \in Deliveries |-> IF d \in batch THEN "claimed" ELSE "none"]]
  BY DEF Claim
<1>2. Idle(c) /\ UNCHANGED <<active, sold, status, attempts, due, lapsed, confirmed, failures>>
  BY DEF Claim, rows
<1>3. \A d \in batch : /\ status[d] = "pending" /\ due[d]
                       /\ \A b \in Calls : job[b][d] # "claimed"
  BY <1>1 DEF Claimable, Locked
<1>4. /\ \A d \in Deliveries : job'[c][d] = IF d \in batch THEN "claimed" ELSE "none"
      /\ \A d \in Deliveries : \A b \in Calls \ {c} : job'[b][d] = job[b][d]
      /\ \A d \in Deliveries : job[c][d] = "none"
      /\ job' \in [Calls -> [Deliveries -> Jobs]]
  BY <1>1, <1>2 DEF TypeOK, Jobs, Idle
<1>5. TypeOK'
  BY <1>2, <1>4 DEF TypeOK
<1>6. RowsThere'
  BY <1>2, <1>3, <1>4 DEF RowsThere
<1>7. \A d \in Deliveries : \A b \in Calls : job[b][d] \in Jobs
  BY DEF TypeOK
<1>8. Leased'
  <2> SUFFICES ASSUME NEW d \in Deliveries \ lapsed
               PROVE  /\ \A a, b \in Calls : job'[a][d] # "none" /\ job'[b][d] # "none" => a = b
                      /\ \A b \in Calls : job'[b][d] \in Posting => ~due[d]
                      /\ failures = 0 => \A b \in Calls : job'[b][d] # "none" => status[d] = "pending"
    BY <1>2 DEF Leased
  <2>1. CASE d \in batch
    <3>1. \A b \in Calls : job[b][d] = "none"
      BY <1>3, <1>7, <2>1 DEF Leased, Jobs, Posting
    <3> QED
      BY <1>3, <1>4, <2>1, <3>1 DEF Posting
  <2>2. CASE d \notin batch
    BY <1>4, <2>2 DEF Leased, Posting
  <2> QED
    BY <2>1, <2>2
<1>9. AttemptsBounded'
  <2>1. \A d \in Deliveries : PastClaim(d)' = PastClaim(d)
    BY <1>4 DEF PastClaim, Posting
  <2> QED
    BY <1>2, <2>1 DEF AttemptsBounded
<1> QED
  BY <1>5, <1>6, <1>8, <1>9

LEMMA CommitClaimStep ==
    ASSUME IndInv, NEW c \in Calls, CommitClaim(c)
    PROVE  IndInv'
<1> DEFINE batch == {d \in Deliveries : job[c][d] = "claimed"}
<1> USE BoundsAssumption DEF IndInv
<1>1. /\ \A d \in Deliveries : job'[c][d] = IF d \in batch THEN "post" ELSE job[c][d]
      /\ \A d \in Deliveries : \A b \in Calls \ {c} : job'[b][d] = job[b][d]
      /\ job' \in [Calls -> [Deliveries -> Jobs]]
      /\ due' = [d \in Deliveries |-> due[d] /\ d \notin batch]
      /\ UNCHANGED <<active, sold, status, attempts, lapsed, confirmed, failures>>
  BY DEF CommitClaim, Lease, TypeOK, Jobs
<1>2. TypeOK'
  BY <1>1 DEF TypeOK
<1>3. RowsThere'
  BY <1>1 DEF RowsThere
<1>4. Leased'
  <2>1. \A d \in Deliveries : due'[d] <=> due[d] /\ d \notin batch
    BY <1>1 DEF TypeOK
  <2>2. \A d \in Deliveries : \A b \in Calls : job'[b][d] # "none" => job[b][d] # "none"
    BY <1>1
  <2> SUFFICES ASSUME NEW d \in Deliveries \ lapsed
               PROVE  /\ \A a, b \in Calls : job'[a][d] # "none" /\ job'[b][d] # "none" => a = b
                      /\ \A b \in Calls : job'[b][d] \in Posting => ~due'[d]
                      /\ failures = 0 => \A b \in Calls : job'[b][d] # "none" => status[d] = "pending"
    BY <1>1 DEF Leased
  <2>3. \A b \in Calls : job'[b][d] \in Posting => ~due'[d]
    BY <1>1, <2>1 DEF Leased, Posting
  <2> QED
    BY <2>2, <2>3 DEF Leased
<1>5. AttemptsBounded'
  <2> SUFFICES ASSUME NEW d \in Deliveries
               PROVE  attempts[d] + Cardinality(PastClaim(d)') < MaxAttempts + Cardinality(Calls) + failures
    BY <1>1 DEF AttemptsBounded, PastClaim
  <2>1. CASE d \in batch
    <3>1. ~(attempts[d] >= MaxAttempts)
      BY <2>1 DEF RowsThere, AttemptsBounded
    <3>2. PastClaim(d)' \in SUBSET Calls
      BY DEF PastClaim
    <3>3. Cardinality(PastClaim(d)') \in Nat /\ Cardinality(PastClaim(d)') <= Cardinality(Calls)
      BY <3>2, FS_Subset, FS_CardinalityType
    <3> QED
      BY <3>1, <3>3, FS_CardinalityType DEF TypeOK
  <2>2. CASE d \notin batch
    <3>1. PastClaim(d)' = PastClaim(d)
      BY <1>1, <2>2 DEF PastClaim
    <3> QED
      BY <3>1 DEF AttemptsBounded
  <2> QED
    BY <2>1, <2>2
<1> QED
  BY <1>2, <1>3, <1>4, <1>5

\* Call c goes on with delivery d; whether it records an attempt is another matter.
GoesOn(c, d, what) ==
    /\ job[c][d] \in Posting /\ what \in Posting \cup {"none"}
    /\ job' = [job EXCEPT ![c][d] = what]

LEMMA GoingOn ==
    ASSUME TypeOK, NEW c \in Calls, NEW d \in Deliveries, NEW what, GoesOn(c, d, what)
    PROVE  /\ job' \in [Calls -> [Deliveries -> Jobs]] /\ job'[c][d] = what
           /\ \A b \in Calls : \A x \in Deliveries : b # c \/ x # d => job'[b][x] = job[b][x]
           /\ \A x \in Deliveries \ {d} : PastClaim(x)' = PastClaim(x)
           /\ what # "none" => PastClaim(d)' = PastClaim(d)
           /\ what = "none" => Cardinality(PastClaim(d)') = Cardinality(PastClaim(d)) - 1
<1>1. /\ job' \in [Calls -> [Deliveries -> Jobs]] /\ job'[c][d] = what
      /\ \A b \in Calls : \A x \in Deliveries : b # c \/ x # d => job'[b][x] = job[b][x]
  BY DEF TypeOK, GoesOn, Jobs, Posting
<1>2. \A x \in Deliveries \ {d} : PastClaim(x)' = PastClaim(x)
  BY <1>1 DEF PastClaim
<1>3. CASE what # "none"
  <2>1. PastClaim(d)' = PastClaim(d)
    BY <1>1, <1>3 DEF PastClaim, GoesOn
  <2> QED
    BY <1>1, <1>2, <1>3, <2>1
<1>4. CASE what = "none"
  <2>1. PastClaim(d)' = PastClaim(d) \ {c} /\ c \in PastClaim(d)
    BY <1>1, <1>4 DEF PastClaim, GoesOn, Posting
  <2>2. Cardinality(PastClaim(d) \ {c}) = Cardinality(PastClaim(d)) - 1
    BY <2>1, PastClaimFinite, FS_RemoveElement
  <2> QED
    BY <1>1, <1>2, <1>4, <2>1, <2>2
<1> QED
  BY <1>3, <1>4

\* A step of an attempt that leaves the row as it is.
LEMMA UnrecordedStep ==
    ASSUME IndInv, NEW c \in Calls, NEW d \in Deliveries, NEW what, GoesOn(c, d, what),
           failures' \in {failures, failures + 1}, failures' <= MaxFailures,
           confirmed' \subseteq Deliveries,
           UNCHANGED <<active, sold, status, attempts, due, lapsed>>
    PROVE  IndInv'
<1> USE BoundsAssumption DEF IndInv
<1>1. TypeOK' /\ RowsThere'
  <2>1. job' \in [Calls -> [Deliveries -> Jobs]] /\ failures' \in 0..MaxFailures
    BY GoingOn DEF TypeOK
  <2>2. ASSUME NEW b \in Calls, NEW x \in Deliveries
        PROVE  /\ job'[b][x] # "none" => job[b][x] # "none"
               /\ job'[b][x] = "claimed" => job[b][x] = "claimed"
    <3>1. CASE b = c /\ x = d
      <4>1. job'[b][x] = what /\ job[b][x] \in Posting /\ what \in Posting \cup {"none"}
        BY <3>1, GoingOn, ZenonT(30) DEF GoesOn
      <4> QED
        BY <4>1 DEF Posting
    <3>2. CASE b # c \/ x # d
      BY <3>2, GoingOn
    <3> QED
      BY <3>1, <3>2
  <2> QED
    BY <2>1, <2>2 DEF TypeOK, RowsThere
<1>2. Leased'
  BY GoingOn DEF Leased, GoesOn, Posting, TypeOK
<1>3. AttemptsBounded'
  <2> SUFFICES ASSUME NEW x \in Deliveries
               PROVE  attempts[x] + Cardinality(PastClaim(x)') < MaxAttempts + Cardinality(Calls) + failures'
    BY DEF AttemptsBounded
  <2>1. Cardinality(PastClaim(x)') \in {Cardinality(PastClaim(x)), Cardinality(PastClaim(x)) - 1}
    BY GoingOn
  <2> QED
    BY <2>1, PastClaimFinite DEF AttemptsBounded, TypeOK
<1> QED
  BY <1>1, <1>2, <1>3

\* One that records an attempt, and ends it unless the answer of the database is lost.
LEMMA RecordedStep ==
    ASSUME IndInv, NEW c \in Calls, NEW d \in Deliveries, NEW what, GoesOn(c, d, what),
           NEW ok \in BOOLEAN, Record(d, ok),
           failures' \in {failures, failures + 1}, failures' <= MaxFailures,
           what = "none" \/ failures' = failures + 1,
           UNCHANGED <<active, sold, lapsed, confirmed>>
    PROVE  IndInv'
<1> USE BoundsAssumption DEF IndInv
<1>1. /\ \A b \in Calls : job[b][d] # "claimed"
      /\ status[d] # "none" /\ d[2] \in sold /\ NewStatus(d, ok) \in {"pending", "delivered", "failed"}
      /\ attempts[d] + 1 >= MaxAttempts => NewStatus(d, ok) \in {"delivered", "failed"}
  BY DEF Record, Locked, GoesOn, Posting, RowsThere, NewStatus, GivesUp
<1>2. /\ attempts' = [attempts EXCEPT ![d] = @ + 1]
      /\ status' = [status EXCEPT ![d] = NewStatus(d, ok)]
      /\ due' \in [Deliveries -> BOOLEAN] /\ \A x \in Deliveries : due'[x] => due[x]
  BY DEF Record, TypeOK
<1>3. \A x \in Deliveries \ {d} : due'[x] = due[x]
  BY DEF Record, TypeOK
<1>4. TypeOK'
  BY <1>1, <1>2, <1>3, GoingOn DEF TypeOK
<1>5. RowsThere'
  BY <1>1, <1>2, GoingOn DEF TypeOK, RowsThere, GoesOn, Posting
<1>6. Leased'
  <2> SUFFICES ASSUME NEW x \in Deliveries \ lapsed
               PROVE  /\ \A a, b \in Calls : job'[a][x] # "none" /\ job'[b][x] # "none" => a = b
                      /\ \A b \in Calls : job'[b][x] \in Posting => ~due'[x]
                      /\ failures' = 0 => \A b \in Calls : job'[b][x] # "none" => status'[x] = "pending"
    BY DEF Leased
  <2>1. CASE x = d
    <3>1. \A b \in Calls \ {c} : job'[b][d] = "none"
      BY <2>1, GoingOn DEF Leased, GoesOn, Posting
    <3>2. job'[c][d] = what /\ (what # "none" => failures' # 0)
      BY GoingOn DEF TypeOK
    <3>3. ~due'[d]
      BY <1>2, <2>1 DEF Leased, GoesOn
    <3> QED
      BY <2>1, <3>1, <3>2, <3>3 DEF Posting
  <2>2. CASE x # d
    <3>1. status'[x] = status[x] /\ \A b \in Calls : job'[b][x] = job[b][x]
      BY <1>2, <2>2, GoingOn DEF TypeOK
    <3>2. failures' = 0 => failures = 0
      BY DEF TypeOK
    <3> QED
      BY <1>2, <3>1, <3>2 DEF Leased
  <2> QED
    BY <2>1, <2>2
<1>7. AttemptsBounded'
  <2> SUFFICES ASSUME NEW x \in Deliveries
               PROVE  /\ attempts'[x] >= MaxAttempts => status'[x] \in {"delivered", "failed"}
                      /\ attempts'[x] + Cardinality(PastClaim(x)')
                             < MaxAttempts + Cardinality(Calls) + failures'
    BY DEF AttemptsBounded
  <2>1. /\ attempts[x] \in Nat /\ Cardinality(PastClaim(x)) \in Nat /\ Cardinality(Calls) \in Nat
        /\ failures \in Nat
        /\ attempts[x] + Cardinality(PastClaim(x)) < MaxAttempts + Cardinality(Calls) + failures
    BY PastClaimFinite DEF TypeOK, AttemptsBounded
  <2>2. CASE x = d
    <3>1. attempts'[x] = attempts[x] + 1 /\ status'[x] = NewStatus(d, ok)
      BY <1>2, <2>2 DEF TypeOK
    <3>2. Cardinality(PastClaim(x)') =
              IF what = "none" THEN Cardinality(PastClaim(x)) - 1 ELSE Cardinality(PastClaim(x))
      BY <2>2, GoingOn
    <3> QED
      BY <1>1, <2>1, <2>2, <3>1, <3>2
  <2>3. CASE x # d
    <3>1. attempts'[x] = attempts[x] /\ status'[x] = status[x]
          /\ Cardinality(PastClaim(x)') = Cardinality(PastClaim(x))
      BY <1>2, <2>3, GoingOn DEF TypeOK
    <3> QED
      BY <2>1, <3>1 DEF AttemptsBounded
  <2> QED
    BY <2>2, <2>3
<1> QED
  BY <1>4, <1>5, <1>6, <1>7

LEMMA CrashStep ==
    ASSUME IndInv, NEW c \in Calls, Crash(c)
    PROVE  IndInv'
<1> USE BoundsAssumption DEF IndInv
<1>1. /\ \A d \in Deliveries : job'[c][d] = "none"
      /\ \A d \in Deliveries : \A b \in Calls \ {c} : job'[b][d] = job[b][d]
      /\ job' \in [Calls -> [Deliveries -> Jobs]]
      /\ failures' = failures + 1 /\ failures' \in 0..MaxFailures
      /\ UNCHANGED <<active, sold, status, attempts, due, lapsed, confirmed>>
  BY DEF Crash, TypeOK, Jobs, rows
<1>2. TypeOK' /\ RowsThere'
  BY <1>1, ZenonT(30) DEF TypeOK, RowsThere
<1>3. Leased'
  <2>1. \A b \in Calls : \A d \in Deliveries :
            /\ job'[b][d] # "none" => job[b][d] # "none"
            /\ job'[b][d] \in Posting => job[b][d] \in Posting
    BY <1>1 DEF Posting
  <2>2. failures' # 0
    BY <1>1 DEF TypeOK
  <2> QED
    BY <1>1, <2>1, <2>2 DEF Leased
<1>4. AttemptsBounded'
  <2> SUFFICES ASSUME NEW d \in Deliveries
               PROVE  attempts[d] + Cardinality(PastClaim(d)') < MaxAttempts + Cardinality(Calls) + failures'
    BY <1>1 DEF AttemptsBounded
  <2>1. PastClaim(d)' \in SUBSET PastClaim(d)
    BY <1>1 DEF PastClaim, Posting
  <2>2. Cardinality(PastClaim(d)') <= Cardinality(PastClaim(d)) /\ Cardinality(PastClaim(d)') \in Nat
    BY <2>1, PastClaimFinite, FS_Subset, FS_CardinalityType
  <2> QED
    BY <1>1, <2>2, PastClaimFinite DEF AttemptsBounded, TypeOK
<1> QED
  BY <1>2, <1>3, <1>4

LEMMA NextInvariant ==
    ASSUME IndInv, [Next]_vars
    PROVE  IndInv'
<1>1. ASSUME NEW c \in Calls, NEW d \in Deliveries, Answered(c, d) \/ Refused(c, d)
      PROVE  IndInv'
  <2>1. \E what \in {"ok", "bad", "caught"} : GoesOn(c, d, what)
    BY <1>1 DEF Answered, Refused, NowDoing, GoesOn, Posting
  <2>2. UNCHANGED <<active, sold, status, attempts, due, lapsed>> /\ failures' = failures
        /\ failures <= MaxFailures /\ confirmed' \subseteq Deliveries
    BY <1>1 DEF Answered, Refused, rows, IndInv, TypeOK
  <2> QED
    BY <2>1, <2>2, UnrecordedStep
<1>2. ASSUME NEW c \in Calls, NEW d \in Deliveries, RecordAttempt(c, d)
      PROVE  IndInv'
  <2>1. GoesOn(c, d, "none") /\ \E ok \in BOOLEAN : Record(d, ok)
    BY <1>2 DEF RecordAttempt, NowDoing, GoesOn, Posting
  <2>2. UNCHANGED <<active, sold, lapsed, confirmed>> /\ failures' = failures
        /\ failures <= MaxFailures
    BY <1>2 DEF RecordAttempt, IndInv, TypeOK
  <2> QED
    BY <2>1, <2>2, RecordedStep
<1>3. ASSUME NEW c \in Calls, NEW d \in Deliveries, RecordError(c, d)
      PROVE  IndInv'
  <2>1. \E what \in {"none", "caught"} : GoesOn(c, d, what)
    BY <1>3 DEF RecordError, NowDoing, GoesOn, Posting
  <2>2. UNCHANGED rows \/ \E ok \in BOOLEAN : Record(d, ok)
    BY <1>3 DEF RecordError
  <2>3. UNCHANGED <<active, sold, lapsed, confirmed>> /\ failures' = failures + 1
        /\ failures' <= MaxFailures /\ confirmed \subseteq Deliveries
    BY <1>3, BoundsAssumption DEF RecordError, IndInv, TypeOK
  <2> QED
    BY <2>1, <2>2, <2>3, UnrecordedStep, RecordedStep DEF rows
<1>4. CASE UNCHANGED vars
  BY <1>4 DEF vars, rows, IndInv, TypeOK, RowsThere, Leased, AttemptsBounded, PastClaim
<1> QED
  BY <1>1, <1>2, <1>3, <1>4, WorldSteps, ClaimStep, CommitClaimStep, CrashStep DEF Next, Dispatch

\* Every variable of the delivery keeps its type, for any number of calls.
THEOREM WebhooksTyped == Spec => []TypeOK
<1>1. IndInv => TypeOK
  BY DEF IndInv
<1> QED
  BY <1>1, InitInvariant, NextInvariant, PTL DEF Spec

\* For any number of overlapping calls: SKIP LOCKED and the lease keep two of them from being
\* busy with one delivery, unless it came due again while an attempt was under way.
THEOREM ClaimsExclude == Spec => []OneAttemptPerLease
<1>1. IndInv => OneAttemptPerLease
  <2> SUFFICES ASSUME IndInv, NEW d \in Deliveries \ lapsed
               PROVE  Cardinality(Attempting(d)) <= 1
    BY DEF OneAttemptPerLease
  <2>1. \A b, c \in Attempting(d) : b = c
    BY DEF IndInv, Leased, Attempting
  <2>2. CASE Attempting(d) = {}
    BY <2>2, FS_EmptySet
  <2>3. CASE Attempting(d) # {}
    <3>1. PICK c : c \in Attempting(d)
      BY <2>3
    <3>2. Attempting(d) = {c}
      BY <2>1, <3>1
    <3> QED
      BY <3>2, FS_Singleton
  <2> QED
    BY <2>2, <2>3
<1> QED
  BY <1>1, InitInvariant, NextInvariant, PTL DEF Spec

\* For any MaxAttempts, whatever fails: a delivery that has used up its attempts is never
\* pending again, and only those under way, and lost answers, add to them.
THEOREM GivenUpStays == Spec => []GivenUpForGood
<1>1. IndInv => GivenUpForGood
  <2> SUFFICES ASSUME IndInv, NEW d \in Deliveries
               PROVE  {c \in Attempting(d) : job[c][d] # "claimed"} = PastClaim(d)
    BY DEF IndInv, AttemptsBounded, GivenUpForGood
  <2>1. \A c \in Calls : job[c][d] \in Jobs
    BY DEF IndInv, TypeOK
  <2> QED
    BY <2>1 DEF Attempting, PastClaim, Posting, Jobs
<1> QED
  BY <1>1, InitInvariant, NextInvariant, PTL DEF Spec

\* Whatever the interleaving: a row that is delivered stays so, unless a second attempt had
\* overlapped or recording one failed.
THEOREM ConfirmedOnce == Spec => DeliveredIsFinal
<1>1. ASSUME IndInv, [Next]_vars, NEW d \in Deliveries \ lapsed, failures = 0,
             status[d] = "delivered"
      PROVE  status'[d] = "delivered"
  <2>1. \A c \in Calls : job[c][d] = "none"
    BY <1>1 DEF IndInv, Leased
  <2>2. ASSUME NEW c \in Calls, NEW x \in Deliveries, RecordAttempt(c, x) \/ RecordError(c, x)
        PROVE  status'[d] = "delivered"
    <3>1. x # d
      BY <2>1, <2>2 DEF RecordAttempt, RecordError
    <3>2. UNCHANGED status \/ \E ok \in BOOLEAN : status' = [status EXCEPT ![x] = NewStatus(x, ok)]
      BY <2>2 DEF RecordAttempt, RecordError, Record, rows
    <3> QED
      BY <1>1, <3>1, <3>2 DEF IndInv, TypeOK
  <2>3. ASSUME NEW e \in Sales, Sell(e)
        PROVE  status'[d] = "delivered"
    <3>1. d \notin active \X {e}
      BY <1>1, <2>3 DEF Sell, IndInv, RowsThere
    <3> QED
      BY <1>1, <2>3, <3>1 DEF Sell
  <2>4. ASSUME NEW c \in Calls, NEW x \in Deliveries,
               Claim(c) \/ CommitClaim(c) \/ Crash(c) \/ Answered(c, x) \/ Refused(c, x)
        PROVE  status' = status
    BY <2>4 DEF Claim, CommitClaim, Crash, Answered, Refused, rows
  <2>5. ASSUME \E c \in Calls : Claim(c) \/ CommitClaim(c) \/ Crash(c)
        PROVE  status' = status
    BY <2>5 DEF Claim, CommitClaim, Crash, rows
  <2>6. ASSUME \/ \E s \in Subscriptions : Subscribe(s) \/ Unsubscribe(s)
               \/ \E x \in Deliveries : ComeDue(x)
               \/ UNCHANGED vars
        PROVE  status' = status
    BY <2>6 DEF Subscribe, Unsubscribe, ComeDue, vars, rows
  <2> QED
    BY <1>1, <2>2, <2>3, <2>4, <2>5, <2>6 DEF Next, Dispatch
<1>2. IndInv /\ [Next]_vars =>
          [\A d \in Deliveries \ lapsed :
               failures = 0 /\ status[d] = "delivered" => status'[d] = "delivered"]_vars
  BY <1>1
<1> QED
  BY <1>2, InitInvariant, NextInvariant, PTL DEF Spec, DeliveredIsFinal

(***************************************************************************)
(* Delivery implements DeliveryBook.                                       *)
(***************************************************************************)

\* A call that is about to record a success has had the receiver's answer.
SuccessesConfirmed ==
    \A c \in Calls : \A d \in Deliveries : job[c][d] = "ok" => d \in confirmed

LEMMA NextKeepsConfirmed ==
    ASSUME TypeOK, SuccessesConfirmed, [Next]_vars
    PROVE  SuccessesConfirmed'
<1> USE DEF TypeOK
<1>1. ASSUME NEW c \in Calls, Claim(c) \/ CommitClaim(c) \/ Crash(c)
      PROVE  SuccessesConfirmed'
  BY <1>1 DEF Claim, CommitClaim, Crash, SuccessesConfirmed, Jobs
<1>2. ASSUME NEW c \in Calls, NEW d \in Deliveries,
             Answered(c, d) \/ Refused(c, d) \/ RecordAttempt(c, d) \/ RecordError(c, d)
      PROVE  SuccessesConfirmed'
  <2>1. \E what \in {"ok", "bad", "none", "caught"} :
            /\ job' = [job EXCEPT ![c][d] = what] /\ confirmed \subseteq confirmed'
            /\ what = "ok" => d \in confirmed'
    BY <1>2 DEF Answered, Refused, RecordAttempt, RecordError, NowDoing
  <2>2. \A b \in Calls : \A x \in Deliveries :
            job'[b][x] = "ok" => x \in confirmed' \/ job[b][x] = "ok"
    BY <2>1
  <2> QED
    BY <2>1, <2>2 DEF SuccessesConfirmed
<1>3. CASE UNCHANGED <<job, confirmed>>
  BY <1>3 DEF SuccessesConfirmed
<1> QED
  BY <1>1, <1>2, <1>3 DEF Next, Dispatch, Subscribe, Unsubscribe, Sell, ComeDue, vars

\* The one UPDATE of an attempt is an entry in the book.
LEMMA RecordIsATry ==
    ASSUME IndInv, SuccessesConfirmed, NEW c \in Calls, NEW d \in Deliveries,
           job[c][d] \in {"ok", "bad", "caught"}, Record(d, job[c][d] = "ok"),
           UNCHANGED <<active, sold, confirmed>>
    PROVE  Book!Try(d)
<1>1. status[d] # "none" /\ (job[c][d] = "ok" => d \in confirmed) /\ attempts[d] \in Nat
  BY DEF IndInv, RowsThere, SuccessesConfirmed, TypeOK
<1>2. NewStatus(d, job[c][d] = "ok") \in Book!Told(d, attempts[d] + 1)
  BY <1>1, BoundsAssumption DEF NewStatus, GivesUp, Book!Told
<1>3. /\ attempts' = [attempts EXCEPT ![d] = @ + 1]
      /\ status' = [status EXCEPT ![d] = NewStatus(d, job[c][d] = "ok")]
  BY DEF Record
<1> QED
  BY <1>1, <1>2, <1>3 DEF Book!Try

LEMMA NextRefinesBook ==
    ASSUME IndInv, SuccessesConfirmed, [Next]_vars
    PROVE  [Book!Next]_(Book!vars)
<1>d. Book!Deliveries = Deliveries
  BY DEF Book!Deliveries, Deliveries
<1>1. ASSUME NEW c \in Calls, NEW d \in Deliveries, RecordAttempt(c, d) \/ RecordError(c, d)
      PROVE  [Book!Next]_(Book!vars)
  <2>1. job[c][d] \in {"ok", "bad", "caught"} /\ UNCHANGED <<active, sold, confirmed>>
    BY <1>1 DEF RecordAttempt, RecordError
  <2>2. CASE Record(d, job[c][d] = "ok")
    BY <1>d, <2>1, <2>2, RecordIsATry DEF Book!Next
  <2>3. CASE UNCHANGED rows
    BY <2>1, <2>3 DEF rows, Book!vars
  <2> QED
    BY <1>1, <2>2, <2>3 DEF RecordAttempt, RecordError
<1>2. ASSUME NEW c \in Calls, NEW d \in Deliveries, Answered(c, d)
      PROVE  Book!Next
  <2>1. status[d] # "none"
    BY <1>2 DEF Answered, IndInv, RowsThere
  <2> QED
    BY <1>d, <1>2, <2>1 DEF Answered, rows, Book!Next, Book!Confirm
<1>3. ASSUME NEW e \in Sales, Sell(e)
      PROVE  Book!Next
  <2>1. \A d \in Deliveries : d \in active \X {e} <=> d[1] \in active /\ d[2] = e
    BY DEF Deliveries
  <2>2. status' = [d \in Deliveries |->
                      IF d[1] \in active /\ d[2] = e THEN "pending" ELSE status[d]]
    BY <1>3, <2>1 DEF Sell
  <2> QED
    BY <1>d, <1>3, <2>2 DEF Sell, Book!Next, Book!Announce
<1>4. ASSUME NEW s \in Subscriptions, Subscribe(s) \/ Unsubscribe(s)
      PROVE  Book!Next
  BY <1>4 DEF Subscribe, Unsubscribe, rows, IndInv, TypeOK, Book!Next, Book!ChangeSubscriptions
<1>5. ASSUME NEW c \in Calls, NEW d \in Deliveries,
             Claim(c) \/ CommitClaim(c) \/ Crash(c) \/ Refused(c, d)
      PROVE  UNCHANGED Book!vars
  BY <1>5 DEF Claim, CommitClaim, Crash, Refused, rows, Book!vars
<1>6. ASSUME NEW c \in Calls, Claim(c) \/ CommitClaim(c) \/ Crash(c)
      PROVE  UNCHANGED Book!vars
  BY <1>6 DEF Claim, CommitClaim, Crash, rows, Book!vars
<1>7. CASE UNCHANGED vars \/ \E d \in Deliveries : ComeDue(d)
  BY <1>7 DEF ComeDue, vars, rows, Book!vars
<1> QED
  BY <1>1, <1>2, <1>3, <1>4, <1>5, <1>6, <1>7 DEF Next, Dispatch

\* For any calls that overlap, crash or lose an answer: every change of a delivery is one
\* entry of one attempt, a delivered one was confirmed, a failed one has used up its
\* attempts, and a sale's deliveries are those of the subscriptions active at the sale.
THEOREM DeliveryImplementsBook == Spec => ImplementsDeliveryBook
<1>1. Init => Book!Init /\ SuccessesConfirmed
  BY DEF Init, Book!Init, Book!Deliveries, Deliveries, SuccessesConfirmed
<1>2. IndInv /\ SuccessesConfirmed /\ [Next]_vars => SuccessesConfirmed'
  BY NextKeepsConfirmed DEF IndInv
<1>3. IndInv /\ SuccessesConfirmed /\ [Next]_vars => [Book!Next]_(Book!vars)
  BY NextRefinesBook
<1> QED
  BY <1>1, <1>2, <1>3, InitInvariant, NextInvariant, PTL
  DEF Spec, Book!Spec, ImplementsDeliveryBook
=============================================================================
