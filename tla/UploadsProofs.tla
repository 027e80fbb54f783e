---------------------------- MODULE UploadsProofs ----------------------------
(***************************************************************************)
(* Proofs about Uploads, for any number of requests, any quota, any number *)
(* of days and of database errors.                                         *)
(***************************************************************************)
EXTENDS Uploads, TLAPS

\* What a request has come to tells what its form held, what Pinata has of it, and what has
\* become of its stream.
Clean(u) ==
    /\ pc[u] \in {"start", "quota"} => form[u].kind = "none" /\ stream[u] = "none"
    /\ pc[u] = "body" => /\ form[u].kind # "other"
                         /\ stream[u] = "none" <=> form[u].kind = "none"
    /\ pc[u] \in {"upload", "pinned"} => form[u].kind = "audio" /\ stream[u] # "open"
    /\ pc[u] \in {"start", "quota", "body", "upload"} => pin[u] = 0
    /\ pc[u] = "pinned" \/ answer[u] = 200 => pin[u] # 0
    /\ pin[u] # 0 => form[u].kind = "audio" /\ answer[u] \notin {400, 413, 415, 429}
    /\ pc[u] \in {"answered", "gone"} => stream[u] # "open"

\* How many of the row's statements kept the quota.
Kept == IF quota.count <= MaxDaily THEN quota.count ELSE MaxDaily

\* What straggling statements have let through so far, on any day.
Slack == MaxDaily * stragglers

\* The row's day has granted what the row says, and a full quota for every straggler; a day
\* the row has left may have granted another full quota, one that it was drawn back from
\* has had its own counted among the stragglers'.
WithinQuota(d) ==
    /\ d = quota.day => Kept <= granted[d] /\ granted[d] <= Slack + Kept
    /\ d > quota.day => granted[d] <= Slack
    /\ d < quota.day => granted[d] <= Slack + MaxDaily

RefusedInTruth(u) == answer[u] = 429 => granted[day[u]] >= MaxDaily

IndInv ==
    /\ TypeOK
    /\ \A u \in Uploads : Clean(u) /\ RefusedInTruth(u)
    /\ \A d \in Days : WithinQuota(d)

LEMMA InitInvariant == Init => IndInv
BY UploadsAssumption
   DEF Init, IndInv, TypeOK, Clean, RefusedInTruth, WithinQuota, Kept, Slack, Days, Kinds,
       MaxBytes, Unanswered, InProgress

\* One more straggler is worth one more quota.
LEMMA OneMoreStraggler ==
    ASSUME NEW s \in Nat
    PROVE  /\ MaxDaily * s \in Nat /\ MaxDaily * (s + 1) = MaxDaily * s + MaxDaily
           /\ MaxDaily * (1 + s) = MaxDaily * s + MaxDaily
BY UploadsAssumption

\* A step of request u after its quota has been checked leaves the quota alone, and the
\* other requests.
OwnStep(u) ==
    /\ UNCHANGED <<today, quota, day, counts, failures>>
    /\ \A v \in Uploads \ {u} :
        /\ pc'[v] = pc[v] /\ form'[v] = form[v] /\ body'[v] = body[v]
        /\ stream'[v] = stream[v] /\ pin'[v] = pin[v] /\ answer'[v] = answer[v]

LEMMA ParseSteps ==
    ASSUME IndInv, NEW u \in Uploads,
           Parse(u) \/ RequestCloses(u) \/ Disconnect(u) \/ Post(u)
    PROVE  TypeOK' /\ OwnStep(u) /\ Clean(u)' /\ answer'[u] # 429
<1> USE DEF IndInv, Goto, Over, Reply, Fails, Destroy, OnClose, counts
<1>t. /\ answer[u] = Unanswered /\ answer[u] # 429 /\ pc[u] \in {"body", "upload", "pinned"}
  BY DEF TypeOK, Parse, FileEvent, FileEnds, BodyRead, BusboyError, Finish, RequestCloses,
         Disconnect, Post, Pin, PinataAnswers, UploadFails, Unanswered
<1>1. ASSUME NEW kind \in {"audio", "other"}, NEW size \in 1..MaxBytes + 1, FileEvent(u, kind, size)
      PROVE  TypeOK' /\ OwnStep(u) /\ Clean(u)' /\ answer'[u] # 429
  <2>1. CASE Allowed(kind)
    <3>1. /\ form' = [form EXCEPT ![u] = [kind |-> "audio", size |-> size]] /\ pc[u] = "body"
          /\ stream' = [stream EXCEPT ![u] = "open"]
          /\ UNCHANGED <<today, quota, pc, day, body, pin, answer, granted, stragglers, failures>>
      BY <1>1, <2>1 DEF FileEvent, Allowed
    <3>2. TypeOK'
      BY <1>t, <3>1 DEF TypeOK, Kinds
    <3> QED
      BY <1>t, <3>1, <3>2 DEF TypeOK, OwnStep, Clean, Unanswered
  <2>2. CASE ~Allowed(kind)
    <3>1. /\ form' = [form EXCEPT ![u] = [kind |-> "other", size |-> size]]
          /\ pc' = [pc EXCEPT ![u] = "answered"] /\ answer' = [answer EXCEPT ![u] = 415]
          /\ body' = [body EXCEPT ![u] = "closed"] /\ pc[u] = "body"
          /\ stream' = [stream EXCEPT ![u] = IF @ = "none" THEN @ ELSE "destroyed"]
          /\ UNCHANGED <<today, quota, day, pin, granted, stragglers, failures>>
      BY <1>1, <2>2 DEF FileEvent, Allowed
    <3>2. TypeOK'
      BY <1>t, <3>1 DEF TypeOK, Kinds, Unanswered, InProgress
    <3> QED
      BY <1>t, <3>1, <3>2 DEF TypeOK, OwnStep, Clean
  <2> QED
    BY <2>1, <2>2
<1>2. CASE FileEnds(u)
  <2>1. ~(Passed(form[u].size) > MaxBytes)
    BY DEF TypeOK, Passed, MaxBytes
  <2> QED
    BY <1>t, <1>2, <2>1 DEF TypeOK, OwnStep, Clean, FileEnds
<1>3. CASE BodyRead(u)
  BY <1>t, <1>3 DEF TypeOK, OwnStep, Clean, BodyRead
<1>4. CASE BusboyError(u)
  BY <1>t, <1>4 DEF TypeOK, OwnStep, Clean, BusboyError, InProgress, Unanswered
<1>5. CASE Finish(u)
  <2>1. CASE stream[u] = "none"
    <3>1. /\ pc[u] = "body" /\ pc' = [pc EXCEPT ![u] = "answered"]
          /\ answer' = [answer EXCEPT ![u] = 400] /\ body' = [body EXCEPT ![u] = "closed"]
          /\ stream' = [stream EXCEPT ![u] = IF @ = "none" THEN @ ELSE "destroyed"]
          /\ UNCHANGED <<today, quota, day, form, pin, granted, stragglers, failures>>
      BY <1>5, <2>1 DEF Finish
    <3>2. TypeOK'
      BY <1>t, <3>1 DEF TypeOK, InProgress, Unanswered
    <3> QED
      BY <1>t, <2>1, <3>1, <3>2 DEF TypeOK, OwnStep, Clean
  <2>2. CASE stream[u] # "none"
    <3>1. form[u].kind = "audio" /\ stream[u] # "open" /\ pc[u] = "body" /\ pc' = [pc EXCEPT ![u] = "upload"]
          /\ UNCHANGED <<today, quota, day, form, body, stream, pin, answer, counts, failures>>
      BY <1>5, <2>2 DEF Finish, Clean, TypeOK, Kinds
    <3> QED
      BY <1>t, <3>1 DEF TypeOK, OwnStep, Clean, InProgress
  <2> QED
    BY <2>1, <2>2
<1>6. CASE RequestCloses(u)
  BY <1>t, <1>6 DEF TypeOK, OwnStep, Clean, RequestCloses
<1>7. CASE Disconnect(u)
  BY <1>t, <1>7 DEF TypeOK, OwnStep, Clean, Disconnect, InProgress, Unanswered
<1>8. CASE Pin(u)
  <2>1. Passed(form[u].size) \in 0..MaxBytes /\ Passed(form[u].size) # 0
    BY DEF TypeOK, Passed, MaxBytes
  <2> QED
    BY <1>t, <1>8, <2>1 DEF TypeOK, OwnStep, Clean, Pin, InProgress, Unanswered
<1>9. CASE PinataAnswers(u)
  BY <1>t, <1>9 DEF TypeOK, OwnStep, Clean, PinataAnswers, InProgress, Unanswered
<1>10. CASE UploadFails(u)
  BY <1>t, <1>10 DEF TypeOK, OwnStep, Clean, UploadFails, InProgress, Unanswered
<1> QED
  BY <1>1, <1>2, <1>3, <1>4, <1>5, <1>6, <1>7, <1>8, <1>9, <1>10
     DEF Parse, Post, MaxBytes

LEMMA OwnStepKeepsInvariant ==
    ASSUME IndInv, NEW u \in Uploads, TypeOK', OwnStep(u), Clean(u)', answer'[u] # 429
    PROVE  IndInv'
<1>1. \A v \in Uploads \ {u} : Clean(v)'
  BY DEF IndInv, OwnStep, Clean, Passed
<1>2. \A v \in Uploads : RefusedInTruth(v)'
  BY DEF IndInv, OwnStep, RefusedInTruth, counts
<1>3. \A d \in Days : WithinQuota(d)'
  BY DEF IndInv, OwnStep, WithinQuota, Kept, Slack, counts
<1> QED
  BY <1>1, <1>2, <1>3 DEF IndInv

\* The statement, by the day it started on and the day of the row.
LEMMA CheckQuotaKeepsInvariant ==
    ASSUME IndInv, NEW u \in Uploads, CheckQuota(u)
    PROVE  IndInv'
<1> DEFINE n == CountOn(day[u])
<1> USE UploadsAssumption DEF IndInv
<1>1. /\ n \in Nat \ {0} /\ day[u] \in Days /\ pc[u] = "quota" /\ answer[u] = Unanswered
      /\ quota' = [count |-> n, day |-> day[u]] /\ UNCHANGED <<today, day, form, stream, pin, failures>>
      /\ stragglers' = IF day[u] < quota.day THEN stragglers + 1 ELSE stragglers
  BY DEF CheckQuota, CountOn, TypeOK, Unanswered, Days
<1>2. CASE n <= MaxDaily
  <2>1. /\ granted' = [granted EXCEPT ![day[u]] = @ + 1] /\ pc' = [pc EXCEPT ![u] = "body"]
        /\ UNCHANGED <<body, answer>>
    BY <1>2 DEF CheckQuota, Goto
  <2>2. TypeOK'
    BY <1>1, <2>1 DEF TypeOK, InProgress, Unanswered, Days
  <2>3. ASSUME NEW v \in Uploads
        PROVE  Clean(v)'
    <3>1. CASE v = u
      <4>1. form[u].kind = "none" /\ stream[u] = "none" /\ pin[u] = 0
        BY <1>1 DEF Clean
      <4> QED
        BY <1>1, <2>1, <3>1, <4>1 DEF TypeOK, Clean, Unanswered
    <3>2. CASE v # u
      BY <1>1, <2>1, <3>2 DEF TypeOK, Clean, Passed
    <3> QED
      BY <3>1, <3>2
  <2>4. \A v \in Uploads : RefusedInTruth(v)'
    BY <1>1, <2>1 DEF TypeOK, RefusedInTruth
  <2>5. ASSUME NEW d \in Days
        PROVE  WithinQuota(d)'
    <3>1. /\ Kept' = n /\ Kept \in 0..MaxDaily
          /\ d \in Int /\ quota.day \in Int /\ day[u] \in Int /\ granted[d] \in Nat
          /\ granted'[d] = IF d = day[u] THEN granted[d] + 1 ELSE granted[d]
      BY <1>1, <1>2, <2>1 DEF TypeOK, Kept, Days
    <3>2. Slack \in Nat /\ Slack' = IF day[u] < quota.day THEN Slack + MaxDaily ELSE Slack
      BY <1>1, OneMoreStraggler DEF TypeOK, Slack
    <3>3. WithinQuota(d) /\ (day[u] = quota.day => n = quota.count + 1 /\ Kept = quota.count)
          /\ (day[u] # quota.day => n = 1)
      BY <1>2 DEF CountOn, Kept, TypeOK
    <3>4. quota'.day = day[u]
      BY <1>1
    <3> QED
      BY <3>1, <3>2, <3>3, <3>4 DEF WithinQuota
  <2> QED
    BY <2>2, <2>3, <2>4, <2>5
<1>3. CASE n > MaxDaily
  <2>1. /\ granted' = granted /\ pc' = [pc EXCEPT ![u] = "answered"]
        /\ body' = [body EXCEPT ![u] = "closed"] /\ answer' = [answer EXCEPT ![u] = 429]
    BY <1>1, <1>3 DEF CheckQuota, Goto, Reply, Over
  <2>2. TypeOK'
    BY <1>1, <2>1 DEF TypeOK, InProgress, Unanswered, Days
  <2>3. ASSUME NEW v \in Uploads
        PROVE  Clean(v)'
    <3>1. CASE v = u
      BY <1>1, <2>1, <3>1 DEF TypeOK, Clean
    <3>2. CASE v # u
      BY <1>1, <2>1, <3>2 DEF TypeOK, Clean, Passed
    <3> QED
      BY <3>1, <3>2
  <2>4. day[u] = quota.day /\ quota.count >= MaxDaily /\ n = quota.count + 1 /\ stragglers' = stragglers
    BY <1>1, <1>3 DEF CountOn, TypeOK, Days
  <2>5. Kept = MaxDaily /\ Kept' = MaxDaily /\ granted[day[u]] >= MaxDaily
    <3>1. Kept = MaxDaily
      BY <2>4 DEF Kept, TypeOK
    <3>2. quota'.count = n /\ ~(n <= MaxDaily)
      BY <1>1, <1>3
    <3>3. Kept' = MaxDaily
      BY <3>2 DEF Kept
    <3> QED
      BY <1>1, <2>4, <3>1, <3>3 DEF WithinQuota
  <2>6. \A v \in Uploads : RefusedInTruth(v)'
    BY <1>1, <2>1, <2>5 DEF TypeOK, RefusedInTruth
  <2>7. \A d \in Days : WithinQuota(d)'
    BY <1>1, <2>1, <2>4, <2>5 DEF WithinQuota, Slack
  <2> QED
    BY <2>2, <2>3, <2>6, <2>7
<1> QED
  BY <1>1, <1>2, <1>3 DEF Days

LEMMA NextInvariant ==
    ASSUME IndInv, [Next]_vars
    PROVE  IndInv'
<1> USE UploadsAssumption DEF IndInv
<1>1. CASE Midnight
  BY <1>1, SMTT(30) DEF Midnight, TypeOK, Clean, RefusedInTruth, WithinQuota, Kept, Slack, Passed, Days,
              request, counts
<1>2. ASSUME NEW u \in Uploads, Begin(u)
      PROVE  IndInv'
  <2>1. TypeOK'
    BY <1>2 DEF Begin, TypeOK, Goto, counts, InProgress, Unanswered
  <2>2. \A v \in Uploads : Clean(v)'
    BY <1>2 DEF Begin, Goto, TypeOK, Clean, Passed, Unanswered
  <2>3. \A v \in Uploads : RefusedInTruth(v)'
    BY <1>2 DEF Begin, TypeOK, RefusedInTruth, Unanswered, counts
  <2>4. \A d \in Days : WithinQuota(d)'
    BY <1>2 DEF Begin, WithinQuota, Kept, Slack, counts
  <2> QED
    BY <2>1, <2>2, <2>3, <2>4
<1>3. ASSUME NEW u \in Uploads, QuotaFails(u) \/ BusboyThrows(u)
      PROVE  IndInv'
  <2>1. /\ ProcessDies /\ failures' \in 0..MaxFailures
        /\ UNCHANGED <<today, quota, day, form, pin, answer, counts>>
    BY <1>3 DEF QuotaFails, BusboyThrows, TypeOK
  <2>2. TypeOK'
    BY <2>1 DEF ProcessDies, TypeOK, counts, InProgress, Unanswered
  <2>3. \A v \in Uploads : Clean(v)'
    BY <2>1 DEF ProcessDies, TypeOK, Clean, InProgress
  <2>4. \A v \in Uploads : RefusedInTruth(v)'
    BY <2>1 DEF TypeOK, RefusedInTruth, counts
  <2>5. \A d \in Days : WithinQuota(d)'
    BY <2>1 DEF WithinQuota, Kept, Slack, counts
  <2> QED
    BY <2>2, <2>3, <2>4, <2>5
<1>4. CASE UNCHANGED vars
  BY <1>4 DEF vars, TypeOK, Clean, RefusedInTruth, WithinQuota, Kept, Slack, Passed, request, counts
<1> QED
  BY <1>1, <1>2, <1>3, <1>4, ParseSteps, OwnStepKeepsInvariant, CheckQuotaKeepsInvariant DEF Next

\* Every variable of the upload route keeps its type, for any number of requests.
THEOREM UploadsTyped == Spec => []TypeOK
<1>1. IndInv => TypeOK
  BY DEF IndInv
<1> QED
  BY <1>1, InitInvariant, NextInvariant, PTL DEF Spec

\* For any quota, however statements wait for the row over however many midnights: a day
\* grants MaxDaily uploads, and MaxDaily more for every statement that came late to the row.
THEOREM QuotaHolds == Spec => []QuotaPerDay
<1>1. IndInv => QuotaPerDay
  <2> SUFFICES ASSUME IndInv
               PROVE  QuotaPerDay
    OBVIOUS
  <2>1. \A d \in Days : granted[d] <= MaxDaily * (1 + stragglers)
    <3> TAKE d \in Days
    <3>1. Slack \in Nat /\ MaxDaily * (1 + stragglers) = Slack + MaxDaily
      BY OneMoreStraggler DEF IndInv, TypeOK, Slack
    <3>2. Kept <= MaxDaily /\ Kept \in Nat /\ d \in Int /\ quota.day \in Int /\ granted[d] \in Nat
      BY UploadsAssumption DEF IndInv, TypeOK, Kept, Days
    <3> QED
      BY <3>1, <3>2, UploadsAssumption DEF IndInv, WithinQuota
  <2> QED
    BY <2>1 DEF IndInv, RefusedInTruth, QuotaPerDay
<1> QED
  BY <1>1, InitInvariant, NextInvariant, PTL DEF Spec

\* Whatever the order of the events of a request, of its form and of Pinata, and however often
\* the process dies: 200 is answered for a file that is pinned, nothing is pinned behind a
\* refusal or of a type that is not allowed, and no stream is left open.
THEOREM RequestsEndCleanly == Spec => []EndsCleanly
<1>1. IndInv => EndsCleanly
  BY DEF IndInv, Clean, EndsCleanly
<1> QED
  BY <1>1, InitInvariant, NextInvariant, PTL DEF Spec
=============================================================================
