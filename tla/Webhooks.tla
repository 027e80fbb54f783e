------------------------------ MODULE Webhooks ------------------------------
(***************************************************************************)
(* Webhook delivery: subscriptions (src/routes/webhooks.ts), deliveries    *)
(* enqueued for every sale, and dispatchDueWebhooks                        *)
(* (src/services/webhookDispatcher.ts), which claims the deliveries that   *)
(* are due, posts them and records each attempt                            *)
(* (src/db/webhookRepository.ts).                                          *)
(*                                                                         *)
(* A call of dispatchDueWebhooks is one member of Calls.  Its posts run    *)
(* concurrently, and when one of them rejects the others go on in the      *)
(* background while the process starts another cycle: calls are therefore  *)
(* what can overlap, whatever process makes them, and a call is made again *)
(* once all its posts have ended.                                          *)
(*                                                                         *)
(* Of a delivery's next_attempt_at only whether it has come is kept:       *)
(* due[d].  Leases and backoffs clear it, and time sets it again; nothing  *)
(* in the code keeps an attempt from lasting longer than either.           *)
(***************************************************************************)
EXTENDS Integers, FiniteSets

CONSTANTS
    Subscriptions,  \* a producer's target URLs
    Sales,
    Calls,          \* calls of dispatchDueWebhooks that may overlap
    BatchSize,      \* LIMIT 25
    MaxAttempts,    \* 10
    MaxFailures     \* bound: crashes and database errors

ASSUME BoundsAssumption ==
    /\ BatchSize \in Nat \ {0} /\ MaxAttempts \in Nat \ {0} /\ MaxFailures \in Nat
    /\ IsFiniteSet(Calls) /\ IsFiniteSet(Subscriptions \X Sales)

Deliveries == Subscriptions \X Sales

VARIABLES
    active,    \* webhook_subscriptions.active; a row that was never there is not active
    sold,      \* the sales the indexer has committed
    status,    \* webhook_deliveries.status, "none" where there is no row
    attempts,  \* webhook_deliveries.attempts
    due,       \* next_attempt_at <= NOW()
    job,       \* job[c][d]: what call c is doing about delivery d
    lapsed,    \* history: the delivery came due again while an attempt was under way
    confirmed, \* history: the receiver has answered a post of the delivery with success
    failures

rows == <<status, attempts, due>>
vars == <<active, sold, rows, job, lapsed, confirmed, failures>>

\* "claimed": the claim's transaction is open and has the row locked; "post": the claim has
\* committed; "ok" and "bad": the answer is about to be recorded; "caught": the post or that
\* recording threw, and the catch is about to record a failure.
Jobs == {"none", "claimed", "post", "ok", "bad", "caught"}

TypeOK ==
    /\ active \subseteq Subscriptions /\ sold \subseteq Sales
    /\ status \in [Deliveries -> {"none", "pending", "delivered", "failed"}]
    /\ attempts \in [Deliveries -> Nat] /\ due \in [Deliveries -> BOOLEAN]
    /\ \A d \in Deliveries : status[d] = "none" => attempts[d] = 0 /\ ~due[d]
    /\ job \in [Calls -> [Deliveries -> Jobs]]
    /\ lapsed \subseteq Deliveries /\ confirmed \subseteq Deliveries
    /\ failures \in 0..MaxFailures

Init ==
    /\ active = {} /\ sold = {} /\ lapsed = {} /\ confirmed = {} /\ failures = 0
    /\ status = [d \in Deliveries |-> "none"]
    /\ attempts = [d \in Deliveries |-> 0] /\ due = [d \in Deliveries |-> FALSE]
    /\ job = [c \in Calls |-> [d \in Deliveries |-> "none"]]
----------------------------------------------------------------------------
(* Subscriptions, and the sales of the indexer.                            *)

\* createSubscription: a conflict on the address and URL makes the row active again.
Subscribe(s) ==
    /\ s \notin active /\ active' = active \cup {s}
    /\ UNCHANGED <<sold, rows, job, lapsed, confirmed, failures>>

\* deleteSubscription
Unsubscribe(s) ==
    /\ s \in active /\ active' = active \ {s}
    /\ UNCHANGED <<sold, rows, job, lapsed, confirmed, failures>>

\* enqueueSaleDelivery, for every active subscription of the seller; a sale is applied once.
Sell(e) ==
    LET new == active \X {e} IN
    /\ e \notin sold /\ sold' = sold \cup {e}
    /\ status' = [d \in Deliveries |-> IF d \in new THEN "pending" ELSE status[d]]
    /\ due' = [d \in Deliveries |-> due[d] \/ d \in new]
    /\ UNCHANGED <<active, attempts, job, lapsed, confirmed, failures>>

UnderWay(d) == \E c \in Calls : job[c][d] \in {"post", "ok", "bad", "caught"}

\* A lease or a backoff runs out.
ComeDue(d) ==
    /\ status[d] = "pending" /\ ~due[d] /\ due' = [due EXCEPT ![d] = TRUE]
    /\ lapsed' = lapsed \cup {x \in {d} : UnderWay(x)}
    /\ UNCHANGED <<active, sold, status, attempts, job, confirmed, failures>>
----------------------------------------------------------------------------
(* claimDueDeliveries.                                                     *)

\* Another claim's transaction holds the row.
Locked(d) == \E c \in Calls : job[c][d] = "claimed"

\* Mutant of Claimable.
ClaimableOnce(d) == status[d] = "pending" /\ due[d] /\ d[1] \in active /\ attempts[d] = 0

\* WHERE status = 'pending' AND next_attempt_at <= NOW() AND s.active
Claimable(d) == status[d] = "pending" /\ due[d] /\ d[1] \in active

Idle(c) == \A d \in Deliveries : job[c][d] = "none"

\* SELECT ... FOR UPDATE OF d SKIP LOCKED LIMIT 25.  Which of more than that many comes first
\* depends on next_attempt_at, and is left open.
Claim(c) ==
    LET free == {d \in Deliveries : Claimable(d) /\ ~Locked(d)} IN
    /\ Idle(c)
    /\ \E batch \in SUBSET free \ {{}} :
        /\ Cardinality(batch) <= BatchSize
        /\ Cardinality(batch) < BatchSize => batch = free
        /\ job' = [job EXCEPT ![c] = [d \in Deliveries |->
                       IF d \in batch THEN "claimed" ELSE "none"]]
    /\ UNCHANGED <<active, sold, rows, lapsed, confirmed, failures>>

\* Mutant of Lease.
NoLease(batch) == due

\* next_attempt_at = NOW() + INTERVAL '5 minutes'
Lease(batch) == [d \in Deliveries |-> due[d] /\ d \notin batch]

\* The UPDATEs of the claimed rows, and COMMIT.
CommitClaim(c) ==
    LET batch == {d \in Deliveries : job[c][d] = "claimed"} IN
    /\ batch # {}
    /\ due' = Lease(batch)
    /\ job' = [job EXCEPT ![c] = [d \in Deliveries |->
                   IF d \in batch THEN "post" ELSE job[c][d]]]
    /\ UNCHANGED <<active, sold, status, attempts, lapsed, confirmed, failures>>
----------------------------------------------------------------------------
(* One attempt.                                                            *)

NowDoing(c, d, what) == job' = [job EXCEPT ![c][d] = what]

\* The receiver answers, and response.ok holds.
Answered(c, d) ==
    /\ job[c][d] = "post" /\ NowDoing(c, d, "ok")
    /\ confirmed' = confirmed \cup {d}
    /\ UNCHANGED <<active, sold, rows, lapsed, failures>>

\* It answers with another status; or fetch throws: a redirect, a timeout, a lost connection.
Refused(c, d) ==
    /\ job[c][d] = "post"
    /\ NowDoing(c, d, "bad") \/ NowDoing(c, d, "caught")
    /\ UNCHANGED <<active, sold, rows, lapsed, confirmed, failures>>

\* Mutant of GivesUp.
GivesUpOneLate(d) == attempts[d] >= MaxAttempts

\* attempts + 1 >= 10
GivesUp(d) == attempts[d] + 1 >= MaxAttempts

\* Mutant of NewStatus.
NewStatusRetry(d, ok) == IF ok THEN "delivered" ELSE IF GivesUp(d) THEN "failed" ELSE "retry"

\* Mutant of NewStatus.
NewStatusNeverFails(d, ok) == IF ok \/ GivesUp(d) THEN "delivered" ELSE "pending"

NewStatus(d, ok) ==
    IF ok THEN "delivered" ELSE IF GivesUp(d) THEN "failed" ELSE "pending"

\* recordDeliveryAttempt's UPDATE, which waits for a claim that has the row locked.
Record(d, ok) ==
    /\ ~Locked(d)
    /\ attempts' = [attempts EXCEPT ![d] = @ + 1]
    /\ status' = [status EXCEPT ![d] = NewStatus(d, ok)]
    /\ due' = [due EXCEPT ![d] = @ /\ (ok \/ GivesUp(d))]

RecordAttempt(c, d) ==
    /\ job[c][d] \in {"ok", "bad", "caught"}
    /\ Record(d, job[c][d] = "ok")
    /\ NowDoing(c, d, "none")
    /\ UNCHANGED <<active, sold, lapsed, confirmed, failures>>

\* recordDeliveryAttempt throws, before the UPDATE or with its answer lost: the catch records
\* a failed attempt, and where that is what threw the post's promise rejects.
RecordError(c, d) ==
    /\ job[c][d] \in {"ok", "bad", "caught"} /\ failures < MaxFailures
    /\ \/ UNCHANGED rows
       \/ Record(d, job[c][d] = "ok")
    /\ NowDoing(c, d, IF job[c][d] = "caught" THEN "none" ELSE "caught")
    /\ failures' = failures + 1
    /\ UNCHANGED <<active, sold, lapsed, confirmed>>

\* The process dies, or the claim's transaction is rolled back.
Crash(c) ==
    /\ ~Idle(c) /\ failures < MaxFailures
    /\ job' = [job EXCEPT ![c] = [d \in Deliveries |-> "none"]]
    /\ failures' = failures + 1
    /\ UNCHANGED <<active, sold, rows, lapsed, confirmed>>

Dispatch(c) ==
    \/ Claim(c) \/ CommitClaim(c)
    \/ \E d \in Deliveries : Answered(c, d) \/ Refused(c, d) \/ RecordAttempt(c, d)

Next ==
    \/ \E c \in Calls : Dispatch(c) \/ Crash(c) \/ \E d \in Deliveries : RecordError(c, d)
    \/ \E s \in Subscriptions : Subscribe(s) \/ Unsubscribe(s)
    \/ \E e \in Sales : Sell(e)
    \/ \E d \in Deliveries : ComeDue(d)

Spec == Init /\ [][Next]_vars

\* The indexer calls dispatchDueWebhooks cycle after cycle (Indexer!CyclesEnd), a post ends
\* within ten seconds, and time passes.
Fairness ==
    /\ \A c \in Calls : WF_vars(Dispatch(c))
    /\ \A d \in Deliveries : WF_vars(ComeDue(d))
FairSpec == Spec /\ Fairness
----------------------------------------------------------------------------
(* Properties.                                                             *)

Attempting(d) == {c \in Calls : job[c][d] # "none"}

\* Claims exclude each other: one call at a time is busy with a delivery, unless its lease or
\* a backoff ran out while an attempt was still under way.
OneAttemptPerLease ==
    \A d \in Deliveries \ lapsed : Cardinality(Attempting(d)) <= 1

\* Nobody hears of a sale twice that the receiver confirmed: a delivered row goes back to
\* pending, or to failed, only where a second attempt had overlapped or an error was recorded.
DeliveredIsFinal ==
    [][\A d \in Deliveries \ lapsed :
           failures = 0 /\ status[d] = "delivered" => status'[d] = "delivered"]_vars

\* Claims, leases, overlapping attempts and lost answers together keep a book of attempts.
Book == INSTANCE DeliveryBook WITH subscribed <- active, announced <- sold,
                                   mark <- status, tries <- attempts
ImplementsDeliveryBook == Book!Spec

\* A delivery is given up after MaxAttempts attempts for good: whatever late attempts still
\* record, it is never pending again, and no more are recorded than were under way.
GivenUpForGood ==
    \A d \in Deliveries :
        /\ attempts[d] >= MaxAttempts => status[d] \in {"delivered", "failed"}
        /\ attempts[d] + Cardinality({c \in Attempting(d) : job[c][d] # "claimed"})
               < MaxAttempts + Cardinality(Calls) + failures

\* "At-least-once sale deliveries" (migration 0009): while its subscription stays active, a
\* delivery is attempted until it is delivered or given up, and then rests.
EveryDeliverySettles ==
    \A d \in Deliveries :
        <>[](status[d] # "none" /\ d[1] \in active)
            => <>[](status[d] \in {"delivered", "failed"})
=============================================================================
