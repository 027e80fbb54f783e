-------------------------- MODULE ModerationProofs --------------------------
(***************************************************************************)
(* Proofs about Moderation, for any number of requests, samples, files and *)
(* reports, and any number of failures.                                    *)
(***************************************************************************)
EXTENDS Moderation, TLAPS

Shaped == TypeOK /\ sample \in [Requests -> Samples \cup {"none"}]

\* A transaction of r is open, and has its sample's row.
Holds(r) == pc[r] \in {"report", "takedown", "dismiss", "resolved"}

OneHolder == \A r, q \in Requests : Holds(r) /\ Holds(q) /\ sample[r] = sample[q] => r = q

\* What a decision may change: a takedown any other status, a dismissal one with open flags.
Decides(r) ==
    \/ seen[r].status = "taken_down" /\ status[sample[r]] # "taken_down"
    \/ seen[r].status = "active" /\ Dismissable(status[sample[r]])

\* What a transaction has read is still so, and what a takedown has decided remains so.
Knows(r) ==
    /\ Holds(r) => seen[r].cid = cid[sample[r]]
    /\ pc[r] = "report" => seen[r].status = status[sample[r]]
    /\ pc[r] \in {"takedown", "dismiss", "resolved"} => Decides(r)
    /\ pc[r] = "resolved" => open[r] = OpenFlags(sample[r])
    /\ pc[r] = "unpin" => /\ status[sample[r]] = "taken_down"
                          /\ seen[r].cid = flipped[sample[r]] /\ seen[r].cid \in Files

ClearedForGood == \A s \in cleared : status[s] = "taken_down"

IndInv ==
    /\ Shaped /\ OneHolder /\ \A r \in Requests : Knows(r)
    /\ QueueMatchesFlags /\ UnpinnedWhatWasLive /\ ClearedForGood

LEMMA InitInvariant == Init => IndInv
BY ModerationAssumption
   DEF Init, IndInv, Shaped, TypeOK, OneHolder, Holds, Knows, QueueMatchesFlags, OpenFlags,
       UnpinnedWhatWasLive, ClearedForGood, Statuses, NoFlag, NoRow

\* What a step leaves of the samples that concern request q.
Undisturbed(q) ==
    /\ pc'[q] = pc[q] /\ sample'[q] = sample[q] /\ seen'[q] = seen[q] /\ open'[q] = open[q]
    /\ Holds(q) => /\ status'[sample[q]] = status[sample[q]] /\ cid'[sample[q]] = cid[sample[q]]
                   /\ OpenFlags(sample[q])' = OpenFlags(sample[q])
    /\ pc[q] = "unpin" => /\ status'[sample[q]] = status[sample[q]]
                          /\ flipped'[sample[q]] = flipped[sample[q]]

LEMMA StillKnows ==
    ASSUME NEW q \in Requests, Knows(q), Undisturbed(q)
    PROVE  Knows(q)'
<1>1. Holds(q)' <=> Holds(q)
  BY DEF Holds, Undisturbed
<1>2. CASE Holds(q)
  <2>1. OpenFlags(sample[q])' = {f \in FlagIds : flags'[f] = [sample |-> sample'[q], status |-> "open"]}
    BY DEF OpenFlags, Undisturbed
  <2>2. Decides(q)' <=> Decides(q)
    BY <1>2 DEF Undisturbed, Decides, Dismissable
  <2> QED
    BY <1>1, <1>2, <2>1, <2>2 DEF Knows, Undisturbed, Holds, OpenFlags
<1>3. CASE ~Holds(q)
  BY <1>1, <1>3 DEF Knows, Undisturbed, Holds
<1> QED
  BY <1>2, <1>3

\* A first statement: the row was free, and r has it now.
LEMMA BeginStep ==
    ASSUME IndInv, NEW r \in Requests, NEW s \in Samples, NEW step, NEW returned,
           Begin(r, s, step, returned),
           \/ step = "report" /\ returned = status[s]
           \/ step = "takedown" /\ returned = "taken_down" /\ status[s] # "taken_down"
           \/ step = "dismiss" /\ returned = "active" /\ Dismissable(status[s])
    PROVE  IndInv'
<1> USE ModerationAssumption DEF IndInv
<1>1. /\ \A q \in Requests : Holds(q) => sample[q] # s
      /\ pc' = [pc EXCEPT ![r] = step] /\ sample' = [sample EXCEPT ![r] = s]
      /\ seen' = [seen EXCEPT ![r] = [status |-> returned, cid |-> cid[s]]]
      /\ UNCHANGED <<status, cid, flags, pinned, flipped, open, cleared, failures>>
  BY DEF Begin, RowFree, Holds
<1>2. /\ returned \in Statuses /\ cid[s] \in Files
      /\ step \in {"report", "takedown", "dismiss"}
  BY DEF Shaped, TypeOK, Statuses
<1>3. Shaped'
  BY <1>1, <1>2 DEF Shaped, TypeOK
<1>4. OneHolder'
  BY <1>1 DEF OneHolder, Holds, Shaped, TypeOK
<1>5. \A q \in Requests \ {r} : Undisturbed(q)
  BY <1>1 DEF Undisturbed, OpenFlags, Shaped, TypeOK
<1>6. Knows(r)'
  BY <1>1, <1>2 DEF Knows, Decides, Dismissable, Holds, Shaped, TypeOK
<1>7. QueueMatchesFlags' /\ UnpinnedWhatWasLive' /\ ClearedForGood'
  BY <1>1 DEF QueueMatchesFlags, OpenFlags, UnpinnedWhatWasLive, ClearedForGood
<1> QED
  BY <1>3, <1>4, <1>5, <1>6, <1>7, StillKnows

\* An answered request holds nothing, and knows nothing.
LEMMA Answered ==
    ASSUME Shaped, OneHolder, NEW r \in Requests, Answer(r)
    PROVE  /\ pc' \in [Requests -> {"idle", "report", "takedown", "dismiss", "resolved", "unpin"}]
           /\ sample' \in [Requests -> Samples \cup {"none"}]
           /\ \A q \in Requests : pc'[q] # "idle" => sample'[q] \in Samples
           /\ seen' \in [Requests -> [status : Statuses, cid : Files] \cup {NoRow}]
           /\ open' \in [Requests -> SUBSET FlagIds]
           /\ OneHolder' /\ Knows(r)'
           /\ \A q \in Requests \ {r} : /\ pc'[q] = pc[q] /\ sample'[q] = sample[q]
                                        /\ seen'[q] = seen[q] /\ open'[q] = open[q]
<1>1. /\ pc' = [pc EXCEPT ![r] = "idle"] /\ sample' = [sample EXCEPT ![r] = "none"]
      /\ seen' = [seen EXCEPT ![r] = NoRow] /\ open' = [open EXCEPT ![r] = {}]
  BY DEF Answer
<1>2. OneHolder' /\ Knows(r)'
  BY <1>1 DEF Shaped, TypeOK, OneHolder, Knows, Holds
<1> QED
  BY <1>1, <1>2 DEF Shaped, TypeOK

\* The flag's INSERT and the sample's UPDATE: every status has an open flag but the first and
\* the last.
LEMMA CommitReportStep ==
    ASSUME IndInv, NEW r \in Requests, CommitReport(r)
    PROVE  IndInv'
<1>0. PICK s : s = sample[r]
  OBVIOUS
<1> USE ModerationAssumption DEF IndInv
<1>1. PICK f \in FlagIds : /\ flags[f] = NoFlag
                           /\ flags' = [flags EXCEPT ![f] = [sample |-> s, status |-> "open"]]
  BY <1>0 DEF CommitReport
<1>2. /\ pc[r] = "report" /\ s \in Samples /\ Answer(r)
      /\ UNCHANGED <<cid, pinned, flipped, cleared, failures>>
  BY <1>0 DEF CommitReport, Shaped, TypeOK
<1>3. status' = [status EXCEPT ![s] = AfterReport(@)]
  BY <1>0, <1>2 DEF CommitReport, Knows, AfterReport, Shaped, TypeOK
<1>4. /\ status' \in [Samples -> Statuses] /\ flags \in [FlagIds -> [sample : Samples, status : {"open", "reviewed", "dismissed"}] \cup {NoFlag}]
      /\ flags' \in [FlagIds -> [sample : Samples, status : {"open", "reviewed", "dismissed"}] \cup {NoFlag}]
  BY <1>1, <1>2, <1>3 DEF Shaped, TypeOK, Statuses, AfterReport
<1>5. Shaped'
  BY <1>2, <1>4, Answered DEF Shaped, TypeOK
<1>6. /\ \A t \in Samples \ {s} : OpenFlags(t)' = OpenFlags(t) /\ status'[t] = status[t]
      /\ f \in OpenFlags(s)' /\ status'[s] = AfterReport(status[s])
  <2>1. \A t : f \notin OpenFlags(t)
    BY <1>1 DEF OpenFlags, NoFlag
  <2>2. \A t \in Samples \ {s} : [sample |-> s, status |-> "open"] # [sample |-> t, status |-> "open"]
    OBVIOUS
  <2>3. flags'[f] = [sample |-> s, status |-> "open"] /\ \A g \in FlagIds \ {f} : flags'[g] = flags[g]
    BY <1>1 DEF Shaped, TypeOK
  <2>4. \A t \in Samples \ {s} : OpenFlags(t)' = OpenFlags(t)
    BY <2>1, <2>2, <2>3 DEF OpenFlags
  <2>5. f \in OpenFlags(s)'
    BY <1>1, <2>3 DEF OpenFlags
  <2>6. status'[s] = AfterReport(status[s]) /\ \A t \in Samples \ {s} : status'[t] = status[t]
    BY <1>2, <1>3 DEF Shaped, TypeOK
  <2> QED
    BY <2>4, <2>5, <2>6
<1>7. \A q \in Requests \ {r} : Knows(q)'
  <2> TAKE q \in Requests \ {r}
  <2>1. Holds(q) => sample[q] # s
    BY <1>0, <1>2 DEF OneHolder, Holds
  <2>2. pc[q] = "unpin" => status'[sample[q]] = status[sample[q]]
    BY <1>3, <1>6 DEF Knows, AfterReport, Shaped, TypeOK
  <2>3. pc[q] # "idle" => sample[q] \in Samples
    BY DEF Shaped, TypeOK
  <2>4. Undisturbed(q)
    BY <1>2, <1>6, <2>1, <2>2, <2>3, Answered DEF Undisturbed, Holds
  <2> QED
    BY <2>4, StillKnows
<1>8. QueueMatchesFlags'
  <2>1. \A t \in Samples : status'[t] = "active" => OpenFlags(t)' = {}
    BY <1>6 DEF QueueMatchesFlags, AfterReport
  <2>2. \A t \in Samples : status'[t] \in {"flagged", "under_review"} => OpenFlags(t)' # {}
    <3> TAKE t \in Samples
    <3>1. CASE t = s
      BY <1>6, <3>1
    <3>2. CASE t # s
      BY <1>6, <3>2 DEF QueueMatchesFlags
    <3> QED
      BY <3>1, <3>2
  <2>3. \A t \in Samples : \A g \in FlagIds :
            flags'[g].sample = t /\ flags'[g].status = "reviewed" => status'[t] = "taken_down"
    <3>1. \A g \in FlagIds : flags'[g].status = "reviewed" => flags'[g] = flags[g]
      BY <1>1, <1>4
    <3> QED
      BY <1>6, <3>1 DEF QueueMatchesFlags, AfterReport
  <2> QED
    BY <2>1, <2>2, <2>3 DEF QueueMatchesFlags
<1>9. UnpinnedWhatWasLive' /\ ClearedForGood'
  BY <1>2, <1>3 DEF UnpinnedWhatWasLive, ClearedForGood, AfterReport, Shaped, TypeOK
<1> QED
  BY <1>2, <1>5, <1>7, <1>8, <1>9, Answered

LEMMA ResolveFlagsStep ==
    ASSUME IndInv, NEW r \in Requests, ResolveFlags(r)
    PROVE  IndInv'
<1> USE DEF IndInv
<1>1. /\ pc[r] \in {"takedown", "dismiss"} /\ pc' = [pc EXCEPT ![r] = "resolved"]
      /\ open' = [open EXCEPT ![r] = OpenFlags(sample[r])]
      /\ UNCHANGED <<status, cid, flags, pinned, flipped, sample, seen, cleared, failures>>
  BY DEF ResolveFlags
<1>2. Shaped'
  BY <1>1 DEF Shaped, TypeOK, OpenFlags
<1>3. OneHolder'
  BY <1>1 DEF OneHolder, Holds, Shaped, TypeOK
<1>4. Knows(r)'
  BY <1>1 DEF Knows, Decides, Dismissable, Holds, OpenFlags, Shaped, TypeOK
<1>5. \A q \in Requests \ {r} : Undisturbed(q)
  BY <1>1 DEF Undisturbed, OpenFlags, Shaped, TypeOK
<1>6. QueueMatchesFlags' /\ UnpinnedWhatWasLive' /\ ClearedForGood'
  BY <1>1 DEF QueueMatchesFlags, OpenFlags, UnpinnedWhatWasLive, ClearedForGood
<1> QED
  BY <1>2, <1>3, <1>4, <1>5, <1>6, StillKnows

\* A decision resolves exactly the flags that are open, and moves the sample with them.
LEMMA CommitDecisionStep ==
    ASSUME IndInv, NEW r \in Requests, CommitDecision(r)
    PROVE  IndInv'
<1> DEFINE new == seen[r].status
<1>0. PICK s : s = sample[r]
  OBVIOUS
<1> USE ModerationAssumption DEF IndInv
<1>1. /\ pc[r] = "resolved" /\ s \in Samples /\ open[r] = OpenFlags(s) /\ Decides(r)
      /\ seen[r].cid = cid[s] /\ seen[r].cid \in Files
      /\ status' = [status EXCEPT ![s] = new]
      /\ UNCHANGED <<cid, pinned, cleared, failures>>
  BY <1>0 DEF CommitDecision, Knows, Holds, Shaped, TypeOK
<1>2. flags' = [f \in FlagIds |-> IF f \in OpenFlags(s) THEN [flags[f] EXCEPT !.status = Outcome(new)]
                                 ELSE flags[f]]
  BY <1>1 DEF CommitDecision
<1>3. \/ /\ new = "taken_down" /\ status[s] # "taken_down" /\ Outcome(new) = "reviewed"
         /\ flipped' = [flipped EXCEPT ![s] = seen[r].cid]
         /\ pc' = [pc EXCEPT ![r] = "unpin"] /\ open' = [open EXCEPT ![r] = {}]
         /\ UNCHANGED <<sample, seen>>
      \/ /\ new = "active" /\ Dismissable(status[s]) /\ Outcome(new) = "dismissed"
         /\ Answer(r) /\ UNCHANGED flipped
  BY <1>0, <1>1 DEF CommitDecision, Decides, Outcome
<1>4. /\ status'[s] = new /\ status[s] # "taken_down"
      /\ \A t \in Samples \ {s} : status'[t] = status[t]
      /\ OpenFlags(s) \subseteq FlagIds
      /\ \A f \in OpenFlags(s) : /\ flags[f] = [sample |-> s, status |-> "open"]
                                 /\ flags'[f] = [sample |-> s, status |-> Outcome(new)]
      /\ \A f \in FlagIds \ OpenFlags(s) : flags'[f] = flags[f]
  BY <1>1, <1>2, <1>3 DEF OpenFlags, Shaped, TypeOK, Dismissable
<1>5. \A t \in Samples \ {s} : OpenFlags(t)' = OpenFlags(t)
  BY <1>3, <1>4 DEF OpenFlags
<1>6. OpenFlags(s)' = {}
  <2>1. ASSUME NEW f \in FlagIds
        PROVE  flags'[f] # [sample |-> s, status |-> "open"]
    <3>1. CASE f \in OpenFlags(s)
      <4>1. flags'[f].status = Outcome(new) /\ Outcome(new) # "open"
        BY <1>3, <1>4, <3>1
      <4> QED
        BY <4>1
    <3>2. CASE f \notin OpenFlags(s)
      BY <1>4, <3>2 DEF OpenFlags
    <3> QED
      BY <3>1, <3>2
  <2> QED
    BY <2>1 DEF OpenFlags
<1>7. \A q \in Requests \ {r} : /\ pc'[q] = pc[q] /\ sample'[q] = sample[q]
                                /\ seen'[q] = seen[q] /\ open'[q] = open[q]
  BY <1>3, Answered DEF Shaped, TypeOK
<1>8. \A q \in Requests \ {r} : Knows(q)'
  <2> TAKE q \in Requests \ {r}
  <2>1. (Holds(q) => sample[q] # s) /\ (pc[q] = "unpin" => sample[q] # s)
    BY <1>0, <1>1, <1>4 DEF OneHolder, Holds, Knows
  <2>2. pc[q] # "idle" => sample[q] \in Samples
    BY DEF Shaped, TypeOK
  <2>3. \A t \in Samples \ {s} : flipped'[t] = flipped[t]
    BY <1>1, <1>3 DEF Shaped, TypeOK
  <2>4. Undisturbed(q)
    BY <1>1, <1>4, <1>5, <1>7, <2>1, <2>2, <2>3 DEF Undisturbed, Holds
  <2> QED
    BY <2>4, StillKnows
<1>9. OneHolder' /\ Knows(r)'
  <2>1. CASE new = "taken_down"
    BY <1>0, <1>1, <1>3, <1>4, <2>1 DEF OneHolder, Holds, Knows, Shaped, TypeOK
  <2>2. CASE new = "active"
    BY <1>3, <2>2, Answered
  <2> QED
    BY <1>3, <2>1, <2>2
<1>10. Shaped'
  <2>1. flags' \in [FlagIds -> [sample : Samples, status : {"open", "reviewed", "dismissed"}] \cup {NoFlag}]
    <3>1. \A f \in FlagIds : flags'[f] \in [sample : Samples, status : {"open", "reviewed", "dismissed"}] \cup {NoFlag}
      BY <1>1, <1>3, <1>4 DEF Shaped, TypeOK
    <3> QED
      BY <1>2, <3>1
  <2>2. status' \in [Samples -> Statuses]
    BY <1>1, <1>3 DEF Shaped, TypeOK, Statuses
  <2>3. flipped' \in [Samples -> Files \cup {"none"}]
    BY <1>1, <1>3 DEF Shaped, TypeOK
  <2>4. CASE new = "taken_down"
    BY <1>0, <1>1, <1>3, <2>1, <2>2, <2>3, <2>4 DEF Shaped, TypeOK
  <2>5. CASE new = "active"
    BY <1>1, <1>3, <2>1, <2>2, <2>3, <2>5, Answered DEF Shaped, TypeOK
  <2> QED
    BY <1>3, <2>4, <2>5
<1>11. QueueMatchesFlags'
  <2>1. \A t \in Samples : status'[t] = "active" => OpenFlags(t)' = {}
    BY <1>4, <1>5, <1>6 DEF QueueMatchesFlags
  <2>2. \A t \in Samples : status'[t] \in {"flagged", "under_review"} => OpenFlags(t)' # {}
    BY <1>3, <1>4, <1>5 DEF QueueMatchesFlags
  <2>3. ASSUME NEW t \in Samples, NEW g \in FlagIds, flags'[g].sample = t, flags'[g].status = "reviewed"
        PROVE  status'[t] = "taken_down"
    <3>1. CASE g \in OpenFlags(s)
      BY <1>3, <1>4, <2>3, <3>1
    <3>2. CASE g \notin OpenFlags(s)
      <4>1. status[t] = "taken_down"
        BY <1>4, <2>3, <3>2 DEF QueueMatchesFlags
      <4> QED
        BY <1>4, <4>1
    <3> QED
      BY <3>1, <3>2
  <2> QED
    BY <2>1, <2>2, <2>3 DEF QueueMatchesFlags
<1>12. UnpinnedWhatWasLive' /\ ClearedForGood'
  <2>1. s \notin cleared
    BY <1>4 DEF ClearedForGood
  <2>2. \A t \in Samples \ {s} : flipped'[t] = flipped[t]
    BY <1>1, <1>3 DEF Shaped, TypeOK
  <2>3. cleared \subseteq Samples
    BY DEF Shaped, TypeOK
  <2> QED
    BY <1>1, <1>4, <2>1, <2>2, <2>3 DEF UnpinnedWhatWasLive, ClearedForGood
<1> QED
  BY <1>8, <1>9, <1>10, <1>11, <1>12

\* Unpinning takes the file its sample had when it was taken down, and no other.
LEMMA UnpinStep ==
    ASSUME IndInv, NEW r \in Requests, Unpin(r)
    PROVE  IndInv'
<1> DEFINE s == sample[r]
<1> USE ModerationAssumption DEF IndInv
<1>1. /\ s \in Samples /\ status[s] = "taken_down" /\ Answer(r)
      /\ seen[r].cid = flipped[s] /\ seen[r].cid \in Files
      /\ pinned' = pinned \ {seen[r].cid} /\ cleared' = cleared \cup {s}
      /\ UNCHANGED <<status, cid, flags, flipped, failures>>
  BY DEF Unpin, FileToUnpin, Knows, Shaped, TypeOK
<1>2. Shaped'
  BY <1>1, Answered DEF Shaped, TypeOK
<1>3. \A q \in Requests \ {r} : Undisturbed(q)
  BY <1>1, Answered DEF Undisturbed, OpenFlags
<1>4. QueueMatchesFlags' /\ ClearedForGood'
  BY <1>1 DEF QueueMatchesFlags, OpenFlags, ClearedForGood
<1>5. UnpinnedWhatWasLive'
  <2>1. Files \ pinned' = (Files \ pinned) \cup {seen[r].cid}
    BY <1>1
  <2>2. {flipped[t] : t \in cleared \cup {s}} = {flipped[t] : t \in cleared} \cup {flipped[s]}
    OBVIOUS
  <2> QED
    BY <1>1, <2>1, <2>2 DEF UnpinnedWhatWasLive
<1> QED
  BY <1>1, <1>2, <1>3, <1>4, <1>5, StillKnows, Answered

LEMMA FailStep ==
    ASSUME IndInv, NEW r \in Requests, Fail(r)
    PROVE  IndInv'
<1> USE ModerationAssumption DEF IndInv
<1>1. /\ Answer(r) /\ failures' \in 0..MaxFailures
      /\ UNCHANGED <<status, cid, flags, pinned, flipped, cleared>>
  BY DEF Fail, Shaped, TypeOK
<1>2. Shaped'
  BY <1>1, Answered DEF Shaped, TypeOK
<1>3. \A q \in Requests \ {r} : Undisturbed(q)
  BY <1>1, Answered DEF Undisturbed, OpenFlags
<1>4. QueueMatchesFlags' /\ UnpinnedWhatWasLive' /\ ClearedForGood'
  BY <1>1 DEF QueueMatchesFlags, OpenFlags, UnpinnedWhatWasLive, ClearedForGood
<1> QED
  BY <1>1, <1>2, <1>3, <1>4, StillKnows, Answered

\* One statement that waits for the row disturbs no transaction.
LEMMA SampleSteps ==
    ASSUME IndInv, NEW s \in Samples, Review(s) \/ \E file \in Files : PostMetadata(s, file)
    PROVE  IndInv'
<1> USE ModerationAssumption DEF IndInv
<1>1. /\ \A q \in Requests : Holds(q) => sample[q] # s
      /\ UNCHANGED <<flags, pinned, flipped, pc, sample, seen, open, cleared, failures>>
  BY DEF Review, PostMetadata, RowFree, Holds, request
<1>2. CASE Review(s)
  <2>1. status' = [status EXCEPT ![s] = "under_review"] /\ status[s] = "flagged" /\ cid' = cid
    BY <1>2 DEF Review
  <2>2. Shaped' /\ OneHolder'
    BY <1>1, <2>1 DEF Shaped, TypeOK, Statuses, OneHolder, Holds
  <2>3. \A q \in Requests : pc[q] = "unpin" => sample[q] # s
    BY <2>1 DEF Knows
  <2>4. \A q \in Requests : Undisturbed(q)
    BY <1>1, <2>1, <2>3 DEF Undisturbed, OpenFlags, Shaped, TypeOK
  <2>5. QueueMatchesFlags' /\ UnpinnedWhatWasLive' /\ ClearedForGood'
    BY <1>1, <2>1 DEF QueueMatchesFlags, OpenFlags, UnpinnedWhatWasLive, ClearedForGood, Shaped, TypeOK
  <2> QED
    BY <2>2, <2>4, <2>5, StillKnows
<1>3. ASSUME NEW file \in Files, PostMetadata(s, file)
      PROVE  IndInv'
  <2>1. cid' = [cid EXCEPT ![s] = file] /\ status' = status
    BY <1>3 DEF PostMetadata
  <2>2. Shaped' /\ OneHolder'
    BY <1>1, <2>1 DEF Shaped, TypeOK, OneHolder, Holds
  <2>3. \A q \in Requests : Undisturbed(q)
    BY <1>1, <2>1 DEF Undisturbed, OpenFlags, Shaped, TypeOK
  <2>4. QueueMatchesFlags' /\ UnpinnedWhatWasLive' /\ ClearedForGood'
    BY <1>1, <2>1 DEF QueueMatchesFlags, OpenFlags, UnpinnedWhatWasLive, ClearedForGood, Shaped, TypeOK
  <2> QED
    BY <2>2, <2>3, <2>4, StillKnows
<1> QED
  BY <1>2, <1>3

LEMMA NextInvariant ==
    ASSUME IndInv, [Next]_vars
    PROVE  IndInv'
<1>1. ASSUME NEW r \in Requests, NEW s \in Samples, Report(r, s) \/ Takedown(r, s) \/ Dismiss(r, s)
      PROVE  IndInv'
  BY <1>1, BeginStep DEF Report, Takedown, Dismiss
<1>2. CASE UNCHANGED vars
  <2>1. Shaped' /\ OneHolder' /\ QueueMatchesFlags' /\ UnpinnedWhatWasLive' /\ ClearedForGood'
    BY <1>2 DEF vars, request, IndInv, Shaped, TypeOK, OneHolder, Holds, QueueMatchesFlags,
                OpenFlags, UnpinnedWhatWasLive, ClearedForGood
  <2>2. \A q \in Requests : Undisturbed(q)
    BY <1>2 DEF vars, request, Undisturbed, OpenFlags
  <2> QED
    BY <2>1, <2>2, StillKnows DEF IndInv
<1> QED
  BY <1>1, <1>2, CommitReportStep, ResolveFlagsStep, CommitDecisionStep, UnpinStep, FailStep,
     SampleSteps DEF Next

\* Every variable of moderation keeps its type, for any number of requests.
THEOREM ModerationTyped == Spec => []TypeOK
<1>1. IndInv => TypeOK
  BY DEF IndInv, Shaped
<1> QED
  BY <1>1, InitInvariant, NextInvariant, PTL DEF Spec

\* For any number of concurrent reports and decisions: exactly the samples in the review queue
\* and taken-down ones have open flags, and only taken-down ones have reviewed flags.
THEOREM QueueInStep == Spec => []QueueMatchesFlags
<1>1. IndInv => QueueMatchesFlags
  BY DEF IndInv
<1> QED
  BY <1>1, InitInvariant, NextInvariant, PTL DEF Spec

\* For any interleaving of takedowns, unpins and posted metadata, and samples that may share
\* files: what is gone from Pinata is what was live when a sample was taken down and was
\* answered as unpinned.
THEOREM UnpinsTheRightFile == Spec => []UnpinnedWhatWasLive
<1>1. IndInv => UnpinnedWhatWasLive
  BY DEF IndInv
<1> QED
  BY <1>1, InitInvariant, NextInvariant, PTL DEF Spec

\* No step takes a sample back from a takedown, or from a review to the queue, nor a flag's
\* resolution.
THEOREM NothingGoesBack == Spec => NothingMovesBackward
<1> DEFINE Forward ==
        /\ \A s \in Samples :
            /\ status[s] = "taken_down" => status'[s] = "taken_down"
            /\ status[s] = "under_review" => status'[s] # "flagged"
        /\ \A f \in FlagIds : flags[f].status \in {"reviewed", "dismissed"} => flags'[f] = flags[f]
<1>1. ASSUME IndInv, Next
      PROVE  Forward
  <2>1. ASSUME NEW r \in Requests, CommitReport(r)
        PROVE  Forward
    <3>1. sample[r] \in Samples /\ status' = [status EXCEPT ![sample[r]] = AfterReport(@)]
      BY <1>1, <2>1 DEF CommitReport, IndInv, Knows, AfterReport, Shaped, TypeOK
    <3>2. PICK f \in FlagIds : /\ flags[f] = NoFlag
                               /\ \A g \in FlagIds \ {f} : flags'[g] = flags[g]
      BY <1>1, <2>1 DEF CommitReport, IndInv, Shaped, TypeOK
    <3> QED
      BY <1>1, <3>1, <3>2 DEF AfterReport, NoFlag, IndInv, Shaped, TypeOK
  <2>2. ASSUME NEW r \in Requests, CommitDecision(r)
        PROVE  Forward
    <3>1. /\ sample[r] \in Samples /\ Decides(r) /\ open[r] = OpenFlags(sample[r])
          /\ status' = [status EXCEPT ![sample[r]] = seen[r].status]
          /\ \A f \in FlagIds : f \notin open[r] => flags'[f] = flags[f]
      BY <1>1, <2>2 DEF CommitDecision, IndInv, Knows, Shaped, TypeOK
    <3> QED
      BY <1>1, <3>1 DEF Decides, Dismissable, OpenFlags, IndInv, Shaped, TypeOK
  <2>3. ASSUME NEW s \in Samples, Review(s)
        PROVE  Forward
    BY <1>1, <2>3 DEF Review, IndInv, Shaped, TypeOK
  <2>4. ASSUME NEW r \in Requests, NEW s \in Samples, Report(r, s) \/ Takedown(r, s) \/ Dismiss(r, s)
        PROVE  Forward
    BY <2>4 DEF Report, Takedown, Dismiss, Begin
  <2>5. ASSUME NEW r \in Requests, ResolveFlags(r) \/ Unpin(r) \/ Fail(r)
        PROVE  Forward
    BY <2>5 DEF ResolveFlags, Unpin, Fail
  <2>6. ASSUME NEW s \in Samples, NEW file \in Files, PostMetadata(s, file)
        PROVE  Forward
    BY <2>6 DEF PostMetadata
  <2> QED
    BY <1>1, <2>1, <2>2, <2>3, <2>4, <2>5, <2>6 DEF Next
<1>2. IndInv /\ [Next]_vars => [Forward]_vars
  BY <1>1
<1> QED
  BY <1>2, InitInvariant, NextInvariant, PTL DEF Spec, NothingMovesBackward

(***************************************************************************)
(* Moderation implements ReviewDesk: what a transaction has read is still  *)
(* so when it commits, so that it acts as one step there.                  *)
(***************************************************************************)

LEMMA ReportIsAStep ==
    ASSUME IndInv, NEW r \in Requests, CommitReport(r)
    PROVE  Desk!Next
<1> DEFINE s == sample[r]
<1>1. s \in Samples /\ seen[r].status = status[s]
  BY DEF CommitReport, IndInv, Knows, Shaped, TypeOK
<1>2. status' = [status EXCEPT ![s] = IF @ = "active" THEN "flagged" ELSE @]
  BY <1>1 DEF CommitReport, AfterReport, IndInv, Shaped, TypeOK
<1>3. \E f \in FlagIds :
          flags[f] = Desk!Blank /\ flags' = [flags EXCEPT ![f] = Desk!Slip(s, "open")]
  BY DEF CommitReport, NoFlag, Desk!Blank, Desk!Slip
<1>4. UNCHANGED <<cid, flipped, pinned>>
  BY DEF CommitReport
<1> QED
  BY <1>1, <1>2, <1>3, <1>4 DEF Desk!Next, Desk!Complain

LEMMA DecisionIsAStep ==
    ASSUME IndInv, NEW r \in Requests, CommitDecision(r)
    PROVE  Desk!Next
<1> DEFINE s == sample[r]
           new == seen[r].status
<1>1. /\ pc[r] = "resolved" /\ s \in Samples /\ open[r] = OpenFlags(s) /\ Decides(r)
      /\ seen[r].cid = cid[s]
  BY DEF CommitDecision, IndInv, Knows, Holds, Shaped, TypeOK
<1>2. \A f \in FlagIds : flags[f] = Desk!Slip(s, "open") =>
          [flags[f] EXCEPT !.status = Outcome(new)] = Desk!Slip(s, Outcome(new))
  BY DEF Desk!Slip
<1>3. Desk!Settle(s, new, Outcome(new))
  BY <1>1, <1>2 DEF CommitDecision, OpenFlags, Desk!Settle, Desk!Slip
<1>4. CASE new = "taken_down"
  <2>1. status[s] # "taken_down" /\ Outcome(new) = "reviewed"
    BY <1>1, <1>4 DEF Decides, Outcome
  <2>2. flipped' = [flipped EXCEPT ![s] = cid[s]]
    BY <1>1, <1>4 DEF CommitDecision
  <2> QED
    BY <1>1, <1>3, <1>4, <2>1, <2>2 DEF Desk!Next, Desk!TakeDown
<1>5. CASE new # "taken_down"
  <2>1. new = "active" /\ status[s] \in {"flagged", "under_review"} /\ Outcome(new) = "dismissed"
    BY <1>1, <1>5 DEF Decides, Dismissable, Outcome
  <2>2. flipped' = flipped
    BY <1>5 DEF CommitDecision
  <2> QED
    BY <1>1, <1>3, <2>1, <2>2 DEF Desk!Next, Desk!Dismiss
<1> QED
  BY <1>4, <1>5

\* For any number of concurrent requests, each report and each decision acts on the sample
\* and on all its flags at once, when it commits; what is unpinned is the file that was
\* live at the takedown.
THEOREM ModerationImplementsReviewDesk == Spec => ImplementsReviewDesk
<1>1. Init => Desk!Init
  BY ModerationAssumption DEF Init, Desk!Init, NoFlag, Desk!Blank
<1>2. ASSUME IndInv, Next
      PROVE  [Desk!Next]_(Desk!vars)
  <2>1. ASSUME NEW r \in Requests, Unpin(r)
        PROVE  Desk!Next
    <3>1. /\ sample[r] \in Samples /\ status[sample[r]] = "taken_down"
          /\ seen[r].cid = flipped[sample[r]]
      BY <1>2, <2>1 DEF Unpin, IndInv, Knows, Shaped, TypeOK
    <3> QED
      BY <2>1, <3>1 DEF Unpin, FileToUnpin, Desk!Next, Desk!ThrowAway
  <2>2. ASSUME NEW r \in Requests, NEW s \in Samples, Report(r, s) \/ Takedown(r, s) \/ Dismiss(r, s)
        PROVE  UNCHANGED Desk!vars
    BY <2>2 DEF Report, Takedown, Dismiss, Begin, Desk!vars
  <2>3. ASSUME NEW r \in Requests, ResolveFlags(r) \/ Fail(r)
        PROVE  UNCHANGED Desk!vars
    BY <2>3 DEF ResolveFlags, Fail, Desk!vars
  <2>4. ASSUME NEW s \in Samples, Review(s)
        PROVE  Desk!Next
    BY <2>4 DEF Review, Desk!Next, Desk!StartReview
  <2>5. ASSUME NEW s \in Samples, NEW file \in Files, PostMetadata(s, file)
        PROVE  Desk!Next
    BY <2>5 DEF PostMetadata, Desk!Next, Desk!Repost
  <2> QED
    BY <1>2, <2>1, <2>2, <2>3, <2>4, <2>5, ReportIsAStep, DecisionIsAStep DEF Next
<1>3. UNCHANGED vars => UNCHANGED Desk!vars
  BY DEF vars, Desk!vars
<1>4. IndInv /\ [Next]_vars => [Desk!Next]_(Desk!vars)
  BY <1>2, <1>3
<1> QED
  BY <1>1, <1>4, InitInvariant, NextInvariant, PTL DEF Spec, Desk!Spec, ImplementsReviewDesk
=============================================================================
