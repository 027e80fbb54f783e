----------------------------- MODULE Moderation -----------------------------
(***************************************************************************)
(* Moderation: reports and admin decisions of src/routes/moderation.ts,    *)
(* the transactions of src/db/moderationRepository.ts behind them, and the *)
(* unpin that follows a takedown.  Requests run concurrently; POST         *)
(* /api/samples/metadata may replace a sample's file at any time.          *)
(*                                                                         *)
(* A transaction's first statement locks the sample's row; what it writes  *)
(* is visible from its COMMIT on.  A request is one member of Requests,    *)
(* and is made again once it has been answered.                            *)
(***************************************************************************)
EXTENDS Integers, FiniteSets

CONSTANTS
    Requests,
    Samples,
    Files,       \* CIDs, each of them pinned once, when it was uploaded
    FlagIds,     \* sample_flags.id; bounds the number of reports
    MaxFailures  \* bound: crashes, database errors and failed unpins

ASSUME ModerationAssumption == MaxFailures \in Nat

VARIABLES
    status,    \* samples.moderation_status
    cid,       \* samples.ipfs_cid
    flags,     \* sample_flags: each one's sample and status, NoFlag where there is none
    pinned,    \* the files Pinata keeps
    flipped,   \* history: the cid a sample had when it was taken down
    pc, sample, seen, open,  \* a request: where it is, its sample, the row its first
                             \* statement returned, and the flags its second one resolves
    cleared,   \* history: samples whose takedown was answered with unpinned = true
    failures

request == <<pc, sample, seen, open>>
vars == <<status, cid, flags, pinned, flipped, request, cleared, failures>>

Statuses == {"active", "flagged", "under_review", "taken_down"}
NoFlag == [sample |-> "none", status |-> "none"]
NoRow == [status |-> "none", cid |-> "none"]
OpenFlags(s) == {f \in FlagIds : flags[f] = [sample |-> s, status |-> "open"]}

TypeOK ==
    /\ status \in [Samples -> Statuses] /\ cid \in [Samples -> Files]
    /\ pinned \subseteq Files
    /\ flags \in [FlagIds -> [sample : Samples, status : {"open", "reviewed", "dismissed"}]
                             \cup {NoFlag}]
    /\ flipped \in [Samples -> Files \cup {"none"}] /\ cleared \subseteq Samples
    /\ pc \in [Requests -> {"idle", "report", "takedown", "dismiss", "resolved", "unpin"}]
    /\ \A r \in Requests : pc[r] # "idle" => sample[r] \in Samples
    /\ seen \in [Requests -> [status : Statuses, cid : Files] \cup {NoRow}]
    /\ open \in [Requests -> SUBSET FlagIds] /\ failures \in 0..MaxFailures

Init ==
    /\ status = [s \in Samples |-> "active"] /\ pinned = Files
    /\ cid \in [Samples -> Files]
    /\ flags = [f \in FlagIds |-> NoFlag]
    /\ flipped = [s \in Samples |-> "none"] /\ cleared = {} /\ failures = 0
    /\ pc = [r \in Requests |-> "idle"] /\ sample = [r \in Requests |-> "none"]
    /\ seen = [r \in Requests |-> NoRow] /\ open = [r \in Requests |-> {}]

\* Answering a request forgets its locals.
Answer(r) ==
    /\ pc' = [pc EXCEPT ![r] = "idle"] /\ sample' = [sample EXCEPT ![r] = "none"]
    /\ seen' = [seen EXCEPT ![r] = NoRow] /\ open' = [open EXCEPT ![r] = {}]

\* Mutant of RowFree.
RowAlwaysFree(s) == TRUE

\* No open transaction holds the sample's row.
RowFree(s) ==
    \A r \in Requests :
        sample[r] = s => pc[r] \notin {"report", "takedown", "dismiss", "resolved"}

\* The first statement of a transaction locks the row and returns it as returned.
Begin(r, s, step, returned) ==
    /\ pc[r] = "idle" /\ RowFree(s)
    /\ pc' = [pc EXCEPT ![r] = step] /\ sample' = [sample EXCEPT ![r] = s]
    /\ seen' = [seen EXCEPT ![r] = [status |-> returned, cid |-> cid[s]]]
    /\ UNCHANGED <<status, cid, flags, pinned, flipped, open, cleared, failures>>
----------------------------------------------------------------------------
(* Reports.                                                                *)

\* createFlag: SELECT ... FOR UPDATE (while the bound leaves an id for the flag).
Report(r, s) ==
    /\ Cardinality({f \in FlagIds : flags[f] = NoFlag})
           > Cardinality({q \in Requests : pc[q] = "report"})
    /\ Begin(r, s, "report", status[s])

\* Mutant of AfterReport.
AfterReportAlwaysFlagged(old) == "flagged"

\* Only the first report of an active sample moves it; none moves it backward.
AfterReport(old) == IF old = "active" THEN "flagged" ELSE old

\* The flag's INSERT, the sample's UPDATE, and COMMIT.
CommitReport(r) ==
    LET s == sample[r] IN
    /\ pc[r] = "report"
    /\ \E f \in FlagIds :
        /\ flags[f] = NoFlag
        /\ flags' = [flags EXCEPT ![f] = [sample |-> s, status |-> "open"]]
    /\ status' = IF AfterReport(seen[r].status) = seen[r].status THEN status
                 ELSE [status EXCEPT ![s] = AfterReport(seen[r].status)]
    /\ Answer(r)
    /\ UNCHANGED <<cid, pinned, flipped, cleared, failures>>
----------------------------------------------------------------------------
(* Decisions.                                                              *)

\* markUnderReview: one statement; anything not flagged is answered with 409.
Review(s) ==
    /\ status[s] = "flagged" /\ RowFree(s)
    /\ status' = [status EXCEPT ![s] = "under_review"]
    /\ UNCHANGED <<cid, flags, pinned, flipped, request, cleared, failures>>

\* confirmTakedown's UPDATE ... WHERE moderation_status != 'taken_down' RETURNING *
Takedown(r, s) ==
    /\ status[s] # "taken_down"
    /\ Begin(r, s, "takedown", "taken_down")

\* moderation_status IN ('flagged', 'under_review')
Dismissable(old) == old \in {"flagged", "under_review"}

\* dismissFlags' UPDATE ... RETURNING *
Dismiss(r, s) == Dismissable(status[s]) /\ Begin(r, s, "dismiss", "active")

\* UPDATE sample_flags ... WHERE status = 'open'
ResolveFlags(r) ==
    /\ pc[r] \in {"takedown", "dismiss"}
    /\ open' = [open EXCEPT ![r] = OpenFlags(sample[r])]
    /\ pc' = [pc EXCEPT ![r] = "resolved"]
    /\ UNCHANGED <<status, cid, flags, pinned, flipped, sample, seen, cleared, failures>>

\* Mutant of Outcome.
OutcomeAsStatus(new) == new

Outcome(new) == IF new = "taken_down" THEN "reviewed" ELSE "dismissed"

\* COMMIT of either decision; a takedown has its file unpinned next.
CommitDecision(r) ==
    LET s == sample[r]
        new == seen[r].status
    IN
    /\ pc[r] = "resolved"
    /\ status' = [status EXCEPT ![s] = new]
    /\ flags' = [f \in FlagIds |->
                    IF f \in open[r] THEN [flags[f] EXCEPT !.status = Outcome(new)]
                    ELSE flags[f]]
    /\ IF new = "taken_down"
       THEN /\ flipped' = [flipped EXCEPT ![s] = seen[r].cid]
            /\ pc' = [pc EXCEPT ![r] = "unpin"] /\ open' = [open EXCEPT ![r] = {}]
            /\ UNCHANGED <<sample, seen>>
       ELSE Answer(r) /\ UNCHANGED flipped
    /\ UNCHANGED <<cid, pinned, cleared, failures>>

\* Mutant of FileToUnpin.
FileNowPosted(r) == cid[sample[r]]

\* The file that confirmTakedown's RETURNING saw, "not a separately fetched snapshot".
FileToUnpin(r) == seen[r].cid

\* unpinFromIPFS; a file that is not pinned any more counts as unpinned.
Unpin(r) ==
    /\ pc[r] = "unpin"
    /\ pinned' = pinned \ {FileToUnpin(r)} /\ cleared' = cleared \cup {sample[r]}
    /\ Answer(r)
    /\ UNCHANGED <<status, cid, flags, flipped, failures>>

\* The unpin throws and is only logged, or the process dies, or a transaction is rolled back.
Fail(r) ==
    /\ pc[r] # "idle" /\ failures < MaxFailures
    /\ Answer(r) /\ failures' = failures + 1
    /\ UNCHANGED <<status, cid, flags, pinned, flipped, cleared>>

\* upsertSampleMetadata: no status keeps it out, and the file may be any, another sample's or
\* one that is not pinned any more.
PostMetadata(s, file) ==
    /\ RowFree(s)
    /\ cid' = [cid EXCEPT ![s] = file]
    /\ UNCHANGED <<status, flags, pinned, flipped, request, cleared, failures>>

Next ==
    \/ \E r \in Requests :
        \/ CommitReport(r) \/ ResolveFlags(r) \/ CommitDecision(r) \/ Unpin(r) \/ Fail(r)
        \/ \E s \in Samples : Report(r, s) \/ Takedown(r, s) \/ Dismiss(r, s)
    \/ \E s \in Samples : Review(s) \/ \E file \in Files : PostMetadata(s, file)

Spec == Init /\ [][Next]_vars
----------------------------------------------------------------------------
(* Properties.                                                             *)

\* The review queue and the open flags describe the same samples: a report that comes in
\* while a decision is being taken is neither resolved unseen nor left open on a sample that
\* has gone back to active.  And a flag records the decision that was taken: only a
\* taken-down sample has reviewed flags.
QueueMatchesFlags ==
    \A s \in Samples :
        /\ status[s] = "active" => OpenFlags(s) = {}
        /\ status[s] \in {"flagged", "under_review"} => OpenFlags(s) # {}
        /\ \A f \in FlagIds : flags[f].sample = s /\ flags[f].status = "reviewed"
                              => status[s] = "taken_down"

\* A report "doesn't move the status backward" (createFlag), a takedown is final, and a
\* decision about a flag is never taken back.
NothingMovesBackward ==
    [][/\ \A s \in Samples :
            /\ status[s] = "taken_down" => status'[s] = "taken_down"
            /\ status[s] = "under_review" => status'[s] # "flagged"
       /\ \A f \in FlagIds :
            flags[f].status \in {"reviewed", "dismissed"} => flags'[f] = flags[f]]_vars

\* Requests of several statements each act as one step on a desk of slips.
Desk == INSTANCE ReviewDesk WITH standing <- status, slips <- flags, live <- cid,
                                 taken <- flipped, kept <- pinned, SlipIds <- FlagIds
ImplementsReviewDesk == Desk!Spec

\* What is gone from Pinata is, file for file, what was live when a sample was taken down and
\* was answered as unpinned: whatever metadata was posted before, between or after, no such
\* answer is about another file, and no file goes that was never live at a takedown.  (A sample
\* that has the same file loses it too: nothing in the code keeps two samples' files apart.)
UnpinnedWhatWasLive ==
    Files \ pinned = {flipped[s] : s \in cleared}
=============================================================================
