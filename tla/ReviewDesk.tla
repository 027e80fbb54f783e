----------------------------- MODULE ReviewDesk -----------------------------
(***************************************************************************)
(* What moderation promises: a desk with one slip per report, at which a   *)
(* report or a decision is one step for the sample and all of its slips.   *)
(* A first report puts a sample in the queue, a review only follows a      *)
(* report, a decision settles every open slip and no settled one, and a    *)
(* takedown is final.  Only the file that was live when its sample was     *)
(* taken down may be thrown away.                                          *)
(***************************************************************************)
CONSTANTS Samples, Files, SlipIds

VARIABLES
    standing,  \* of each sample: active, flagged, under_review, taken_down
    slips,     \* each one's sample and status, Blank before it is used
    live,      \* the file each sample has
    taken,     \* the file a sample had when it was taken down
    kept       \* the files not thrown away
vars == <<standing, slips, live, taken, kept>>

Blank == [sample |-> "none", status |-> "none"]
Slip(s, mark) == [sample |-> s, status |-> mark]

Init ==
    /\ standing = [s \in Samples |-> "active"] /\ slips = [i \in SlipIds |-> Blank]
    /\ live \in [Samples -> Files] /\ taken = [s \in Samples |-> "none"] /\ kept = Files

\* A report; a sample that is not active stays where it is.
Complain(s) ==
    /\ \E i \in SlipIds :
        /\ slips[i] = Blank /\ slips' = [slips EXCEPT ![i] = Slip(s, "open")]
    /\ standing' = [standing EXCEPT ![s] = IF @ = "active" THEN "flagged" ELSE @]
    /\ UNCHANGED <<live, taken, kept>>

StartReview(s) ==
    /\ standing[s] = "flagged" /\ standing' = [standing EXCEPT ![s] = "under_review"]
    /\ UNCHANGED <<slips, live, taken, kept>>

\* A decision: all the open slips of the sample are marked, whenever they came in.
Settle(s, verdict, mark) ==
    /\ standing' = [standing EXCEPT ![s] = verdict]
    /\ slips' = [i \in SlipIds |->
                    IF slips[i] = Slip(s, "open") THEN Slip(s, mark) ELSE slips[i]]
    /\ UNCHANGED <<live, kept>>

TakeDown(s) ==
    /\ standing[s] # "taken_down" /\ Settle(s, "taken_down", "reviewed")
    /\ taken' = [taken EXCEPT ![s] = live[s]]

Dismiss(s) ==
    /\ standing[s] \in {"flagged", "under_review"} /\ Settle(s, "active", "dismissed")
    /\ UNCHANGED taken

ThrowAway(s) ==
    /\ standing[s] = "taken_down" /\ kept' = kept \ {taken[s]}
    /\ UNCHANGED <<standing, slips, live, taken>>

\* Another file is posted, whoever else has it and whether or not it was thrown away.
Repost(s) ==
    /\ \E file \in Files : live' = [live EXCEPT ![s] = file]
    /\ UNCHANGED <<standing, slips, taken, kept>>

Next ==
    \E s \in Samples :
        \/ Complain(s) \/ StartReview(s) \/ TakeDown(s) \/ Dismiss(s)
        \/ ThrowAway(s) \/ Repost(s)
Spec == Init /\ [][Next]_vars
=============================================================================
