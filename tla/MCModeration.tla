---------------------------- MODULE MCModeration ----------------------------
(* Instance of Moderation for TLC: nothing tells two requests, two reports, two samples or   *)
(* two files apart.                                                                          *)
EXTENDS Moderation, TLC

DeskSymmetry ==
    Permutations(Requests) \cup Permutations(FlagIds)
        \cup Permutations(Samples) \cup Permutations(Files)
=============================================================================
