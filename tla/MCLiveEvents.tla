----------------------------- MODULE MCLiveEvents -----------------------------
(* Instance of LiveEvents for TLC. *)
EXTENDS LiveEvents, TLC

CONSTANTS a1, a2, here, mine, yours

\* Two connections that share an address.
Shared == (a1 :> here @@ a2 :> here)

\* An admin hears of everybody's sales, the other user of none of these.
Hear == (a1 :> {mine, yours} @@ a2 :> {})
=============================================================================
