------------------------------- MODULE MCCache -------------------------------
(* Instances of Cache for TLC. *)
EXTENDS Cache, TLC

CONSTANTS behind

\* The page behind the newest sample: empty, then not, then perhaps empty again.
OnePage == {behind}
OneOffset == (behind :> 1)
=============================================================================
