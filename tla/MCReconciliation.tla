-------------------------- MODULE MCReconciliation --------------------------
(* Instances of Reconciliation for TLC. *)
EXTENDS Reconciliation, TLC

CONSTANTS alice, bob, w1, w2, c1, c2

\* Two legal splits that share a recipient.
TwoConfigs == {(alice :> 10000), (alice :> 5000 @@ bob :> 5000)}

\* Used only where every property is a safety property.
RaceSymmetry == Permutations(Workers) \cup Permutations(Callers)
=============================================================================
