----------------------------- MODULE MCOutputs -----------------------------
(* Instances of Outputs for TLC.                                           *)
EXTENDS Outputs, TLC

Symmetric == Permutations(Imei) \cup Permutations(Version)
=============================================================================
