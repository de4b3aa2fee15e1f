----------------------------- MODULE MCReports -----------------------------
(* Instances of Reports for TLC.                                           *)
EXTENDS Reports, TLC

Symmetric == Permutations(Imei) \cup Permutations(Pos) \cup Permutations(Time)
=============================================================================
