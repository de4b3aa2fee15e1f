----------------------------- MODULE MCCommands -----------------------------
(* Instances of Commands, and of ConnsPresence in it, for TLC.             *)
EXTENDS Commands, ConnsPresence, TLC

Symmetric == Permutations(Nc) \cup Permutations(Fd)
=============================================================================
