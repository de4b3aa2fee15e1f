--------------------------- MODULE ConnsPresence ---------------------------
(***************************************************************************)
(* Conns as an implementation of Presence: a tracker is connected when an  *)
(* entry of conns_by_sock has been recognised as it.                       *)
(***************************************************************************)
EXTENDS Conns

P == INSTANCE Presence WITH connected <- Identified

(* What is published on a tracker's topic follows its connections:         *)
(* locations only while it is connected or as it becomes so, and the LWT   *)
(* exactly when the last of its connections is closed (qtripp.c:360-377).  *)
ImplementsPresence == P!Spec
=============================================================================
