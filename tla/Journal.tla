------------------------------ MODULE Journal ------------------------------
(***************************************************************************)
(* What the log and the data log promise: entries are added at the end and *)
(* stay; a journal that is trimmed loses its oldest entries only, and      *)
(* keeps some.  Entries are numbered in the order in which they are made,  *)
(* so the set of the numbers says what there is and in which order.        *)
(***************************************************************************)
EXTENDS Naturals, FiniteSets

CONSTANT Kept   \* entries that trimming leaves at least

VARIABLE entries

Init == entries = {}

Append ==
  \E n \in entries' :
    /\ entries' = entries \cup {n}
    /\ \A e \in entries : e < n

Trim ==
  /\ entries' \subseteq entries
  /\ \A e \in entries \ entries', k \in entries' : e < k
  /\ Cardinality(entries') >= Kept

AppendOnly == Init /\ [][Append]_entries

Spec == Init /\ [][Append \/ Trim]_entries
=============================================================================
