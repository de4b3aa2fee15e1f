------------------------------ MODULE Silence ------------------------------
(***************************************************************************)
(* Conns with a clock per connection that only received bytes reset:       *)
(* nc->last_io_time, which MG_EV_POLL looks at, is also set by mg_send().  *)
(***************************************************************************)
EXTENDS Conns

VARIABLE silent   \* time since the last byte was received, up to Idle + 1

SInit == Init /\ silent = [c \in Nc |-> 0]

(* quiet is at most Idle when Select starts, so its growth is the time     *)
(* that passes.                                                            *)
SNext ==
  /\ Next
  /\ silent' = [c \in Nc |->
       IF c \notin active' \/ c \notin active \/ (pc = "handle" /\ Len(wire'[sock[c]]) < Len(wire[sock[c]]))
       THEN 0
       ELSE IF pc = "select" /\ pc' = "handle"
            THEN Min2(silent[c] + quiet'[c] - quiet[c], Idle + 1)
            ELSE silent[c]]

SSpec == SInit /\ [][SNext]_<<vars, silent>>

(* qtripp.c:244-248: a connection on which nothing is received for more    *)
(* than 20 minutes is assumed dead and closed in the same round.           *)
SilentConnsClosed == pc = "mqtt" => \A c \in active : silent[c] <= Idle
=============================================================================
