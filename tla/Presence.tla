------------------------------ MODULE Presence ------------------------------
(***************************************************************************)
(* What a subscriber of the trackers' topics may rely on: the life of each *)
(* tracker as qtripp reports it over MQTT, without sockets or buffers.     *)
(***************************************************************************)
CONSTANTS Imei, TestImei

VARIABLES
  connected,   \* trackers with at least one recognised connection
  last         \* last[i] : the last thing published on i's topic

Init ==
  /\ connected = {}
  /\ last = [i \in Imei |-> "none"]

(* A record of i is processed: i is connected, with a location or without. *)
Heard(i) ==
  /\ connected' = connected \cup {i}
  /\ last' \in {last, [last EXCEPT ![i] = "loc"]}

(* The last connection of i is closed: its LWT follows at once.            *)
Gone(i) ==
  /\ i \in connected
  /\ connected' = connected \ {i}
  /\ last' = IF i = TestImei THEN last ELSE [last EXCEPT ![i] = "lwt"]

Next == \E i \in Imei : Heard(i) \/ Gone(i)

Spec == Init /\ [][Next]_<<connected, last>>
=============================================================================
