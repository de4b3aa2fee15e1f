---------------------------- MODULE Heartbeats ----------------------------
(***************************************************************************)
(* Reports with the time that a tracker puts into a heartbeat, its fourth  *)
(* column behind the type, which handle_report() never reads.              *)
(***************************************************************************)
EXTENDS Reports

VARIABLE beat   \* the time in the last line, or None if it is no heartbeat

HInit == Init /\ beat = None

(* A line is a heartbeat if it is answered like one.                       *)
HNext == Next /\ beat' \in (IF response' = "+SACK:GTHBD" THEN Time ELSE {None})

HSpec == HInit /\ [][HNext]_<<vars, beat>>

(* tline.c:499-502: what is published for a heartbeat has the timestamp    *)
(* from the heartbeat.                                                     *)
HeartbeatsTimed ==
  \A i \in Imei :
    (ret = i /\ response = "+SACK:GTHBD" /\ published[i] # None) => published[i].tst = beat
=============================================================================
