-------------------------------- MODULE Mqtt --------------------------------
(***************************************************************************)
(* The connection to the MQTT broker: the second half of main()'s loop,    *)
(* the callbacks on_connect() and on_disconnect() and what pub() does when *)
(* there is no connection.                                                 *)
(*                                                                         *)
(* libmosquitto and the broker are external and modelled as far as the     *)
(* program can tell.  A publication is only of interest for its result:    *)
(* with QOS 2 libmosquitto keeps what it could not send.  The session of   *)
(* the client survives its connections (clean_session is false), but not   *)
(* every restart of the broker.                                            *)
(***************************************************************************)
EXTENDS Naturals

VARIABLES
  broker,      \* "up" | "busy" | "down": it accepts, refuses, is not there
  session,     \* whether the broker has the client's subscriptions
  sock,        \* libmosquitto: "none" | "wait" for CONNACK | "open"
  lost,        \* the connection is gone, and libmosquitto has not seen it yet
  connack,     \* on its way to the client: "none" | "ok" | "refused"
  subscribe,   \* a SUBSCRIBE is on its way to the broker
  mpc,         \* main(): "poll" | "loop" | "result"
  rc           \* what mosquitto_loop() returned

link == <<sock, lost, connack, subscribe>>
vars == <<broker, session, link, mpc, rc>>

Rc == {"SUCCESS", "NO_CONN", "CONN_LOST", "CONN_REFUSED"}

(* mosquitto_connect_async() has been called; whether it got through or    *)
(* not, its result is ignored.                                             *)
Init ==
  /\ broker \in {"up", "busy", "down"} /\ session \in BOOLEAN
  /\ sock \in {"none", "wait"} /\ (broker = "down" => sock = "none")
  /\ lost = FALSE /\ connack = "none" /\ subscribe = FALSE
  /\ mpc = "poll" /\ rc = "SUCCESS"

-----------------------------------------------------------------------------
(* mosquitto_reconnect(): closes what there is, connects, sends CONNECT.   *)
Reconnect ==
  /\ sock' = IF broker = "down" THEN "none" ELSE "wait"
  /\ lost' = FALSE /\ connack' = "none" /\ subscribe' = FALSE

(* pub(), from a handler in mg_mgr_poll(): mosquitto_publish() says        *)
(* NO_CONN; the result of the reconnect is ignored.                        *)
Pub ==
  /\ mpc = "poll" /\ sock = "none"
  /\ Reconnect
  /\ UNCHANGED <<broker, session, mpc, rc>>

(* mg_mgr_poll() returns.                                                  *)
Polled ==
  /\ mpc = "poll" /\ mpc' = "loop"
  /\ UNCHANGED <<broker, session, link, rc>>

Returns(r) == mpc = "loop" /\ mpc' = "result" /\ rc' = r /\ UNCHANGED <<broker, session>>

(* mosquitto_loop() without a socket, with a connection that has gone,     *)
(* which calls on_disconnect(), and with one that was refused.             *)
LoopNoConn == sock = "none" /\ Returns("NO_CONN") /\ UNCHANGED link

LoopLost ==
  /\ sock # "none" /\ lost
  /\ sock' = "none" /\ lost' = FALSE /\ connack' = "none" /\ subscribe' = FALSE
  /\ Returns("CONN_LOST")

LoopRefused ==
  /\ sock = "wait" /\ ~lost /\ connack = "refused"
  /\ sock' = "none" /\ connack' = "none" /\ UNCHANGED <<lost, subscribe>>
  /\ Returns("CONN_REFUSED")

(* CONNACK: on_connect() subscribes.                                       *)
LoopConnack ==
  /\ sock = "wait" /\ ~lost /\ connack = "ok"
  /\ sock' = "open" /\ connack' = "none" /\ subscribe' = TRUE
  /\ UNCHANGED lost
  /\ Returns("SUCCESS")

(* Nothing has arrived, or commands have.                                  *)
LoopIdle ==
  /\ sock # "none" /\ ~lost /\ connack = "none"
  /\ Returns("SUCCESS") /\ UNCHANGED link

(* slip: reconnects when the connection has just been lost                 *)
Reconnects_Lost == rc = "CONN_LOST"
Reconnects == rc = "NO_CONN"

(* The end of main()'s loop; if the reconnect fails it sleeps first.       *)
Result ==
  /\ mpc = "result" /\ mpc' = "poll"
  /\ IF Reconnects THEN Reconnect ELSE UNCHANGED link
  /\ UNCHANGED <<broker, session, rc>>

MainLoop ==
  \/ Polled
  \/ LoopNoConn \/ LoopLost \/ LoopRefused \/ LoopConnack \/ LoopIdle
  \/ Result

-----------------------------------------------------------------------------
(* The broker answers CONNECT and SUBSCRIBE, as soon as it can.            *)
Answer ==
  /\ broker # "down" /\ sock = "wait" /\ ~lost /\ connack = "none"
  /\ connack' = IF broker = "up" THEN "ok" ELSE "refused"
  /\ UNCHANGED <<broker, session, sock, lost, subscribe, mpc, rc>>

Subscribed ==
  /\ broker # "down" /\ subscribe /\ ~lost
  /\ subscribe' = FALSE /\ session' = TRUE
  /\ UNCHANGED <<broker, sock, lost, connack, mpc, rc>>

(* The connection fails.                                                   *)
Fails ==
  /\ sock # "none" /\ ~lost /\ lost' = TRUE
  /\ UNCHANGED <<broker, session, sock, connack, subscribe, mpc, rc>>

(* The broker stops or is overloaded, and comes back with its sessions or  *)
(* without; it is stopped together with its connections.                   *)
Change(b) ==
  /\ broker # b /\ broker' = b
  /\ lost' = (lost \/ (b = "down" /\ sock # "none"))
  /\ session' \in IF broker = "down" THEN {FALSE, session} ELSE {session}
  /\ UNCHANGED <<sock, connack, subscribe, mpc, rc>>

Next ==
  \/ MainLoop \/ Pub
  \/ Answer \/ Subscribed
  \/ Fails
  \/ \E b \in {"up", "busy", "down"} : Change(b)

(* main() loops for ever, and each call returns; the broker answers.       *)
Fairness == WF_vars(MainLoop) /\ WF_vars(Answer) /\ WF_vars(Subscribed)

Spec == Init /\ [][Next]_vars /\ Fairness
-----------------------------------------------------------------------------
Listening == sock = "open" /\ ~lost /\ session

(* qtripp.c:697-703, 466-492: when the broker and the network are there    *)
(* for good, the program is in the end connected and subscribed for good,  *)
(* so commands reach it, even if no tracker makes it publish.              *)
ComesBack == <>[](broker = "up" /\ ~lost) => <>[]Listening
=============================================================================
