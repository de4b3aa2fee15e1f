------------------------------- MODULE Conns -------------------------------
(***************************************************************************)
(* The connection core of qtripp: the rounds of the mongoose event loop    *)
(* (mg_socket_if_poll) and the four event handlers of ev_handler()         *)
(* (qtripp.c), with the table conns_by_sock, the per-connection buffer     *)
(* `mb', the recognition of a tracker by the first record that carries its *)
(* IMEI, the closing of idle connections and the pseudo-LWT.               *)
(*                                                                         *)
(* One round of mg_mgr_poll() is                                           *)
(*   Select   -- select(2) returns, some sockets are readable;             *)
(*   handle   -- every connection of the list is read, written and polled  *)
(*               (mg_mgr_handle_conn), the listening one comes last;       *)
(*   sweep    -- connections flagged for closing are closed;               *)
(*   mqtt     -- mosquitto_loop() runs and may hand a command to on_message*)
(* after which the main loop of qtripp.c starts the next round.            *)
(*                                                                         *)
(* Abstractions.  A record "+...$" is two tokens, its body and End; the    *)
(* body says which tracker it names and which of the outcomes of           *)
(* handle_report() it has.  The bytes of a record may arrive in any number *)
(* of reads.  send_mbuf is only empty or not.  A conndata is named by its  *)
(* socket, the key of conns_by_sock; the addresses of mg_connection        *)
(* structures are the elements of Nc, so both kinds of name are reused     *)
(* when a connection has gone.  The order of active_connections matters    *)
(* only in that the listening connection, added first, comes last.         *)
(***************************************************************************)
EXTENDS Naturals, Sequences, FiniteSets

CONSTANTS
  Imei,        \* the IMEIs of the trackers
  TestImei,    \* 123456789012345, for which no LWT is published
  Fd,          \* descriptors accept(2) can return, all below FD_SETSIZE
  Nc,          \* addresses calloc() can return for an mg_connection
  None,        \* NULL, INVALID_SOCKET
  Idle,        \* 20*60 seconds, in units of the clock of this module
  Kinds,       \* bound: the kinds of record trackers send
  MaxRecords   \* bound: records one connection may start to send

(* What handle_report() does with a record, as far as connections go.      *)
(*   resp    +RESP/+BUFF with a position: IMEI returned, location published*)
(*   ack     +ACK other than GTHBD, or a report without a position or a    *)
(*           device definition: IMEI returned, nothing published           *)
(*   hbd     +ACK:GTHBD: IMEI returned, answered, "p" location published   *)
(*           when a position is known                                      *)
(*   ping    *PING: answered, no IMEI                                      *)
(*   junk    not splittable, no IMEI in it, or an ignored subtype: no IMEI *)
Kind == {"resp", "ack", "hbd", "ping", "junk"}
End == [imei |-> None, kind |-> "$"]
Body(i, k) == [imei |-> i, kind |-> k]
Token == {Body(i, k) : i \in Imei, k \in Kind} \cup {End}

ASSUME ConnsAssumption ==
  /\ None \notin Imei /\ None \notin Fd /\ None \notin Nc
  /\ IsFiniteSet(Fd)
  /\ Idle \in Nat
  /\ Kinds \subseteq Kind
  /\ MaxRecords \in Nat

Min2(m, n) == IF m < n THEN m ELSE n

VARIABLES
  \* the peers and the kernel
  peer,        \* peer[f] : "none" | "up" | "fin" | "rst"
  who,         \* who[f]  : the tracker at the other end
  wire,        \* wire[f] : bytes received by the kernel, not yet read
  \* mongoose
  pc,          \* where the main loop is
  active,      \* active_connections without the listening one
  todo,        \* connections of the list not yet handled in this round
  canRead,     \* of those, the ones select(2) reported and not yet read
  sock,        \* nc->sock
  userData,    \* nc->user_data, a conndata named by its socket
  sendBuf,     \* nc->send_mbuf.len > 0
  closeNow,    \* nc->flags & MG_F_CLOSE_IMMEDIATELY
  sendAndClose,\* nc->flags & MG_F_SEND_AND_CLOSE
  quiet,       \* now - nc->last_io_time, up to Idle + 1
  \* qtripp.c
  known,       \* the keys of conns_by_sock
  imei,        \* co->imei
  conn,        \* co->nc
  mb,          \* co->mb
  \* tline.c
  valid,       \* trackers whose my_imeistat has validpos
  \* observations
  sent,        \* sent[f] : all bytes the peer of the open f has sent
  done,        \* done[f] : all bytes process() was given for the open f
  last         \* last[i] : the last thing published on i's topic

peerVars == <<peer, who, wire>>
loopVars == <<pc, todo, canRead>>
ncVars   == <<active, sock, userData, sendBuf, closeNow, sendAndClose, quiet>>
coVars   == <<known, imei, conn, mb>>
obsVars  == <<sent, done>>
vars == <<peerVars, loopVars, ncVars, coVars, valid, obsVars, last>>
-----------------------------------------------------------------------------
(* The text of the first record of a buffer, up to and with its '$'.       *)
HasRecord(s) == \E n \in DOMAIN s : s[n] = End
FirstEnd(s) == CHOOSE n \in DOMAIN s : s[n] = End /\ \A m \in 1..(n-1) : s[m] # End
Text(s) == SubSeq(s, 1, FirstEnd(s))
(* slip: cuts before the '$' instead of behind it                          *)
Rest_KeepsEnd(s) == SubSeq(s, FirstEnd(s), Len(s))
Rest(s) == SubSeq(s, FirstEnd(s) + 1, Len(s))

(* handle_report(): the IMEI it returns, whether it leaves a response, and *)
(* whether it publishes a location.  Anything but one well-formed record   *)
(* cannot be split and has no effect.                                      *)
Kindof(t) == IF Len(t) = 2 THEN t[1].kind ELSE "junk"
(* slip: goto finish for an ACK before imei_dup is set                     *)
ReportImei_NoAck(t) == IF Kindof(t) = "resp" THEN t[1].imei ELSE None
ReportImei(t) == IF Kindof(t) \in {"resp", "ack", "hbd"} THEN t[1].imei ELSE None
Responds(t) == Kindof(t) \in {"hbd", "ping"}
Locates(t, v) == Kindof(t) = "resp" \/ (Kindof(t) = "hbd" /\ t[1].imei \in v)

count_conns(i) == Cardinality({f \in known : imei[f] = i})
Identified == {imei[f] : f \in known} \ {None}

-----------------------------------------------------------------------------
Init ==
  /\ peer = [f \in Fd |-> "none"]
  /\ who = [f \in Fd |-> None]
  /\ wire = [f \in Fd |-> <<>>]
  /\ pc = "select" /\ active = {} /\ todo = {} /\ canRead = {}
  /\ sock = [c \in Nc |-> None]
  /\ userData = [c \in Nc |-> None]
  /\ sendBuf = [c \in Nc |-> FALSE]
  /\ closeNow = [c \in Nc |-> FALSE]
  /\ sendAndClose = [c \in Nc |-> FALSE]
  /\ quiet = [c \in Nc |-> 0]
  /\ known = {}
  /\ imei = [f \in Fd |-> None]
  /\ conn = [f \in Fd |-> None]
  /\ mb = [f \in Fd |-> <<>>]
  /\ valid = {}
  /\ sent = [f \in Fd |-> <<>>]
  /\ done = [f \in Fd |-> <<>>]
  /\ last = [i \in Imei |-> "none"]

-----------------------------------------------------------------------------
(* The trackers.  They send whole records piecewise, naming themselves,    *)
(* and may end or lose the connection at any moment.                       *)
Send(f) ==
  /\ peer[f] = "up"
  /\ \E t \in IF sent[f] # <<>> /\ sent[f][Len(sent[f])] # End
              THEN {End}
              ELSE {Body(who[f], k) : k \in Kinds} :
       /\ t = End \/ Len(sent[f]) < 2 * MaxRecords
       /\ wire' = [wire EXCEPT ![f] = Append(@, t)]
       /\ sent' = [sent EXCEPT ![f] = Append(@, t)]
  /\ UNCHANGED <<peer, who, loopVars, ncVars, coVars, valid, done, last>>

Disconnect(f) ==
  /\ \/ peer[f] = "up" /\ peer' = [peer EXCEPT ![f] = "fin"]
     \/ peer[f] \in {"up", "fin"} /\ peer' = [peer EXCEPT ![f] = "rst"]
  /\ UNCHANGED <<who, wire, loopVars, ncVars, coVars, valid, obsVars, last>>

Tracker == \E f \in Fd : Send(f) \/ Disconnect(f)

-----------------------------------------------------------------------------
Readable(c) == wire[sock[c]] # <<>> \/ peer[sock[c]] \in {"fin", "rst"}

(* select() sleeps for up to a second: one unit of time passes, or none.   *)
Select ==
  /\ pc = "select"
  /\ \E d \in {0, 1} :
       quiet' = [c \in Nc |-> IF c \in active THEN Min2(quiet[c] + d, Idle + 1)
                                              ELSE quiet[c]]
  /\ pc' = "handle"
  /\ todo' = active
  /\ canRead' = {c \in active : Readable(c)}
  /\ UNCHANGED <<peerVars, active, sock, userData, sendBuf, closeNow, sendAndClose,
                 coVars, valid, obsVars, last>>

(* mg_handle_tcp_read(): recv() returns some of the bytes; MG_EV_RECV moves *)
(* them to the end of the buffer of the conndata of this socket.  (No       *)
(* connection is flagged MG_F_CLOSE_IMMEDIATELY before it has been read.)   *)
ReadBytes(c) ==
  LET f == sock[c] IN
  /\ pc = "handle" /\ c \in canRead
  /\ \E n \in 1..Len(wire[f]) :
       /\ wire' = [wire EXCEPT ![f] = SubSeq(@, n + 1, Len(@))]
       /\ mb' = [mb EXCEPT ![f] = @ \o SubSeq(wire[f], 1, n)]
  /\ quiet' = [quiet EXCEPT ![c] = 0]
  /\ canRead' = canRead \ {c}
  /\ UNCHANGED <<peer, who, pc, todo, active, sock, userData, sendBuf, closeNow,
                 sendAndClose, known, imei, conn, valid, obsVars, last>>

(* recv() returns 0: the peer has sent everything it is going to send.     *)
ReadEof(c) ==
  /\ pc = "handle" /\ c \in canRead
  /\ peer[sock[c]] = "fin" /\ wire[sock[c]] = <<>>
  /\ sendAndClose' = [sendAndClose EXCEPT ![c] = TRUE]
  /\ canRead' = canRead \ {c}
  /\ UNCHANGED <<peerVars, pc, todo, active, sock, userData, sendBuf, closeNow, quiet,
                 coVars, valid, obsVars, last>>

(* recv() returns -1: the connection was reset.                            *)
ReadError(c) ==
  /\ pc = "handle" /\ c \in canRead
  /\ peer[sock[c]] = "rst"
  /\ closeNow' = [closeNow EXCEPT ![c] = TRUE]
  /\ canRead' = canRead \ {c}
  /\ UNCHANGED <<peerVars, pc, todo, active, sock, userData, sendBuf, sendAndClose, quiet,
                 coVars, valid, obsVars, last>>

-----------------------------------------------------------------------------
(* mg_write_to_socket(): what is left of send_mbuf is written in part or   *)
(* not at all, is written, or fails, which only a reset causes: a peer     *)
(* that has only ended its side still takes what is written.               *)
Written(c) == {"part"} \cup (IF sendBuf[c] THEN {"all"} ELSE {})
                       \cup (IF sendBuf[c] /\ peer[sock[c]] = "rst" THEN {"error"} ELSE {})

(* A connection flagged while it was read is neither written nor polled.   *)
Skip(c) ==
  /\ pc = "handle" /\ c \in todo \ canRead /\ closeNow[c]
  /\ todo' = todo \ {c}
  /\ UNCHANGED <<peerVars, pc, canRead, ncVars, coVars, valid, obsVars, last>>

(* MG_EV_POLL flags a connection without traffic for too long, but goes on.*)
(* slip: only recognised connections time out                             *)
TooQuiet_Recognised(c) == sock[c] \in known /\ imei[sock[c]] # None /\ quiet[c] > Idle
TooQuiet(c) == sock[c] \in known /\ quiet[c] > Idle
(* slip: a record is taken only when the buffer ends with its '$'         *)
Pending_AtEnd(c) ==
  sock[c] \in known /\ mb[sock[c]] # <<>> /\ mb[sock[c]][Len(mb[sock[c]])] = End
Pending(c) == sock[c] \in known /\ HasRecord(mb[sock[c]])

(* MG_EV_POLL of a connection whose buffer holds no complete record.       *)
PollNothing(c) ==
  /\ pc = "handle" /\ c \in todo \ canRead /\ ~closeNow[c] /\ ~Pending(c)
  /\ \E w \in Written(c) :
       /\ sendBuf' = [sendBuf EXCEPT ![c] = @ /\ w # "all"]
       /\ closeNow' = [closeNow EXCEPT ![c] = w = "error" \/ TooQuiet(c)]
  /\ todo' = todo \ {c}
  /\ UNCHANGED <<peerVars, pc, canRead, active, sock, userData, sendAndClose, quiet,
                 coVars, valid, obsVars, last>>

(* MG_EV_POLL of a connection with a complete record: the first one, and   *)
(* only that, goes through process() and handle_report().  The first one   *)
(* that yields an IMEI identifies the connection.                          *)
PollRecord(c) ==
  LET f == sock[c]
      u == userData[c]
      t == Text(mb[f])
      i == ReportImei(t) IN
  /\ pc = "handle" /\ c \in todo \ canRead /\ ~closeNow[c] /\ Pending(c)
  /\ \E w \in Written(c) :
       /\ sendBuf' = [sendBuf EXCEPT ![c] = (@ /\ w # "all") \/ Responds(t)]
       /\ closeNow' = [closeNow EXCEPT ![c] = w = "error" \/ TooQuiet(c)]
  /\ quiet' = [quiet EXCEPT ![c] = IF Responds(t) THEN 0 ELSE @]
  /\ valid' = IF Kindof(t) = "resp" THEN valid \cup {i} ELSE valid
  /\ last' = [j \in Imei |-> IF Locates(t, valid) /\ j = i THEN "loc" ELSE last[j]]
  /\ imei' = [g \in Fd |-> IF g = u /\ imei[g] = None THEN i ELSE imei[g]]
  /\ mb' = [mb EXCEPT ![f] = Rest(@)]
  /\ done' = [done EXCEPT ![f] = @ \o t]
  /\ todo' = todo \ {c}
  /\ UNCHANGED <<peerVars, pc, canRead, active, sock, userData, sendAndClose,
                 known, conn, sent>>

(* The listening connection is handled last: mg_accept_conn() takes one    *)
(* waiting client.  MG_EV_ACCEPT adds a conndata unless there is one for   *)
(* the socket already.                                                     *)
Accept(c, f, i) ==
  /\ pc = "handle" /\ todo = {}
  /\ c \notin active /\ peer[f] = "none"
  /\ peer' = [peer EXCEPT ![f] = "up"]
  /\ who' = [who EXCEPT ![f] = i]
  /\ active' = active \cup {c}
  /\ sock' = [sock EXCEPT ![c] = f]
  /\ userData' = [userData EXCEPT ![c] = f]
  /\ known' = known \cup {f}
  /\ IF f \in known
     THEN UNCHANGED <<imei, conn, mb>>
     ELSE /\ imei' = [imei EXCEPT ![f] = None]
          /\ conn' = [conn EXCEPT ![f] = c]
          /\ mb' = [mb EXCEPT ![f] = <<>>]
  /\ pc' = "sweep"
  /\ UNCHANGED <<wire, todo, canRead, sendBuf, closeNow, sendAndClose, quiet,
                 valid, obsVars, last>>

(* Nobody is waiting, or accept() failed.                                  *)
NoAccept ==
  /\ pc = "handle" /\ todo = {}
  /\ pc' = "sweep"
  /\ UNCHANGED <<peerVars, todo, canRead, ncVars, coVars, valid, obsVars, last>>

-----------------------------------------------------------------------------
(* slip: a connection is closed while the list is still being walked      *)
Sweeping_Early == pc \in {"handle", "sweep"}
Sweeping == pc = "sweep"
(* slip: the end of the stream does not close a connection                *)
Closable_NoEof(c) == c \in active /\ closeNow[c]
Closable(c) == c \in active /\ (closeNow[c] \/ (sendAndClose[c] /\ ~sendBuf[c]))

(* slips: counts after delete_conn(); does not count                       *)
LwtDue_CountedLate(i) == i \notin {None, TestImei} /\ count_conns(i) < 1
LwtDue_Uncounted(i) == i \notin {None, TestImei}

LwtDue(i) == i \notin {None, TestImei} /\ count_conns(i) < 2

(* slip: the conndata stays in conns_by_sock                              *)
delete_conn_Keeps(u) ==
  /\ imei' = [g \in Fd |-> IF g = u THEN None ELSE imei[g]]
  /\ UNCHANGED <<known, conn, mb>>

delete_conn(u) ==
  /\ known' = known \ {u}
  /\ imei' = [g \in Fd |-> IF g = u THEN None ELSE imei[g]]
  /\ conn' = [g \in Fd |-> IF g = u THEN None ELSE conn[g]]
  /\ mb' = [g \in Fd |-> IF g = u THEN <<>> ELSE mb[g]]

(* mg_close_conn(): the socket is closed, then MG_EV_CLOSE publishes the   *)
(* pseudo-LWT unless the tracker has another connection, and delete_conn() *)
(* takes the conndata out of conns_by_sock.  The mg_connection is zeroed.  *)
Close(c) ==
  LET f == sock[c]
      u == userData[c] IN
  /\ Sweeping /\ Closable(c)
  /\ last' = [i \in Imei |->
                IF u # None /\ imei[u] = i /\ LwtDue(i)
                THEN "lwt" ELSE last[i]]
  /\ delete_conn(u)
  /\ active' = active \ {c}
  /\ sock' = [sock EXCEPT ![c] = None]
  /\ userData' = [userData EXCEPT ![c] = None]
  /\ sendBuf' = [sendBuf EXCEPT ![c] = FALSE]
  /\ closeNow' = [closeNow EXCEPT ![c] = FALSE]
  /\ sendAndClose' = [sendAndClose EXCEPT ![c] = FALSE]
  /\ quiet' = [quiet EXCEPT ![c] = 0]
  /\ peer' = [peer EXCEPT ![f] = "none"]
  /\ who' = [who EXCEPT ![f] = None]
  /\ wire' = [wire EXCEPT ![f] = <<>>]
  /\ sent' = [sent EXCEPT ![f] = <<>>]
  /\ done' = [done EXCEPT ![f] = <<>>]
  /\ UNCHANGED <<loopVars, valid>>

SweepDone ==
  /\ Sweeping /\ \A c \in Nc : ~Closable(c)
  /\ pc' = "mqtt"
  /\ UNCHANGED <<peerVars, todo, canRead, ncVars, coVars, valid, obsVars, last>>

(* mosquitto_loop() delivers at most one message; on_message() may write a *)
(* command to some connection.  Which one, module Commands says.           *)
Command(c) ==
  /\ pc = "mqtt" /\ c \in active
  /\ sendBuf' = [sendBuf EXCEPT ![c] = TRUE]
  /\ quiet' = [quiet EXCEPT ![c] = 0]
  /\ pc' = "select"
  /\ UNCHANGED <<peerVars, todo, canRead, active, sock, userData, closeNow, sendAndClose,
                 coVars, valid, obsVars, last>>

NoCommand ==
  /\ pc = "mqtt"
  /\ pc' = "select"
  /\ UNCHANGED <<peerVars, todo, canRead, ncVars, coVars, valid, obsVars, last>>

-----------------------------------------------------------------------------
Round ==
  \/ Select
  \/ \E c \in Nc : ReadBytes(c) \/ ReadEof(c) \/ ReadError(c)
  \/ \E c \in Nc : Skip(c) \/ PollNothing(c) \/ PollRecord(c)
  \/ \E c \in Nc, f \in Fd, i \in Imei : Accept(c, f, i)
  \/ NoAccept
  \/ \E c \in Nc : Close(c)
  \/ SweepDone
  \/ \E c \in Nc : Command(c)
  \/ NoCommand

Next == Tracker \/ Round

Spec == Init /\ [][Next]_vars

-----------------------------------------------------------------------------
TypeOK ==
  /\ peer \in [Fd -> {"none", "up", "fin", "rst"}]
  /\ who \in [Fd -> Imei \cup {None}]
  /\ wire \in [Fd -> Seq(Token)]
  /\ pc \in {"select", "handle", "sweep", "mqtt"}
  /\ active \subseteq Nc /\ todo \subseteq active /\ canRead \subseteq todo
  /\ sock \in [Nc -> Fd \cup {None}]
  /\ userData \in [Nc -> Fd \cup {None}]
  /\ sendBuf \in [Nc -> BOOLEAN]
  /\ closeNow \in [Nc -> BOOLEAN]
  /\ sendAndClose \in [Nc -> BOOLEAN]
  /\ quiet \in [Nc -> 0..(Idle + 1)]
  /\ known \subseteq Fd
  /\ imei \in [Fd -> Imei \cup {None}]
  /\ conn \in [Fd -> Nc \cup {None}]
  /\ mb \in [Fd -> Seq(Token)]
  /\ valid \subseteq Imei
  /\ sent \in [Fd -> Seq(Token)]
  /\ done \in [Fd -> Seq(Token)]
  /\ last \in [Imei -> {"none", "loc", "lwt"}]

(* conns_by_sock has exactly the open connections: what MG_EV_POLL and     *)
(* MG_EV_RECV find by nc->sock is what nc->user_data points to, it is this *)
(* connection's, and `assert(co != NULL)' in MG_EV_RECV cannot fail.       *)
ConnsBySockExact ==
  /\ known = {sock[c] : c \in active}
  /\ \A c \in active : userData[c] = sock[c] /\ conn[sock[c]] = c

(* As long as a connection is open, every byte its tracker has sent was    *)
(* given to process() once and in order, or waits in `mb' or the kernel,   *)
(* across reads that cut records anywhere and reuse of sockets.            *)
StreamIntact ==
  \A c \in active : LET f == sock[c] IN sent[f] = done[f] \o mb[f] \o wire[f]

(* A connection is recognised by the first record with an IMEI that        *)
(* process() was given on it, and keeps that IMEI: its own tracker's.      *)
RecognisedByFirstRecord ==
  \A f \in known :
    imei[f] = IF \E n \in DOMAIN done[f] : done[f][n].kind \in {"resp", "ack", "hbd"}
              THEN who[f] ELSE None

(* A tracker whose topic last carried a location has an open connection:   *)
(* once its last one is closed the pseudo-LWT follows the location.        *)
LocatedIsConnected ==
  \A i \in Imei \ {TestImei} : last[i] = "loc" => i \in Identified

(* When mosquitto's turn comes, no connection is left that has been        *)
(* without traffic for more than Idle.                                     *)
IdleConnsClosed == pc = "mqtt" => \A c \in active : quiet[c] <= Idle

(* qtripp.c:226-231 says the records in the buffer are searched for and    *)
(* processed each: then none is left when a connection is closed that had  *)
(* no error and was not too quiet, but whose tracker has ended it.         *)
ClosedConnsAreDrained ==
  pc = "sweep" => \A c \in Nc : (Closable(c) /\ ~closeNow[c]) => ~HasRecord(mb[sock[c]])

-----------------------------------------------------------------------------
(* The inductive invariant behind the safety properties above.             *)
Own(i) == {Body(i, k) : k \in Kind} \cup {End}

(* Only a round's handling phase has connections to do.                    *)
Phases == pc # "handle" => todo = {}

(* A socket is in conns_by_sock as long as the kernel has it open.         *)
KernelAgrees ==
  \A f \in Fd : IF f \in known
                THEN peer[f] # "none" /\ who[f] \in Imei
                ELSE peer[f] = "none" /\ wire[f] = <<>> /\ sent[f] = <<>> /\ done[f] = <<>>

(* What is buffered for a connection, and its IMEI, are its tracker's.     *)
OwnRecords ==
  \A f \in known : /\ imei[f] \in {None, who[f]}
                   /\ mb[f] \in Seq(Own(who[f]))
                   /\ wire[f] \in Seq(Own(who[f]))

(* A polled connection that is too quiet is flagged until the sweep.       *)
QuietFlagged ==
  /\ \A c \in Nc \ active : quiet[c] = 0
  /\ \A c \in active :
       (quiet[c] > Idle) => \/ pc = "handle" /\ c \in todo
                            \/ pc \in {"handle", "sweep"} /\ closeNow[c]

(* Bodies and Ends alternate in a stream, and whole records were processed.*)
WholeRecords ==
  \A f \in Fd : /\ \A n \in DOMAIN sent[f] : sent[f][n] = End <=> n % 2 = 0
                /\ Len(done[f]) % 2 = 0

IInv ==
  /\ TypeOK
  /\ Phases
  /\ ConnsBySockExact
  /\ KernelAgrees
  /\ StreamIntact
  /\ OwnRecords
  /\ LocatedIsConnected
  /\ QuietFlagged

-----------------------------------------------------------------------------
(* The loop of main() never stops, and a round visits every connection.    *)
(* TCP delivers what is in send_mbuf or resets the connection.             *)
Flush(c) == PollNothing(c) /\ sendBuf[c] /\ ~sendBuf'[c]
Fairness == WF_vars(Round) /\ \A c \in Nc : SF_vars(Flush(c))
FairSpec == Spec /\ Fairness

(* A complete record in the buffer of an open connection is processed, or  *)
(* the connection is closed.                                               *)
RecordsProcessed ==
  \A c \in Nc : \A n \in 0..(2 * MaxRecords) :
    (c \in active /\ HasRecord(mb[sock[c]]) /\ Len(done[sock[c]]) = n)
      ~> (c \notin active \/ Len(done[sock[c]]) > n)

(* A connection its tracker has left is closed.                            *)
LeftConnsClose ==
  \A f \in Fd : peer[f] \in {"fin", "rst"} ~> peer[f] = "none"
=============================================================================
