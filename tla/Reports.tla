------------------------------ MODULE Reports ------------------------------
(***************************************************************************)
(* handle_report() of tline.c, which takes one line of a tracker apart,    *)
(* keeps the last position of each tracker and publishes locations, and    *)
(* its two callers: process() of qtripp.c, which also writes the response  *)
(* and publishes the raw line, and the replay of a file                    *)
(* (handle_file_reports).                                                  *)
(*                                                                         *)
(* A line is taken at once up to the loop over its sub-reports; each turn  *)
(* of the loop is a step.  Nothing else runs between the steps.            *)
(*                                                                         *)
(* Abstractions.  The fields of a report are those the control flow and    *)
(* the published positions depend on.  A fix is what the columns of one    *)
(* sub-report hold: None when the UTC column, the latitude or the          *)
(* longitude is empty; its tst is None when the UTC column is not a time,  *)
(* its cog None when that column is empty.  A subtype stands for a subtype *)
(* and a protocol version, the key of the statistics and of the tables of  *)
(* ignored subtypes and of device definitions.  A distance is the pair of  *)
(* positions it is measured between.  The counters of report_stats and     *)
(* imei_stats, which only the dumps of them read, are left out.            *)
(***************************************************************************)
EXTENDS Naturals

CONSTANTS
  Imei,        \* the IMEIs of the trackers
  Subtype,     \* the subtypes with their protocol versions
  GTHBD,       \* the heartbeat
  Ignored,     \* the subtypes in the table of ignored ones
  Defined,     \* the subtypes lookup_devices() finds a definition for
  Pos,         \* positions
  Time,        \* timestamps
  Cog,         \* courses over ground
  None,        \* NULL, an empty column
  MaxNum       \* bound: sub-reports of a report

Fix == [pos : Pos, tst : Time \cup {None}, cog : Cog \cup {None}]
Fixes == [1..MaxNum -> Fix \cup {None}]

(* An entry of imei_stats.  Before there is a position, what its other     *)
(* fields hold is of no consequence.                                       *)
Stats == [validpos : BOOLEAN, pos : Pos \cup {None}, tst : Time \cup {None},
          cog : Cog \cup {None}]

(* A published location; "p" is the type of a heartbeat's, the others are  *)
(* not told apart.                                                         *)
Location == [t : {"t", "p"}, pos : Pos, tst : Time, cog : Cog \cup {None},
             meters : (Pos \X Pos) \cup {None}]

ASSUME ReportsAssumption ==
  /\ None \notin Imei \cup Pos \cup Time \cup Cog
  /\ None \notin Fix \cup Stats \cup Location
  /\ MaxNum \in Nat \ {0}

VARIABLES
  mode,        \* "server" or "replay", for good
  pc,          \* "line" | "loop"
  imei, fixes, nreports, rep,
  last,        \* lastlat, lastlon
  imei_stats,  \* imei_stats[i]   : None for no entry
  ret,         \* the IMEI the last line returned
  response,    \* what the last line leaves to be written to the device
  published,   \* published[i]    : the last location on i's topic
  raw          \* where the last raw line went: "rawtopic/" and this

lineVars == <<imei, fixes, nreports, rep, last>>
vars == <<mode, pc, lineVars, imei_stats, ret, response, published, raw>>

NewStats == [validpos |-> FALSE, pos |-> None, tst |-> None, cog |-> None]
At(x, c) == [validpos |-> TRUE, pos |-> x.pos, tst |-> x.tst, cog |-> c]
ImeiStat(i) == IF imei_stats[i] = None THEN NewStats ELSE imei_stats[i]
-----------------------------------------------------------------------------
Init ==
  /\ mode \in {"server", "replay"}
  /\ pc = "line"
  /\ imei = None /\ fixes = None /\ nreports = 0 /\ rep = 0 /\ last = None
  /\ imei_stats = [i \in Imei |-> None]
  /\ ret = None /\ response = None
  /\ published = [i \in Imei |-> None]
  /\ raw = "nothing"

(* handle_report() returns i and leaves r.  process() then publishes the   *)
(* raw line under "%s/%s" with what was returned, NULL included.           *)
Return(i, r) ==
  /\ pc' = "line"
  /\ ret' = i /\ response' = r
  /\ raw' = IF mode = "server" THEN i ELSE raw

-----------------------------------------------------------------------------
(* '*', a line that cannot be split, or one without type, IMEI or protocol *)
(* version.                                                                *)
BadLine ==
  /\ pc = "line"
  /\ \E r \in {"*PONG", None} : Return(None, r)
  /\ UNCHANGED <<mode, lineVars, imei_stats, published>>

IgnoredReport(s) ==
  /\ pc = "line" /\ s \in Ignored
  /\ Return(None, None)
  /\ UNCHANGED <<mode, lineVars, imei_stats, published>>

(* An ACK; a heartbeat is answered, and when the tracker has a last        *)
(* position that is published again, with the time of that position.       *)
Ping(is) == [t |-> "p", pos |-> is.pos, tst |-> is.tst, cog |-> is.cog, meters |-> None]

(* slip: only looks whether there is an entry                              *)
HasPosition_Entry(i) == imei_stats[i] # None
HasPosition(i) == imei_stats[i] # None /\ imei_stats[i].validpos

AckReport(i, s) ==
  /\ pc = "line" /\ s \notin Ignored
  /\ IF s = GTHBD
     THEN /\ Return(i, "+SACK:GTHBD")
          /\ imei_stats' = [imei_stats EXCEPT ![i] = ImeiStat(i)]
          /\ published' = IF HasPosition(i)
                          THEN [published EXCEPT ![i] = Ping(imei_stats[i])]
                          ELSE published
     ELSE Return(i, None) /\ UNCHANGED <<imei_stats, published>>
  /\ UNCHANGED <<mode, lineVars>>

(* +RESP or +BUFF without a device definition.                             *)
UndefinedReport(i, s) ==
  /\ pc = "line" /\ s \notin Ignored \cup Defined
  /\ Return(i, None)
  /\ UNCHANGED <<mode, lineVars, imei_stats, published>>

imei_incr(i) == imei_stats' = [imei_stats EXCEPT ![i] = ImeiStat(i)]

(* +RESP or +BUFF with a device definition, up to the loop.                *)
StartReport(i, s) ==
  /\ pc = "line" /\ s \in Defined \ Ignored
  /\ imei' = i /\ fixes' \in Fixes /\ nreports' \in 0..MaxNum
  /\ imei_incr(i)
  /\ rep' = 0 /\ last' = None
  /\ pc' = "loop"
  /\ ret' = None /\ response' = None
  /\ UNCHANGED <<mode, published, raw>>

-----------------------------------------------------------------------------
fix == fixes[rep + 1]

(* while (++rep < nreports): the body ran once if nreports is 0.           *)
Advance ==
  IF rep + 1 < nreports
  THEN rep' = rep + 1 /\ UNCHANGED <<pc, imei, fixes, nreports, ret, response, raw>>
  ELSE /\ rep' = 0 /\ imei' = None /\ fixes' = None /\ nreports' = 0
       /\ Return(imei, None)

Usable(x) == x # None /\ x.tst # None

(* slip: a position without a time counts for the distance to the next    *)
lastSkipped_Moves(x) == IF x = None THEN last ELSE x.pos
lastSkipped(x) == last

(* No fix, or its time cannot be converted: the sub-report is passed over. *)
SkipSubReport ==
  /\ pc = "loop" /\ ~Usable(fix)
  /\ Advance
  /\ last' = IF pc' = "line" THEN None ELSE lastSkipped(fix)
  /\ UNCHANGED <<mode, imei_stats, published>>

(* imei_last_position(.., true).  Without a value in its column, cog is an *)
(* uninitialised local.                                                    *)
(* slip: keeps the first position of a report                              *)
set_last_position_First(x, c) ==
  imei_stats' = [imei_stats EXCEPT ![imei] = IF last = None THEN At(x, c) ELSE @]
set_last_position(x, c) == imei_stats' = [imei_stats EXCEPT ![imei] = At(x, c)]

PublishSubReport ==
  /\ pc = "loop" /\ Usable(fix)
  /\ \E c \in IF fix.cog = None THEN Cog ELSE {fix.cog} : set_last_position(fix, c)
  /\ published' = [published EXCEPT ![imei] =
       [t |-> "t", pos |-> fix.pos, tst |-> fix.tst, cog |-> fix.cog,
        meters |-> IF last = None THEN None ELSE <<last, fix.pos>>]]
  /\ Advance
  /\ last' = IF pc' = "line" THEN None ELSE fix.pos
  /\ UNCHANGED <<mode>>

Next ==
  \/ BadLine
  \/ \E s \in Subtype : IgnoredReport(s)
  \/ \E i \in Imei, s \in Subtype : AckReport(i, s) \/ UndefinedReport(i, s) \/ StartReport(i, s)
  \/ SkipSubReport \/ PublishSubReport

Spec == Init /\ [][Next]_vars

-----------------------------------------------------------------------------
TypeOK ==
  /\ mode \in {"server", "replay"} /\ pc \in {"line", "loop"}
  /\ imei \in Imei \cup {None} /\ fixes \in Fixes \cup {None}
  /\ nreports \in 0..MaxNum /\ rep \in 0..(MaxNum - 1)
  /\ last \in Pos \cup {None}
  /\ imei_stats \in [Imei -> Stats \cup {None}]
  /\ ret \in Imei \cup {None} /\ response \in {None, "*PONG", "+SACK:GTHBD"}
  /\ published \in [Imei -> Location \cup {None}]
  /\ raw \in Imei \cup {None, "nothing"}

(* The last position kept for a tracker is the one last published on its   *)
(* topic, with its time and, if it came with one, its course, also while   *)
(* the sub-reports of a report are gone through and some are passed over.  *)
LastPositionPublished ==
  \A i \in Imei :
    IF imei_stats[i] = None \/ ~imei_stats[i].validpos
    THEN published[i] = None
    ELSE /\ published[i] # None
         /\ published[i].pos = imei_stats[i].pos /\ published[i].tst = imei_stats[i].tst
         /\ published[i].cog \in {None, imei_stats[i].cog}

(* A heartbeat invents no position: it repeats that of the location last   *)
(* published for this tracker, and there is one.  Of its time, see module  *)
(* Heartbeats.                                                             *)
RepeatsPosition(i) ==
  (published'[i] # published[i] /\ published'[i].t = "p") =>
    published[i] # None /\ published'[i].pos = published[i].pos

HeartbeatsRepeatPosition == [][\A i \in Imei : RepeatsPosition(i)]_vars

(* The distance published with a location is the one from the location     *)
(* published just before it for the same tracker.                          *)
FromPrevious(i) ==
  (published'[i] # published[i] /\ published'[i].meters # None) =>
    /\ published[i] # None
    /\ published'[i].meters = <<published[i].pos, published'[i].pos>>

MetersFromPrevious == [][\A i \in Imei : FromPrevious(i)]_vars

-----------------------------------------------------------------------------
(* The inductive invariant behind the properties above.                    *)
LoopState ==
  IF pc = "loop"
  THEN /\ imei \in Imei /\ fixes \in Fixes
       /\ imei_stats[imei] # None
       /\ last # None => published[imei] # None /\ published[imei].pos = last
  ELSE last = None

IInv == TypeOK /\ LoopState /\ LastPositionPublished
=============================================================================
