------------------------------ MODULE Outputs ------------------------------
(***************************************************************************)
(* The files of the server together: MG_EV_POLL with its data log,         *)
(* handle_report() with its lookups in the CDB, and the log that both      *)
(* write.  It is one thread: a call is in the middle of its caller, which  *)
(* waits for it, and when the process dies it dies in all of them.         *)
(***************************************************************************)
EXTENDS Naturals, Sequences, FiniteSets

CONSTANTS
  Imei, Version, None,
  Dirs,        \* what the directory of the data log may be
  LogDirs,     \* what that of the log may be
  Limit,       \* of the data log
  LogLimit,    \* of the log
  Slots, MaxRecords, MaxLines, MaxCrashes

VARIABLES
  dir, datalog, aside, files, fd, tracker, dpc, sender, processed,
  logdir, slot, lines, logfp, lpc, n, count,
  cdb, installed, cofi, cpc, found, during,
  crashes,
  looked       \* whether a lookup was made for the record being processed

D == INSTANCE Datalog
L == INSTANCE LogRotate WITH Limit <- LogLimit, dir <- logdir, Dirs <- LogDirs
C == INSTANCE ConstFile

ASSUME OutputsAssumption ==
  D!DatalogConstants /\ L!LogRotateConstants /\ C!ConstFileConstants

dataVars == <<datalog, aside, files, fd, tracker, dpc, sender, processed>>
logVars == <<logdir, slot, lines, logfp, lpc, n, count>>
constVars == <<cdb, installed, cofi, cpc, found, during>>
vars == <<dir, dataVars, logVars, constVars, crashes, looked>>

Init == D!Init /\ L!Init /\ C!Init /\ looked = FALSE

(* No call is under way: of xlog(), of xlog() and constfile_stab().        *)
LogReady == lpc = "ready"
Free == LogReady /\ cpc = "idle"

(* main(): the log, the CDB, the data log.                                 *)
StartLog == L!Fopen /\ UNCHANGED <<dir, dataVars, constVars, looked>>
StartConst == LogReady /\ C!OpenFirst /\ UNCHANGED <<dir, dataVars, logVars, crashes, looked>>
StartData == Free /\ D!Start /\ UNCHANGED <<logVars, constVars, looked>>

(* xlog() is called before, during and after process(), and nowhere        *)
(* between the write to the data log and its reopening, nor in             *)
(* constfile.c.                                                            *)
Log ==
  /\ dpc \in {"poll", "process"} /\ cpc = "idle"
  /\ L!Xlog
  /\ UNCHANGED <<dir, dataVars, constVars, looked>>

Rotate ==
  /\ L!RemoveLast \/ L!Link \/ L!Remove
  /\ UNCHANGED <<dir, dataVars, constVars, looked>>

Record ==
  /\ Free
  /\ \/ \E i \in Imei \cup {None} : D!WriteRecord(i)
     \/ D!WriteNewline \/ D!LinkAside \/ D!Unlink \/ D!Reopen
     \/ D!TrackerRecord \/ D!TrackerNewline
  /\ looked' = FALSE
  /\ UNCHANGED <<logVars, constVars>>

(* handle_report() looks the name up, and transmit_json() what is added to *)
(* each location, and between two records to the pseudo-LWT.               *)
Lookup ==
  /\ LogReady
  /\ dpc = "poll" \/ (dpc = "process" /\ sender[Len(sender)] # None)
  /\ C!Stat \/ C!OpenAgain \/ C!Seek
  /\ looked' = (dpc = "process")
  /\ UNCHANGED <<dir, dataVars, logVars, crashes>>

Process ==
  /\ Free /\ D!Process
  /\ looked \/ sender[Len(sender)] = None
  /\ UNCHANGED <<logVars, constVars, looked>>

Operator == C!Operator /\ UNCHANGED <<dir, dataVars, logVars, crashes, looked>>

(* The process ends, by an assert() of constfile.c or otherwise, and is    *)
(* started again.                                                          *)
Crash ==
  /\ D!Crash /\ L!CrashLog /\ C!CrashConst
  /\ looked' = FALSE

(* There is no record in any mb, or the server has stopped for good.       *)
Rest == ((Free /\ dpc = "poll") \/ cpc = "abort") /\ UNCHANGED vars

Next ==
  \/ StartLog \/ StartConst \/ StartData
  \/ Log \/ Rotate
  \/ Record \/ Lookup \/ Process
  \/ Operator
  \/ Crash \/ Rest

Spec == Init /\ [][Next]_vars
-----------------------------------------------------------------------------
(* The types of the three components.                                      *)
TypeOK == D!TypeOK /\ L!TypeOK /\ C!TypeOK

(* qtripp.c:276-283: what has been written to the data log stays in it or  *)
(* in a file set aside from it, across rotations and crashes, and new      *)
(* records come after it.                                                  *)
DataLogKept == D!LogsForGood

(* qtripp.c:273-288: a record is in the data log before it is processed,   *)
(* so nothing is published that is not in it.                              *)
ProcessedIsLogged == D!ProcessedIsLogged

(* qtripp.c:290-304: the file of a tracker has the records of that         *)
(* tracker, in order, and all that are in the data log but one for each    *)
(* time the process died.                                                  *)
TrackerFilesAgree == D!TrackerFilesAgree

(* qtripp.c:273-274: a line of a file has one record, but for one for each *)
(* time the process died.                                                  *)
JoinedOnlyByCrashes == D!JoinedOnlyByCrashes

(* util.c:192-210: the log loses its oldest lines only, and a rotation     *)
(* that was cut off costs one file of the ten at most.                     *)
LogKept == L!LogIsJournal

(* constfile.c:64-77: what is added to a location was in the CDB at some   *)
(* moment of the lookup.                                                   *)
LookupIsCurrent == C!LookupIsCurrent
=============================================================================
