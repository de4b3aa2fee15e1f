--------------------------- MODULE OutputsProofs ---------------------------
(***************************************************************************)
(* That the files of Outputs, written by one thread which may die in any   *)
(* call, are what Datalog, LogRotate and ConstFile each promise alone:     *)
(* Outputs implements the three, and has their theorems from them.         *)
(***************************************************************************)
EXTENDS Outputs, TLAPS

DP == INSTANCE DatalogProofs
LP == INSTANCE LogRotateProofs WITH Limit <- LogLimit, dir <- logdir, Dirs <- LogDirs
CP == INSTANCE ConstFileProofs

-----------------------------------------------------------------------------
(* The definitions of the proved modules are those of the modules Outputs  *)
(* is made of.                                                             *)
LEMMA SameConst ==
  /\ C!Init <=> CP!Init
  /\ [C!Next]_(C!constVars) <=> [CP!Next]_(CP!constVars)
  /\ C!ConstFileConstants <=> CP!ConstFileConstants
BY DEF C!Init, CP!Init, C!Next, CP!Next, C!constVars, CP!constVars,
       C!ConstFileConstants, CP!ConstFileConstants,
       C!ConstNext, CP!ConstNext, C!Operator, CP!Operator, C!CrashConst, CP!CrashConst,
       C!OpenFirst, CP!OpenFirst, C!Stat, CP!Stat, C!OpenAgain, CP!OpenAgain, C!Seek, CP!Seek,
       C!Replace, CP!Replace, C!Withdraw, CP!Withdraw, C!Changed, CP!Changed,
       C!OpenFails, CP!OpenFails

LEMMA SameLog ==
  /\ L!Init <=> LP!Init
  /\ [L!Next]_(L!logVars) <=> [LP!Next]_(LP!logVars)
  /\ L!LogRotateConstants <=> LP!LogRotateConstants
BY DEF L!Init, LP!Init, L!Next, LP!Next, L!logVars, LP!logVars,
       L!LogRotateConstants, LP!LogRotateConstants,
       L!LogNext, LP!LogNext, L!Fopen, LP!Fopen, L!Xlog, LP!Xlog, L!RemoveLast, LP!RemoveLast,
       L!Link, LP!Link, L!Remove, LP!Remove, L!Crash, LP!Crash, L!CrashLog, LP!CrashLog,
       L!Removed, LP!Removed, L!Highest, LP!Highest, L!File, LP!File

LEMMA SameData ==
  /\ D!Init <=> DP!Init
  /\ [D!Next]_(D!dataVars) <=> [DP!Next]_(DP!dataVars)
  /\ D!DatalogConstants <=> DP!DatalogConstants
BY DEF D!Init, DP!Init, D!Next, DP!Next, D!dataVars, DP!dataVars, D!diskVars, DP!diskVars,
       D!DatalogConstants, DP!DatalogConstants,
       D!DataNext, DP!DataNext, D!Start, DP!Start, D!WriteRecord, DP!WriteRecord,
       D!WriteNewline, DP!WriteNewline, D!LinkAside, DP!LinkAside, D!Unlink, DP!Unlink,
       D!Reopen, DP!Reopen, D!Process, DP!Process, D!TrackerRecord, DP!TrackerRecord,
       D!TrackerNewline, DP!TrackerNewline, D!Crash, DP!Crash, D!CrashData, DP!CrashData,
       D!Open, DP!Open, D!Write, DP!Write, D!Put, DP!Put, D!Offset, DP!Offset,
       D!NL, DP!NL, D!rec, DP!rec, D!File, DP!File, D!NamedAside, DP!NamedAside,
       D!Owner, DP!Owner, D!TrackerEnd, DP!TrackerEnd

-----------------------------------------------------------------------------
(* Each step is one of a component and a stutter of the others, except     *)
(* that a crash is one of all three.                                       *)
LEMMA StepConst == [Next]_vars => [C!Next]_(C!constVars)
<1> SUFFICES ASSUME [Next]_vars PROVE C!Next \/ UNCHANGED C!constVars
  OBVIOUS
<1>1. CASE StartConst
  BY <1>1 DEF StartConst, C!Next, C!ConstNext
<1>2. CASE Lookup
  BY <1>2 DEF Lookup, C!Next, C!ConstNext
<1>3. CASE Operator
  BY <1>3 DEF Operator, C!Next
<1>4. CASE Crash
  BY <1>4 DEF Crash, C!Next
<1>5. CASE StartLog \/ StartData \/ Log \/ Rotate \/ Record \/ Process \/ Rest \/ UNCHANGED vars
  BY <1>5 DEF StartLog, StartData, Log, Rotate, Record, Process, Rest, vars, constVars, C!constVars
<1>. QED  BY <1>1, <1>2, <1>3, <1>4, <1>5 DEF Next

LEMMA StepLog == [Next]_vars => [L!Next]_(L!logVars)
<1> SUFFICES ASSUME [Next]_vars PROVE L!Next \/ UNCHANGED L!logVars
  OBVIOUS
<1>1. CASE StartLog
  BY <1>1 DEF StartLog, L!Next, L!LogNext
<1>2. CASE Log
  BY <1>2 DEF Log, L!Next, L!LogNext
<1>3. CASE Rotate
  BY <1>3 DEF Rotate, L!Next, L!LogNext
<1>4. CASE Crash
  BY <1>4 DEF Crash, L!Next, L!Crash, D!Crash
<1>5. CASE StartConst \/ Lookup \/ Operator \/ Rest \/ UNCHANGED vars
  BY <1>5 DEF StartConst, Lookup, Operator, Rest, vars, logVars, L!logVars
<1>6. CASE StartData \/ Record \/ Process
  BY <1>6 DEF StartData, Record, Process, logVars, L!logVars, D!Start, D!WriteRecord,
     D!WriteNewline, D!LinkAside, D!Unlink, D!Reopen, D!Process, D!TrackerRecord, D!TrackerNewline
<1>. QED  BY <1>1, <1>2, <1>3, <1>4, <1>5, <1>6 DEF Next

LEMMA StepData == [Next]_vars => [D!Next]_(D!dataVars)
<1> SUFFICES ASSUME [Next]_vars PROVE D!Next \/ UNCHANGED D!dataVars
  OBVIOUS
<1>1. CASE StartData
  BY <1>1 DEF StartData, D!Next, D!DataNext
<1>2. CASE Record
  BY <1>2 DEF Record, D!Next, D!DataNext
<1>3. CASE Process
  BY <1>3 DEF Process, D!Next, D!DataNext
<1>4. CASE Crash
  BY <1>4 DEF Crash, D!Next
<1>5. CASE StartConst \/ Lookup \/ Operator \/ Rest \/ UNCHANGED vars
  BY <1>5 DEF StartConst, Lookup, Operator, Rest, vars, dataVars, D!dataVars, D!diskVars
<1>6. CASE StartLog \/ Log \/ Rotate
  BY <1>6 DEF StartLog, Log, Rotate, dataVars, D!dataVars, D!diskVars, L!Fopen, L!Xlog,
     L!RemoveLast, L!Link, L!Remove
<1>. QED  BY <1>1, <1>2, <1>3, <1>4, <1>5, <1>6 DEF Next

-----------------------------------------------------------------------------
(* The files together implement each of the three modules.                 *)
THEOREM Implements == Spec => D!Spec /\ L!Spec /\ C!Spec
<1>1. Init => D!Init /\ L!Init /\ C!Init
  BY DEF Init
<1>. QED  BY <1>1, StepConst, StepLog, StepData, PTL DEF Spec, D!Spec, L!Spec, C!Spec

(* What a lookup returns was in the CDB at some moment of the lookup       *)
(* (constfile.c:64-77), whatever the rest of the server does meanwhile.    *)
THEOREM Lookups == Spec => LookupIsCurrent
<1>1. CP!Spec => CP!LookupIsCurrent
  BY OutputsAssumption, SameConst, CP!Lookup
<1>2. [(cpc = "seek" /\ cpc' = "idle") => found' \in during]_(C!constVars)
      <=> [(cpc = "seek" /\ cpc' = "idle") => found' \in during]_(CP!constVars)
  BY DEF C!constVars, CP!constVars
<1>. QED  BY <1>1, <1>2, SameConst, Implements, PTL
          DEF C!Spec, CP!Spec, LookupIsCurrent, C!LookupIsCurrent, CP!LookupIsCurrent

(* The log loses its oldest lines only, and one file of the ten at most    *)
(* for each crash (util.c:192-210), wherever in the server it comes.       *)
THEOREM LogStays == Spec => LogKept
<1>1. LP!Spec => LP!LogIsJournal
  BY OutputsAssumption, SameLog, LP!LogJournal
<1>2. /\ L!J!Init <=> LP!J!Init
      /\ [L!J!Append \/ L!J!Trim]_(L!InLog) <=> [LP!J!Append \/ LP!J!Trim]_(LP!InLog)
  BY DEF L!J!Init, LP!J!Init, L!J!Append, LP!J!Append, L!J!Trim, LP!J!Trim,
         L!InLog, LP!InLog, L!Named, LP!Named, L!InFile, LP!InFile, L!KeptLines, LP!KeptLines,
         L!J!Cardinality, LP!J!Cardinality
<1>. QED  BY <1>1, <1>2, SameLog, Implements, PTL
          DEF L!Spec, LP!Spec, LogKept, L!LogIsJournal, LP!LogIsJournal, L!J!Spec, LP!J!Spec

(* What has been written to the data log stays in it or in a file set      *)
(* aside from it (qtripp.c:276-283), in a directory that can be written.   *)
THEOREM DataStays == ASSUME Dirs = {"writable"} PROVE Spec => DataLogKept
<1>1. DP!Spec => DP!LogsForGood
  BY OutputsAssumption, SameData, DP!ForGood
<1>2. /\ D!J!Init <=> DP!J!Init
      /\ [D!J!Append]_(D!Logged) <=> [DP!J!Append]_(DP!Logged)
  BY DEF D!J!Init, DP!J!Init, D!J!Append, DP!J!Append,
         D!Logged, DP!Logged, D!Named, DP!Named, D!Records, DP!Records, D!NL, DP!NL
<1>. QED  BY <1>1, <1>2, SameData, Implements, PTL
          DEF D!Spec, DP!Spec, DataLogKept, D!LogsForGood, DP!LogsForGood,
              D!J!AppendOnly, DP!J!AppendOnly

(* What has been processed is in the data log (qtripp.c:273-288).          *)
THEOREM ProcessedInLog == ASSUME Dirs = {"writable"} PROVE Spec => []ProcessedIsLogged
<1>1. DP!Spec => []DP!ProcessedIsLogged
  BY OutputsAssumption, SameData, DP!Processed
<1>2. DP!ProcessedIsLogged => ProcessedIsLogged
  BY DEF ProcessedIsLogged, D!ProcessedIsLogged, DP!ProcessedIsLogged,
         D!Logged, DP!Logged, D!Named, DP!Named, D!Records, DP!Records, D!NL, DP!NL
<1>. QED  BY <1>1, <1>2, SameData, Implements, PTL DEF D!Spec, DP!Spec

(* The file of a tracker has that tracker's records in order, and all that *)
(* are in the data log but one for each crash (qtripp.c:290-304).          *)
THEOREM TrackerFilesOwn == ASSUME Dirs = {"writable"} PROVE Spec => []TrackerFilesAgree
<1>1. DP!Spec => []DP!TrackerFilesAgree
  BY OutputsAssumption, SameData, DP!TrackerFiles
<1>2. DP!TrackerFilesAgree => TrackerFilesAgree
  BY DEF TrackerFilesAgree, D!TrackerFilesAgree, DP!TrackerFilesAgree,
         D!Cardinality, DP!Cardinality,
         D!OwnRecords, DP!OwnRecords, D!InOrder, DP!InOrder, D!Missing, DP!Missing,
         D!InTrackers, DP!InTrackers, D!Pending, DP!Pending, D!rec, DP!rec,
         D!Logged, DP!Logged, D!Named, DP!Named, D!Records, DP!Records, D!NL, DP!NL
<1>. QED  BY <1>1, <1>2, SameData, Implements, PTL DEF D!Spec, DP!Spec

(* A line of the data log or of the file of a tracker has one record, but  *)
(* for one for each crash (qtripp.c:273-274, 299-300).                     *)
THEOREM LinesWhole == ASSUME Dirs = {"writable"} PROVE Spec => []JoinedOnlyByCrashes
<1>1. DP!Spec => []DP!JoinedOnlyByCrashes
  BY OutputsAssumption, SameData, DP!OneRecordALine
<1>2. DP!JoinedOnlyByCrashes => JoinedOnlyByCrashes
  BY DEF JoinedOnlyByCrashes, D!JoinedOnlyByCrashes, DP!JoinedOnlyByCrashes,
         D!Cardinality, DP!Cardinality, D!Joined, DP!Joined, D!File, DP!File,
         D!rec, DP!rec, D!NL, DP!NL
<1>. QED  BY <1>1, <1>2, SameData, Implements, PTL DEF D!Spec, DP!Spec

(* Whatever the directories of the data log and of the log are, and        *)
(* wherever a crash comes, the three stay in states of theirs: a           *)
(* descriptor and a name are those of a file there is, a file holds        *)
(* records received and lines logged, and what has been processed was      *)
(* received (qtripp.c:267-305, util.c:178-216).                            *)
THEOREM TypeCorrect == Spec => []TypeOK
<1>1. DP!Spec => []DP!TInv
  BY OutputsAssumption, SameData, DP!TypeCorrect
<1>2. LP!Spec => []LP!IInv
  BY OutputsAssumption, SameLog, LP!Invariant
<1>3. CP!Spec => []CP!IInv
  BY OutputsAssumption, SameConst, CP!Invariant
<1>4. DP!TInv => D!TypeOK
  BY DEF D!TypeOK, DP!TInv, DP!TypeOK, D!File, DP!File, D!rec, DP!rec
<1>5. LP!IInv => L!TypeOK
  BY DEF L!TypeOK, LP!IInv, LP!TypeOK, L!File, LP!File
<1>6. CP!IInv => C!TypeOK
  BY DEF C!TypeOK, CP!IInv, CP!TypeOK
<1>. QED  BY <1>1, <1>2, <1>3, <1>4, <1>5, <1>6, SameData, SameLog, SameConst, Implements, PTL
          DEF D!Spec, DP!Spec, L!Spec, LP!Spec, C!Spec, CP!Spec, TypeOK
=============================================================================
