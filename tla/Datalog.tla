------------------------------ MODULE Datalog ------------------------------
(***************************************************************************)
(* What MG_EV_POLL of qtripp.c does with a record on disk: it is written   *)
(* to the data log, which is set aside under another name when it has      *)
(* become too long, then processed, then appended to the file of its       *)
(* tracker.  Every result of write(), link(), unlink() and open() is       *)
(* ignored.  The program may die between any two calls and be started      *)
(* again.                                                                  *)
(*                                                                         *)
(* Abstractions.  A record is its number, in the order of their arrival; a *)
(* file holds records and newlines.  A directory is "writable", "readonly" *)
(* (its files can be written, its names cannot change) or "nolinks" (of a  *)
(* file system without hard links); only that of the data log varies.  Two *)
(* files are not set aside in the same second, so link() finds the new     *)
(* name free, or naming the same file after a crash.                       *)
(***************************************************************************)
EXTENDS Naturals, Sequences, FiniteSets

CONSTANTS
  Imei,        \* the trackers
  Limit,       \* 10 MB
  Dirs,        \* what the directory of the data log may be
  None,
  MaxRecords,  \* bound: records received
  MaxCrashes   \* bound: crashes

(* What the constants are.                                                 *)
DatalogConstants ==
  /\ Limit \in Nat \ {0} /\ MaxRecords \in Nat /\ MaxCrashes \in Nat
  /\ Dirs \subseteq {"writable", "readonly", "nolinks"}
  /\ None \notin Imei \cup Nat \cup [file : Nat, pos : Nat, append : BOOLEAN]

VARIABLES
  dir,         \* the directory of the data log, for good
  datalog,     \* the file named cf->datalog
  aside,       \* the files named cf->datalog.<time>
  files,       \* files[f]   : what file f holds
  fd,          \* ud->datalog: file, offset and O_APPEND, or None
  tracker,     \* tracker[i] : what datadir/data-<i> holds
  dpc,         \* where MG_EV_POLL is
  sender,      \* sender[r]  : the IMEI in record r, or None
  processed,   \* observation: the records handed to process()
  crashes

diskVars == <<datalog, aside, files, tracker>>
dataVars == <<dir, diskVars, fd, dpc, sender, processed, crashes>>

NL == 0
rec == Len(sender)
File == DOMAIN files

Init ==
  /\ dir \in Dirs
  /\ IF dir = "writable" THEN datalog = None /\ files = <<>> ELSE datalog = 1 /\ files = <<<<>>>>
  /\ aside = {} /\ fd = None
  /\ tracker = [i \in Imei |-> <<>>]
  /\ dpc = "open" /\ sender = <<>> /\ processed = {} /\ crashes = 0

(* open() of the data log, created if it is not there.                     *)
Open(append) ==
  /\ IF datalog # None
     THEN UNCHANGED <<datalog, files>>
     ELSE /\ files' = Append(files, <<>>)
          /\ datalog' = Len(files')
  /\ fd' = [file |-> datalog', pos |-> 0, append |-> append]

Start ==
  /\ dpc = "open" /\ dpc' = "poll"
  /\ Open(TRUE)
  /\ UNCHANGED <<dir, aside, tracker, sender, processed, crashes>>

(* slip: always at the offset                                              *)
Offset_Always == fd.pos
(* write(): at the end if O_APPEND was given, at the offset if not.        *)
Offset == IF fd.append THEN Len(files[fd.file]) ELSE fd.pos
Put(s, at, x) == [k \in 1..(IF at = Len(s) THEN at + 1 ELSE Len(s)) |->
                    IF k = at + 1 THEN x ELSE s[k]]
Write(x) ==
  /\ files' = [files EXCEPT ![fd.file] = Put(@, Offset, x)]
  /\ fd' = [fd EXCEPT !.pos = Offset + 1]

(* A complete record is found in mb and written.                           *)
WriteRecord(i) ==
  /\ dpc = "poll" /\ rec < MaxRecords
  /\ sender' = Append(sender, i)
  /\ Write(rec + 1)
  /\ dpc' = "newline"
  /\ UNCHANGED <<dir, datalog, aside, tracker, processed, crashes>>

WriteNewline ==
  /\ dpc = "newline"
  /\ Write(NL)
  /\ dpc' = IF fd'.pos > Limit THEN "link" ELSE "process"
  /\ UNCHANGED <<dir, datalog, aside, tracker, sender, processed, crashes>>

(* slip: the file is removed without another name                          *)
NamedAside_None == aside
NamedAside == IF dir = "writable" THEN aside \cup {datalog} ELSE aside

(* close() and link() to cf->datalog.<time>                                *)
LinkAside ==
  /\ dpc = "link" /\ dpc' = "unlink"
  /\ aside' = NamedAside
  /\ fd' = None
  /\ UNCHANGED <<dir, datalog, files, tracker, sender, processed, crashes>>

Unlink ==
  /\ dpc = "unlink" /\ dpc' = "reopen"
  /\ datalog' = IF dir = "readonly" THEN datalog ELSE None
  /\ UNCHANGED <<dir, aside, files, fd, tracker, sender, processed, crashes>>

Reopen ==
  /\ dpc = "reopen" /\ dpc' = "process"
  /\ Open(FALSE)
  /\ UNCHANGED <<dir, aside, tracker, sender, processed, crashes>>

(* process(), and what it returned: the IMEI in the record, or NULL.       *)
Process ==
  /\ dpc = "process"
  /\ processed' = processed \cup {rec}
  /\ dpc' = IF sender[rec] = None THEN "poll" ELSE "tracker"
  /\ UNCHANGED <<dir, diskVars, fd, sender, crashes>>

(* slip: the IMEI of the record before, if that had one                    *)
Owner_Before == IF rec > 1 /\ sender[rec - 1] # None THEN sender[rec - 1] ELSE sender[rec]
Owner == sender[rec]

(* open() with O_APPEND, two write()s and close(); datadir is configured   *)
(* and can be written.                                                     *)
TrackerRecord ==
  /\ dpc = "tracker" /\ dpc' = "tracker_newline"
  /\ tracker' = [tracker EXCEPT ![Owner] = Append(@, rec)]
  /\ UNCHANGED <<dir, datalog, aside, files, fd, sender, processed, crashes>>

(* slip: no newline after a record                                         *)
TrackerEnd_None == tracker
TrackerEnd == [tracker EXCEPT ![sender[rec]] = Append(@, NL)]

TrackerNewline ==
  /\ dpc = "tracker_newline" /\ dpc' = "poll"
  /\ tracker' = TrackerEnd
  /\ UNCHANGED <<dir, datalog, aside, files, fd, sender, processed, crashes>>

(* The process ends here and is started again.                             *)
CrashData == dpc' = "open" /\ fd' = None /\ UNCHANGED <<dir, diskVars, sender, processed>>

Crash == crashes < MaxCrashes /\ crashes' = crashes + 1 /\ CrashData

DataNext ==
  \/ Start
  \/ \E i \in Imei \cup {None} : WriteRecord(i)
  \/ WriteNewline \/ LinkAside \/ Unlink \/ Reopen
  \/ Process
  \/ TrackerRecord \/ TrackerNewline

Next == DataNext \/ Crash

Spec == Init /\ [][Next]_dataVars

-----------------------------------------------------------------------------
Records(s) == {s[k] : k \in DOMAIN s} \ {NL}
Named == aside \cup ({datalog} \ {None})
Logged == UNION {Records(files[f]) : f \in Named}

(* The types.                                                              *)
TypeOK ==
  /\ dir \in Dirs
  /\ datalog \in File \cup {None} /\ aside \subseteq File
  /\ files \in Seq(Seq(0..rec))
  /\ fd \in [file : File, pos : Nat, append : BOOLEAN] \cup {None}
  /\ tracker \in [Imei -> Seq(0..rec)]
  /\ dpc \in {"open", "poll", "newline", "link", "unlink", "reopen", "process", "tracker",
              "tracker_newline"}
  /\ sender \in Seq(Imei \cup {None})
  /\ processed \subseteq 1..rec
  /\ crashes \in 0..MaxCrashes

J == INSTANCE Journal WITH entries <- Logged, Kept <- 0
(* qtripp.c:276-283: what is in the data log stays in it or in a file set  *)
(* aside from it.                                                          *)
LogsForGood == J!AppendOnly

(* README.md:31 has raw data copied to file for backup and replay: what    *)
(* has been processed, and so published, is in the data log.               *)
ProcessedIsLogged == processed \subseteq Logged

(* The file of a tracker has the tracker's own records, in their order, of *)
(* those in the data log; what is missing a crash has cut off, a record at *)
(* a time.                                                                 *)
Pending ==
  IF dpc \in {"newline", "link", "unlink", "reopen", "process", "tracker"} THEN {rec} ELSE {}
InTrackers == UNION {Records(tracker[i]) : i \in Imei}
Missing == {r \in Logged : sender[r] # None} \ (InTrackers \cup Pending)

OwnRecords(i) == \A r \in Records(tracker[i]) : r \in Logged /\ sender[r] = i
InOrder(s) == \A k, l \in DOMAIN s : (k < l /\ s[k] # NL /\ s[l] # NL) => s[k] < s[l]

TrackerFilesAgree ==
  /\ \A i \in Imei : OwnRecords(i) /\ InOrder(tracker[i])
  /\ Cardinality(Missing) <= crashes

(* Two records share a line, which handle_file_reports() would take for    *)
(* one, only where a crash came between a record and its newline.          *)
Joined(s) == {k \in 1..(Len(s) - 1) : s[k] # NL /\ s[k + 1] # NL}
JoinedOnlyByCrashes ==
  Cardinality({p \in File \X (1..(2 * rec)) : p[2] \in Joined(files[p[1]])})
    + Cardinality({p \in Imei \X (1..(2 * rec)) : p[2] \in Joined(tracker[p[1]])}) <= crashes

-----------------------------------------------------------------------------
(* The inductive invariant behind the first three, in a writable           *)
(* directory: the descriptor is at the end of the file that has the name,  *)
(* every file has a name, so every record there ever was is in a file with *)
(* one, and the newest is not in the file of its tracker before its turn.  *)
AtEnd ==
  IF dpc \in {"open", "unlink", "reopen"}
  THEN fd = None
  ELSE /\ fd # None /\ fd.file = datalog
       /\ fd.append \/ fd.pos = Len(files[datalog])

AllNamed ==
  /\ File \subseteq aside \cup {datalog}
  /\ dpc = "unlink" => datalog \in aside
  /\ dpc = "reopen" => datalog = None

AllLogged == \A r \in 1..rec : \E f \in File : r \in Records(files[f])

Newest ==
  /\ dpc \notin {"open", "poll"} => rec # 0
  /\ dpc \in {"tracker", "tracker_newline"} => sender[rec] # None

IInv ==
  /\ TypeOK
  /\ AtEnd /\ AllNamed /\ AllLogged
  /\ Newest
  /\ Pending \cap InTrackers = {}
  /\ TrackerFilesAgree

(* The one behind the types, in any directory: the descriptor and the name *)
(* are there wherever they are used, and a record is there to be processed.*)
Ready ==
  /\ dpc \notin {"open", "unlink", "reopen"} => fd # None
  /\ dpc \notin {"open", "reopen"} => datalog # None

TInv == TypeOK /\ Newest /\ Ready
=============================================================================
