----------------------------- MODULE LogRotate -----------------------------
(***************************************************************************)
(* xlog() and rotate_file() of util.c: lines are appended to the logfile,  *)
(* and when it is longer than LOGFILE_SIZE, logfile-001 .. logfile-010 are *)
(* moved up by one, each by link() and remove(), the oldest is removed and *)
(* the logfile becomes logfile-001.  The program may die between any two   *)
(* of these calls; the next one starts with what it finds.                 *)
(*                                                                         *)
(* Abstractions.  A line is its number, a size is a number of lines, a     *)
(* file is its inode, numbered as they are created; what has been flushed  *)
(* is in the file.  The calls go through when the directory is writable;   *)
(* when it is not ("readonly") the logfile itself can still be written.    *)
(* fclose() is part of the step before it: only names outlive the process. *)
(***************************************************************************)
EXTENDS Integers, Sequences, FiniteSets

CONSTANTS
  Slots,       \* 10: logfile-001 .. logfile-010
  Limit,       \* LOGFILE_SIZE
  Dirs,        \* what the directory of the logs may be
  None,
  MaxLines,    \* bound: lines written
  MaxCrashes   \* bound: crashes

(* What the constants are.                                                 *)
LogRotateConstants ==
  /\ Slots \in Nat \ {0} /\ Limit \in Nat /\ MaxLines \in Nat /\ MaxCrashes \in Nat
  /\ Dirs \subseteq {"writable", "readonly"}
  /\ None \notin Nat

VARIABLES
  dir,         \* the directory of the logs, for good
  slot,        \* slot[n]  : the file named logfile-00n, the logfile for 0
  lines,       \* lines[f] : what file f holds
  logfp,       \* ud->logfp, a file or None
  lpc,         \* "fopen" | "ready" | "remove_last" | "link" | "remove"
  n,           \* rotate_file()'s counter, 0 for the logfile
  count,       \* the number of the last line
  crashes

logVars == <<dir, slot, lines, logfp, lpc, n, count, crashes>>

File == DOMAIN lines

Init ==
  /\ dir \in Dirs
  /\ IF dir = "writable" THEN lines = <<>> ELSE lines = <<<<>>>>
  /\ slot = [k \in 0..Slots |-> IF k = 0 /\ dir # "writable" THEN 1 ELSE None]
  /\ logfp = None /\ lpc = "fopen" /\ n = 0 /\ count = 0 /\ crashes = 0

(* fopen(logfile, "a"), in main() and after a rotation.                    *)
Fopen ==
  /\ lpc = "fopen" /\ lpc' = "ready"
  /\ IF slot[0] # None
     THEN logfp' = slot[0] /\ UNCHANGED <<slot, lines>>
     ELSE /\ lines' = Append(lines, <<>>)
          /\ logfp' = Len(lines')
          /\ slot' = [slot EXCEPT ![0] = Len(lines')]
  /\ UNCHANGED <<dir, n, count, crashes>>

(* xlog(): a line, and the test of the size.                               *)
Xlog ==
  /\ lpc = "ready" /\ count < MaxLines
  /\ count' = count + 1
  /\ lines' = [lines EXCEPT ![logfp] = Append(@, count')]
  /\ IF Len(lines'[logfp]) > Limit
     THEN lpc' = "remove_last" /\ logfp' = None
     ELSE UNCHANGED <<lpc, logfp>>
  /\ UNCHANGED <<dir, slot, n, crashes>>

Removed(k) == IF dir = "writable" THEN [slot EXCEPT ![k] = None] ELSE slot

(* slip: only the logfile is moved                                         *)
Highest_Logfile == 0
Highest == Slots - 1

RemoveLast ==
  /\ lpc = "remove_last" /\ lpc' = "link"
  /\ slot' = Removed(Slots)
  /\ n' = Highest
  /\ UNCHANGED <<dir, lines, logfp, count, crashes>>

(* link() of one name to the next; it fails if the first does not exist or *)
(* the second does.                                                        *)
Link ==
  /\ lpc = "link" /\ lpc' = "remove"
  /\ slot' = IF dir = "writable" /\ slot[n + 1] = None
             THEN [slot EXCEPT ![n + 1] = slot[n]] ELSE slot
  /\ UNCHANGED <<dir, lines, logfp, n, count, crashes>>

Remove ==
  /\ lpc = "remove"
  /\ slot' = Removed(n)
  /\ IF n = 0 THEN lpc' = "fopen" /\ n' = n
              ELSE lpc' = "link" /\ n' = n - 1
  /\ UNCHANGED <<dir, lines, logfp, count, crashes>>

(* The process ends here and is started again.                             *)
CrashLog == lpc' = "fopen" /\ logfp' = None /\ n' = 0 /\ UNCHANGED <<dir, slot, lines, count>>

Crash == crashes < MaxCrashes /\ crashes' = crashes + 1 /\ CrashLog

LogNext == Fopen \/ Xlog \/ RemoveLast \/ Link \/ Remove
Next == LogNext \/ Crash

Spec == Init /\ [][Next]_logVars

-----------------------------------------------------------------------------
Named == {slot[k] : k \in 0..Slots} \ {None}
InFile(f) == {lines[f][k] : k \in DOMAIN lines[f]}
InLog == UNION {InFile(f) : f \in Named}

(* The types.                                                              *)
TypeOK ==
  /\ dir \in Dirs
  /\ slot \in [0..Slots -> File \cup {None}]
  /\ lines \in Seq(Seq(1..count))
  /\ logfp \in File \cup {None}
  /\ lpc \in {"fopen", "ready", "remove_last", "link", "remove"}
  /\ n \in 0..(Slots - 1)
  /\ count \in 0..MaxLines /\ crashes \in 0..MaxCrashes

(* When the oldest file is removed ten full ones are left, the logfile     *)
(* among them, and each crash costs one of them at most.                   *)
KeptLines == (Slots - MaxCrashes) * (Limit + 1)

J == INSTANCE Journal WITH entries <- InLog, Kept <- KeptLines

(* util.c:192-210: the oldest lines go first, a file at a time.            *)
LogIsJournal == J!Spec

-----------------------------------------------------------------------------
(* The inductive invariant behind it.  The files are in order, the logfile *)
(* is the newest, a file has its new name before it loses the old one; so  *)
(* what there is of the log has no gap.                                    *)
Rotating == lpc \in {"remove_last", "link", "remove"}

NewestFile ==
  /\ slot[0] \in {None, Len(lines)}
  /\ lpc # "fopen" => slot[0] # None
  /\ lpc = "ready" => logfp = slot[0]
  /\ lpc # "ready" => logfp = None
  /\ dir # "writable" => slot[0] # None /\ \A k \in 1..Slots : slot[k] = None

InSequence ==
  /\ \A f, g \in File : f < g => \A x \in InFile(f), y \in InFile(g) : x < y
  /\ \A j, k \in 0..Slots : (j < k /\ slot[j] # None /\ slot[k] # None) => slot[k] <= slot[j]

Moving ==
  dir = "writable" =>
    /\ lpc = "link" => slot[n + 1] = None
    /\ lpc = "remove" => slot[n] \in {None, slot[n + 1]}

NoGap == \A x \in InLog : x..count \subseteq InLog

(* logfile-00k is followed by the k - 1 files that became full after it,   *)
(* one less for each crash, and by the logfile.                            *)
Moved(k) == lpc \in {"fopen", "ready"} \/ (lpc \in {"link", "remove"} /\ n < k)
Files(k) == (IF Moved(k) THEN k - 1 ELSE k) - crashes
Fresh ==
  IF Rotating \/ slot[0] = None THEN 0
  ELSE IF Len(lines[slot[0]]) < Limit + 1 THEN Len(lines[slot[0]]) ELSE Limit + 1

Followed ==
  \A k \in 1..Slots : slot[k] # None =>
    /\ \A x \in InFile(slot[k]) : count - x >= Files(k) * (Limit + 1) + Fresh
    /\ slot[k] = slot[0] => Files(k) <= IF Rotating THEN 0 ELSE -1

IInv == TypeOK /\ NewestFile /\ InSequence /\ Moving /\ NoGap /\ Followed
=============================================================================
