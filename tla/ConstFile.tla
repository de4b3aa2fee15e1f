----------------------------- MODULE ConstFile -----------------------------
(***************************************************************************)
(* constfile.c: the CDB with the names of the trackers and what is added   *)
(* to their locations.  It is kept open; each lookup asks for the mtime of *)
(* the file of that name, reopens it if that has changed, and reads.  The  *)
(* operator replaces or removes the file at any moment.                    *)
(*                                                                         *)
(* Abstractions.  A version of the CDB is its mtime, in seconds, so no two *)
(* versions share one; the code asks whether two mtimes are the same, not  *)
(* which is newer.  A version is put in place by rename(), as cdb(1) does, *)
(* never written into the open file, and not a second time.  What a lookup *)
(* returns is the version it reads.                                        *)
(***************************************************************************)
CONSTANTS
  Version,     \* the versions of the CDB, by their mtimes
  None

(* What the constants are.                                                 *)
ConstFileConstants ==
  None \notin Version \cup [fd : Version, mtime : Version]

VARIABLES
  cdb,         \* the version at cf->cdb_path, or None
  installed,   \* the versions that have been there
  cofi,        \* ud->ef: the version open and the mtime recorded, or None
  cpc,         \* "main" | "idle" | "open" | "seek" | "abort"
  found,       \* what the last lookup found
  during       \* observation: the versions there were since a lookup last began that saw one

constVars == <<cdb, installed, cofi, cpc, found, during>>

Init ==
  /\ cdb \in Version /\ installed = {cdb}
  /\ cofi = None /\ cpc = "main" /\ found = None /\ during = {cdb}

(* The operator.                                                           *)
Replace(v) ==
  /\ v \notin installed
  /\ cdb' = v /\ installed' = installed \cup {v}
  /\ during' = during \cup {v}
  /\ UNCHANGED <<cofi, cpc, found>>

Withdraw ==
  /\ cdb # None /\ cdb' = None
  /\ UNCHANGED <<installed, cofi, cpc, found, during>>

(* constfile_open(), in main().                                            *)
OpenFirst ==
  /\ cpc = "main" /\ cpc' = "idle"
  /\ cofi' = IF cdb = None THEN None ELSE [fd |-> cdb, mtime |-> cdb]
  /\ during' = IF cdb = None THEN during ELSE {cdb}
  /\ UNCHANGED <<cdb, installed, found>>

Changed == cdb # cofi.mtime

(* constfile_stab(): constfile_checkfile() up to close(); without a cofi   *)
(* its assert() fails.                                                     *)
Stat ==
  /\ cpc = "idle"
  /\ IF cofi = None
     THEN cpc' = "abort" /\ UNCHANGED <<cofi, during>>
     ELSE /\ IF cdb # None /\ Changed
             THEN cpc' = "open" /\ cofi' = [cofi EXCEPT !.mtime = cdb]
             ELSE cpc' = "seek" /\ cofi' = cofi
          /\ during' = IF cdb = None THEN during ELSE {cdb}
  /\ UNCHANGED <<cdb, installed, found>>

(* slip: the result of open() is not looked at                             *)
OpenFails_Ignored == FALSE
OpenFails == cdb = None

(* open(), and its assert().                                               *)
OpenAgain ==
  /\ cpc = "open"
  /\ IF OpenFails
     THEN cpc' = "abort" /\ cofi' = None
     ELSE cpc' = "seek" /\ cofi' = [cofi EXCEPT !.fd = cdb]
  /\ UNCHANGED <<cdb, installed, found, during>>

(* slip: the mtime is recorded behind the lookup instead of before it      *)
Seek_Records ==
  /\ cpc = "seek" /\ cpc' = "idle"
  /\ found' = cofi.fd
  /\ cofi' = IF cdb = None THEN cofi ELSE [cofi EXCEPT !.mtime = cdb]
  /\ UNCHANGED <<cdb, installed, during>>
Seek ==
  /\ cpc = "seek" /\ cpc' = "idle"
  /\ found' = cofi.fd
  /\ UNCHANGED <<cdb, installed, cofi, during>>

(* The process ends, by an assert() or otherwise, and is started again.    *)
CrashConst == cpc' = "main" /\ cofi' = None /\ found' = None /\ UNCHANGED <<cdb, installed, during>>

ConstNext == OpenFirst \/ Stat \/ OpenAgain \/ Seek
Operator == Withdraw \/ \E v \in Version : Replace(v)
Next == ConstNext \/ Operator \/ CrashConst

Spec == Init /\ [][Next]_constVars
-----------------------------------------------------------------------------
(* The types.                                                              *)
TypeOK ==
  /\ cdb \in Version \cup {None} /\ installed \subseteq Version
  /\ cofi \in [fd : Version, mtime : Version] \cup {None}
  /\ cpc \in {"main", "idle", "open", "seek", "abort"}
  /\ found \in Version \cup {None}
  /\ during \subseteq Version

(* A lookup returns what the file said at some moment between its call and *)
(* its return; if there was no file when it was called, since the call of  *)
(* the last one for which there was.                                       *)
LookupIsCurrent == [][(cpc = "seek" /\ cpc' = "idle") => found' \in during]_constVars

-----------------------------------------------------------------------------
(* The inductive invariant behind it.  The version open is not always the  *)
(* one whose mtime is recorded: it is the next one if the file is replaced *)
(* between stat() and open().  But then the one recorded is gone for good, *)
(* and the next lookup opens the file again.                               *)
InstalledVersions ==
  /\ cdb # None => cdb \in installed \cap during
  /\ cofi # None => {cofi.fd, cofi.mtime} \subseteq installed

OpenVersion ==
  /\ cpc \in {"open", "seek"} => cofi # None
  /\ (cpc \in {"idle", "seek"} /\ cofi # None) =>
       /\ cofi.fd # cofi.mtime => cdb # cofi.mtime
       /\ cofi.fd \in during

IInv == TypeOK /\ InstalledVersions /\ OpenVersion
=============================================================================
