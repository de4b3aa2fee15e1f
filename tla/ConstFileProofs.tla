-------------------------- MODULE ConstFileProofs --------------------------
(***************************************************************************)
(* What ConstFile says of a lookup, for any versions of the CDB.           *)
(***************************************************************************)
EXTENDS ConstFile, TLAPS

(* The program starts with the file there.                                 *)
LEMMA InitInv == ASSUME ConstFileConstants, Init PROVE IInv
  BY DEF ConstFileConstants, Init, IInv, TypeOK, InstalledVersions, OpenVersion

(* The operator: a version that is put in place was never there before.    *)
LEMMA OperatorInv == ASSUME ConstFileConstants, IInv, Operator PROVE IInv'
<1>1. CASE Withdraw
  BY <1>1 DEF ConstFileConstants, Withdraw, IInv, TypeOK, InstalledVersions, OpenVersion
<1>2. ASSUME NEW v \in Version, Replace(v) PROVE IInv'
  BY <1>2 DEF ConstFileConstants, Replace, IInv, TypeOK, InstalledVersions, OpenVersion
<1>. QED  BY <1>1, <1>2 DEF Operator

(* constfile_open().                                                       *)
LEMMA OpenFirstInv == ASSUME ConstFileConstants, IInv, OpenFirst PROVE IInv'
  BY DEF ConstFileConstants, OpenFirst, IInv, TypeOK, InstalledVersions, OpenVersion

(* stat(): if the mtime is the one recorded, the version open is the one   *)
(* there is.                                                               *)
LEMMA StatInv == ASSUME ConstFileConstants, IInv, Stat PROVE IInv'
<1>1. CASE cofi = None
  BY <1>1 DEF ConstFileConstants, Stat, IInv, TypeOK, InstalledVersions, OpenVersion
<1>2. CASE cofi # None /\ cdb = None
  BY <1>2 DEF ConstFileConstants, Stat, IInv, TypeOK, InstalledVersions, OpenVersion
<1>3. CASE cofi # None /\ cdb # None /\ Changed
  BY <1>3 DEF ConstFileConstants, Stat, IInv, TypeOK, InstalledVersions, OpenVersion
<1>4. CASE cofi # None /\ cdb # None /\ ~Changed
  BY <1>4 DEF ConstFileConstants, Stat, Changed, IInv, TypeOK, InstalledVersions, OpenVersion
<1>. QED  BY <1>1, <1>2, <1>3, <1>4

(* open(): whatever there is now.                                          *)
LEMMA OpenAgainInv == ASSUME ConstFileConstants, IInv, OpenAgain PROVE IInv'
  BY DEF ConstFileConstants, OpenAgain, OpenFails, IInv, TypeOK, InstalledVersions, OpenVersion

(* The read.                                                               *)
LEMMA SeekInv == ASSUME ConstFileConstants, IInv, Seek PROVE IInv'
  BY DEF ConstFileConstants, Seek, IInv, TypeOK, InstalledVersions, OpenVersion

(* A restart forgets what was open.                                        *)
LEMMA CrashInv == ASSUME ConstFileConstants, IInv, CrashConst PROVE IInv'
  BY DEF ConstFileConstants, CrashConst, IInv, TypeOK, InstalledVersions, OpenVersion

(* Every step keeps the invariant.                                         *)
LEMMA NextInv == ASSUME ConstFileConstants, IInv, [Next]_constVars PROVE IInv'
<1>1. CASE ConstNext
  BY <1>1, OpenFirstInv, StatInv, OpenAgainInv, SeekInv DEF ConstNext
<1>2. CASE Operator
  BY <1>2, OperatorInv
<1>3. CASE CrashConst
  BY <1>3, CrashInv
<1>4. CASE UNCHANGED constVars
  BY <1>4 DEF constVars, IInv, TypeOK, InstalledVersions, OpenVersion
<1>. QED  BY <1>1, <1>2, <1>3, <1>4 DEF Next

(* constfile.c: the file open and the mtime recorded belong together, or   *)
(* the next lookup finds out.                                              *)
THEOREM Invariant == ASSUME ConstFileConstants PROVE Spec => []IInv
<1>1. Init => IInv
  BY InitInv
<1>2. IInv /\ [Next]_constVars => IInv'
  BY NextInv
<1>. QED  BY <1>1, <1>2, PTL DEF Spec

(* constfile.c:64-77: a lookup returns what the CDB said at some moment    *)
(* between its call and its return, or, if there is none, what the last    *)
(* one could see.                                                          *)
THEOREM Lookup == ASSUME ConstFileConstants PROVE Spec => LookupIsCurrent
<1>1. ASSUME IInv, [Next]_constVars
      PROVE  [(cpc = "seek" /\ cpc' = "idle") => found' \in during]_constVars
  <2>. SUFFICES ASSUME cpc = "seek", cpc' = "idle" PROVE found' \in during
    OBVIOUS
  <2>1. Seek
    BY <1>1 DEF Next, ConstNext, Operator, Replace, Withdraw, OpenFirst, Stat, OpenAgain, CrashConst,
                constVars
  <2>. QED  BY <1>1, <2>1 DEF Seek, IInv, OpenVersion
<1>. QED  BY <1>1, Invariant, PTL DEF Spec, LookupIsCurrent
=============================================================================
