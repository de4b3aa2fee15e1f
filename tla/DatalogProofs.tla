--------------------------- MODULE DatalogProofs ---------------------------
(***************************************************************************)
(* What Datalog says of the files in a writable directory, for any         *)
(* trackers, any limit and any bounds.                                     *)
(***************************************************************************)
EXTENDS Datalog, FiniteSetTheorems, SequenceTheorems, TLAPS

-----------------------------------------------------------------------------
(* Sequences of records and newlines.                                      *)

(* write() at the end of a file appends.                                   *)
LEMMA PutAtEnd ==
  ASSUME NEW S, NEW s \in Seq(S), NEW x \in S
  PROVE  Put(s, Len(s), x) = Append(s, x)
<1> DEFINE p == Put(s, Len(s), x)
<1>1. p = [k \in 1..(Len(s) + 1) |-> IF k = Len(s) + 1 THEN x ELSE s[k]]
  BY LenProperties DEF Put
<1>2. p \in Seq(S) /\ Len(p) = Len(s) + 1
  BY <1>1, LenProperties, ElementOfSeq, IsASeq
<1>3. \A k \in 1..Len(p) : p[k] = Append(s, x)[k]
  BY <1>1, <1>2, AppendProperties, LenProperties
<1>. QED  BY <1>2, <1>3, SeqEqual, AppendProperties

(* What appending does to the records of a sequence and to their order.    *)
LEMMA AppendRecords ==
  ASSUME NEW s \in Seq(Nat), NEW x \in Nat
  PROVE  Records(Append(s, x)) = Records(s) \cup ({x} \ {NL})
<1>1. /\ Append(s, x) \in Seq(Nat) /\ Len(Append(s, x)) = Len(s) + 1
      /\ \A k \in 1..Len(s) : Append(s, x)[k] = s[k]
      /\ Append(s, x)[Len(s) + 1] = x
  BY AppendProperties
<1>2. DOMAIN s = 1..Len(s) /\ DOMAIN Append(s, x) = 1..(Len(s) + 1) /\ Len(s) \in Nat
  BY <1>1, LenProperties
<1>. QED  BY <1>1, <1>2 DEF Records

LEMMA AppendInOrder ==
  ASSUME NEW s \in Seq(Nat), InOrder(s), NEW x \in Nat,
         x = NL \/ \A r \in Records(s) : r < x
  PROVE  InOrder(Append(s, x))
<1>1. /\ Append(s, x) \in Seq(Nat) /\ Len(Append(s, x)) = Len(s) + 1
      /\ \A k \in 1..Len(s) : Append(s, x)[k] = s[k]
      /\ Append(s, x)[Len(s) + 1] = x
  BY AppendProperties
<1>2. DOMAIN s = 1..Len(s) /\ DOMAIN Append(s, x) = 1..(Len(s) + 1) /\ Len(s) \in Nat
  BY <1>1, LenProperties
<1>3. \A k \in 1..Len(s) : s[k] # NL => s[k] \in Records(s)
  BY <1>2 DEF Records
<1>. QED  BY <1>1, <1>2, <1>3 DEF InOrder

-----------------------------------------------------------------------------
(* The state.                                                              *)

(* All records are in files with names.                                    *)
LEMMA LoggedIsAll ==
  DatalogConstants /\ TypeOK /\ AllNamed /\ AllLogged => Logged = 1..rec
<1>. SUFFICES ASSUME DatalogConstants, TypeOK, AllNamed, AllLogged PROVE Logged = 1..rec
  OBVIOUS
<1>1. Named = File
  <2>1. File \subseteq Nat
    BY LenProperties DEF TypeOK, File
  <2>. QED  BY <2>1 DEF DatalogConstants, TypeOK, AllNamed, Named
<1>2. \A f \in File : Records(files[f]) \subseteq 1..rec
  <2>. SUFFICES ASSUME NEW f \in File PROVE Records(files[f]) \subseteq 1..rec
    OBVIOUS
  <2>1. files[f] \in Seq(0..rec) /\ rec \in Nat
    BY ElementOfSeq, LenProperties DEF TypeOK, File, rec
  <2>. QED  BY <2>1, ElementOfSeq, LenProperties DEF Records, NL
<1>. QED  BY <1>1, <1>2 DEF Logged, AllLogged

LEMMA LoggedIsAllNext ==
  (DatalogConstants /\ TypeOK /\ AllNamed /\ AllLogged => Logged = 1..rec)'
BY LoggedIsAll, PTL

(* A write goes to the end of the file that has the name.                  *)
LEMMA WriteAppends ==
  ASSUME DatalogConstants, TypeOK, AtEnd, dpc \notin {"open", "unlink", "reopen"},
         NEW x \in Nat, x <= rec + 1, Write(x)
  PROVE  /\ datalog \in File /\ File' = File
         /\ files' \in Seq(Seq(0..(rec + 1)))
         /\ x <= rec => files' \in Seq(Seq(0..rec))
         /\ files'[datalog] = Append(files[datalog], x)
         /\ \A f \in File \ {datalog} : files'[f] = files[f]
         /\ fd' \in [file : File', pos : Nat, append : BOOLEAN]
         /\ fd'.file = datalog
         /\ fd'.append = fd.append /\ fd'.pos = Len(files'[datalog])
<1>1. fd \in [file : File, pos : Nat, append : BOOLEAN] /\ fd.file = datalog /\ datalog \in File
  BY DEF TypeOK, AtEnd
<1>2. files \in Seq(Seq(0..rec)) /\ files[datalog] \in Seq(0..rec) /\ rec \in Nat
  BY <1>1, ElementOfSeq, LenProperties DEF TypeOK, File, rec
<1>3. Offset = Len(files[datalog])
  BY <1>1 DEF AtEnd, Offset
<1>4. files[datalog] \in Seq(0..(rec + 1)) /\ files \in Seq(Seq(0..(rec + 1)))
  <2>1. Seq(0..rec) \subseteq Seq(0..(rec + 1))
    BY <1>2, SeqMonotonic
  <2>. QED  BY <1>2, <2>1, SeqMonotonic
<1>5. files' = [files EXCEPT ![datalog] = Append(files[datalog], x)]
  <2>1. x \in 0..(rec + 1)
    BY <1>2
  <2>2. Put(files[datalog], Len(files[datalog]), x) = Append(files[datalog], x)
    BY <1>4, <2>1, PutAtEnd
  <2>. QED  BY <1>1, <1>3, <2>2 DEF Write
<1>6. /\ Append(files[datalog], x) \in Seq(0..(rec + 1))
      /\ x <= rec => Append(files[datalog], x) \in Seq(0..rec)
      /\ Len(Append(files[datalog], x)) = Len(files[datalog]) + 1
  BY <1>2, <1>4, AppendProperties
<1>7. /\ files' \in Seq(Seq(0..(rec + 1)))
      /\ x <= rec => files' \in Seq(Seq(0..rec))
      /\ DOMAIN files' = DOMAIN files
  BY <1>1, <1>2, <1>4, <1>5, <1>6, ExceptSeq, LenProperties DEF File
<1>8. fd' = [fd EXCEPT !.pos = Len(files[datalog]) + 1] /\ Len(files[datalog]) \in Nat
  BY <1>2, <1>3, LenProperties DEF Write
<1>9. /\ files'[datalog] = Append(files[datalog], x)
      /\ \A f \in File \ {datalog} : files'[f] = files[f]
      /\ File' = File
  BY <1>1, <1>5, <1>7 DEF File
<1>10. /\ fd' \in [file : File, pos : Nat, append : BOOLEAN]
       /\ fd'.file = datalog
       /\ fd'.append = fd.append /\ fd'.pos = Len(files[datalog]) + 1
  BY <1>1, <1>8
<1>. QED  BY <1>1, <1>6, <1>7, <1>9, <1>10

(* The records of the data log that are not in the file of their tracker.  *)
LEMMA MissingFinite ==
  ASSUME rec \in Nat, Logged = 1..rec
  PROVE  IsFiniteSet(Missing) /\ Cardinality(Missing) \in Nat
<1>1. IsFiniteSet(1..rec)
  BY FS_Interval
<1>2. Missing \subseteq 1..rec
  BY DEF Missing
<1>. QED  BY <1>1, <1>2, FS_Subset, FS_CardinalityType

LEMMA FewerMissing ==
  ASSUME DatalogConstants, TypeOK, TrackerFilesAgree, rec \in Nat, Logged = 1..rec,
         Missing' \subseteq Missing, crashes' = crashes
  PROVE  Cardinality(Missing') <= crashes'
<1>1. IsFiniteSet(Missing) /\ Cardinality(Missing) \in Nat
  BY MissingFinite
<1>2. IsFiniteSet(Missing') /\ Cardinality(Missing') <= Cardinality(Missing)
  BY <1>1, FS_Subset
<1>3. Cardinality(Missing') \in Nat
  BY <1>2, FS_CardinalityType
<1>. QED  BY <1>1, <1>2, <1>3 DEF TypeOK, TrackerFilesAgree, DatalogConstants

(* Everything but the count carries over as long as the files of the       *)
(* trackers stay what they are.                                            *)
LEMMA AgreeStays ==
  ASSUME DatalogConstants, IInv, TypeOK', AllNamed', AllLogged',
         UNCHANGED <<tracker, crashes>>,
         rec' >= rec, \A r \in 1..rec : sender'[r] = sender[r],
         Missing' \subseteq Missing
  PROVE  TrackerFilesAgree'
<1>1. Logged = 1..rec /\ Logged' = 1..rec' /\ rec \in Nat /\ rec' \in Nat
  <2>1. Logged = 1..rec
    BY LoggedIsAll DEF IInv
  <2>2. Logged' = 1..rec'
    BY LoggedIsAllNext
  <2>. QED  BY <2>1, <2>2, LenProperties DEF IInv, TypeOK, rec
<1>2. ASSUME NEW i \in Imei PROVE OwnRecords(i)' /\ InOrder(tracker[i])'
  BY <1>1 DEF IInv, TrackerFilesAgree, OwnRecords, InOrder
<1>3. Cardinality(Missing') <= crashes'
  BY <1>1, FewerMissing DEF IInv
<1>. QED  BY <1>2, <1>3 DEF TrackerFilesAgree

-----------------------------------------------------------------------------
(* One lemma per action.                                                   *)

LEMMA InitInv == ASSUME DatalogConstants, Dirs = {"writable"}, Init PROVE IInv
<1>1. sender = <<>> /\ files = <<>> /\ rec = 0 /\ File = {} /\ datalog = None /\ dpc = "open"
  BY DEF Init, rec, File
<1>2. TypeOK
  BY <1>1 DEF Init, TypeOK, DatalogConstants
<1>3. AtEnd /\ AllNamed /\ AllLogged /\ Newest
  BY <1>1 DEF Init, AtEnd, AllNamed, AllLogged, Newest
<1>4. InTrackers = {} /\ Pending = {}
  BY <1>1 DEF Init, InTrackers, Records, Pending
<1>5. Logged = {}
  BY <1>1, <1>2, <1>3, LoggedIsAll
<1>6. Missing = {} /\ Cardinality(Missing) = 0
  BY <1>5, FS_EmptySet DEF Missing
<1>7. \A i \in Imei : OwnRecords(i) /\ InOrder(tracker[i])
  BY DEF Init, OwnRecords, InOrder, Records
<1>. QED  BY <1>1, <1>2, <1>3, <1>4, <1>6, <1>7 DEF IInv, TrackerFilesAgree, Init

(* The data log is opened, and created if it is not there: with O_APPEND,  *)
(* or while there is none.                                                 *)
LEMMA OpenInv ==
  ASSUME DatalogConstants, TypeOK, AllNamed, AllLogged,
         NEW append \in BOOLEAN, append \/ datalog = None, Open(append),
         UNCHANGED <<aside, sender>>, dpc' \notin {"unlink", "reopen"}
  PROVE  /\ files' \in Seq(Seq(0..rec))
         /\ datalog' \in File'
         /\ fd' \in [file : File', pos : Nat, append : BOOLEAN]
         /\ fd'.file = datalog' /\ (fd'.append \/ fd'.pos = Len(files'[datalog']))
         /\ aside \subseteq File'
         /\ AllNamed' /\ AllLogged'
<1>1. files \in Seq(Seq(0..rec)) /\ aside \subseteq File /\ File = 1..Len(files) /\ rec' = rec
  BY LenProperties DEF TypeOK, File, rec
<1>2. CASE datalog # None
  BY <1>1, <1>2 DEF Open, TypeOK, AllNamed, AllLogged, File, Records
<1>3. CASE datalog = None
  <2>1. <<>> \in Seq(0..rec) /\ Len(<<>>) = 0
    BY EmptySeq
  <2>2. /\ files' = Append(files, <<>>) /\ datalog' = Len(files')
        /\ fd' = [file |-> datalog', pos |-> 0, append |-> append]
    BY <1>3 DEF Open
  <2>3. /\ files' \in Seq(Seq(0..rec)) /\ Len(files') = Len(files) + 1
        /\ \A f \in 1..Len(files) : files'[f] = files[f]
        /\ files'[Len(files) + 1] = <<>>
    BY <1>1, <2>1, <2>2, AppendProperties
  <2>4. File' = 1..(Len(files) + 1) /\ Len(files) \in Nat
    BY <1>1, <2>3, LenProperties DEF File
  <2>5. AllNamed'
    BY <1>1, <1>3, <2>2, <2>3, <2>4 DEF AllNamed, DatalogConstants
  <2>6. \A f \in File : f \in File' /\ files'[f] = files[f]
    BY <1>1, <2>3, <2>4
  <2>7. AllLogged'
    BY <1>1, <2>6 DEF AllLogged, Records
  <2>. QED  BY <1>1, <2>1, <2>2, <2>3, <2>4, <2>5, <2>7
<1>. QED  BY <1>2, <1>3

LEMMA StartInv == ASSUME DatalogConstants, IInv, Start PROVE IInv'
<1>1. /\ TypeOK /\ AllNamed /\ AllLogged /\ dpc = "open" /\ dpc' = "poll" /\ Open(TRUE)
      /\ UNCHANGED <<dir, aside, tracker, sender, processed, crashes>>
  BY DEF IInv, Start
<1>2. /\ files' \in Seq(Seq(0..rec)) /\ datalog' \in File' /\ aside \subseteq File'
      /\ fd' \in [file : File', pos : Nat, append : BOOLEAN]
      /\ fd'.file = datalog' /\ (fd'.append \/ fd'.pos = Len(files'[datalog']))
      /\ AllNamed' /\ AllLogged'
  BY <1>1, OpenInv
<1>3. rec' = rec /\ Pending = {} /\ Pending' = {} /\ InTrackers' = InTrackers
  BY <1>1 DEF rec, Pending, InTrackers, Records
<1>4. TypeOK'
  BY <1>1, <1>2, <1>3 DEF TypeOK
<1>5. AtEnd' /\ Newest'
  <2>1. fd' \in [file : Nat, pos : Nat, append : BOOLEAN]
    BY <1>2, <1>4, LenProperties DEF TypeOK, File
  <2>. QED  BY <1>1, <1>2, <1>3, <2>1 DEF AtEnd, Newest, DatalogConstants
<1>6. Logged' = Logged
  BY <1>1, <1>2, <1>3, <1>4, LoggedIsAll, LoggedIsAllNext
<1>7. TrackerFilesAgree'
  <2>1. Missing' \subseteq Missing
    BY <1>1, <1>3, <1>6 DEF Missing
  <2>2. rec \in Nat
    BY LenProperties DEF IInv, TypeOK, rec
  <2>. QED  BY <1>1, <1>2, <1>3, <1>4, <2>1, <2>2, AgreeStays
<1>. QED  BY <1>2, <1>3, <1>4, <1>5, <1>7 DEF IInv

LEMMA ReopenInv == ASSUME DatalogConstants, IInv, Reopen PROVE IInv'
<1>1. /\ TypeOK /\ AllNamed /\ AllLogged /\ Newest
      /\ dpc = "reopen" /\ dpc' = "process" /\ datalog = None /\ Open(FALSE)
      /\ UNCHANGED <<dir, aside, tracker, sender, processed, crashes>>
  BY DEF IInv, Reopen, AllNamed
<1>2. /\ files' \in Seq(Seq(0..rec)) /\ datalog' \in File' /\ aside \subseteq File'
      /\ fd' \in [file : File', pos : Nat, append : BOOLEAN]
      /\ fd'.file = datalog' /\ (fd'.append \/ fd'.pos = Len(files'[datalog']))
      /\ AllNamed' /\ AllLogged'
  BY <1>1, OpenInv
<1>3. rec' = rec /\ Pending = {rec} /\ Pending' = {rec} /\ InTrackers' = InTrackers
  BY <1>1 DEF rec, Pending, InTrackers, Records
<1>4. TypeOK'
  BY <1>1, <1>2, <1>3 DEF TypeOK
<1>5. AtEnd' /\ Newest'
  <2>1. fd' \in [file : Nat, pos : Nat, append : BOOLEAN]
    BY <1>2, <1>4, LenProperties DEF TypeOK, File
  <2>. QED  BY <1>1, <1>2, <1>3, <2>1 DEF AtEnd, Newest, DatalogConstants
<1>6. Logged' = Logged
  BY <1>1, <1>2, <1>3, <1>4, LoggedIsAll, LoggedIsAllNext
<1>7. TrackerFilesAgree'
  <2>1. Missing' \subseteq Missing
    BY <1>1, <1>3, <1>6 DEF Missing
  <2>2. rec \in Nat
    BY LenProperties DEF IInv, TypeOK, rec
  <2>. QED  BY <1>1, <1>2, <1>3, <1>4, <2>1, <2>2, AgreeStays
<1>8. Pending \cap InTrackers = {}
  BY DEF IInv
<1>. QED  BY <1>2, <1>3, <1>4, <1>5, <1>7, <1>8 DEF IInv

LEMMA WriteRecordInv ==
  ASSUME DatalogConstants, IInv, NEW i \in Imei \cup {None}, WriteRecord(i)
  PROVE  IInv'
<1>1. /\ TypeOK /\ AtEnd /\ AllNamed /\ AllLogged /\ dpc = "poll" /\ dpc' = "newline"
      /\ sender' = Append(sender, i) /\ Write(rec + 1)
      /\ UNCHANGED <<dir, datalog, aside, tracker, processed, crashes>>
  BY DEF IInv, WriteRecord
<1>2. /\ sender \in Seq(Imei \cup {None}) /\ rec \in Nat
      /\ sender' \in Seq(Imei \cup {None}) /\ rec' = rec + 1
      /\ \A r \in 1..rec : sender'[r] = sender[r]
  BY <1>1, AppendProperties, LenProperties DEF TypeOK, rec
<1>3. /\ datalog \in File /\ File' = File
      /\ files' \in Seq(Seq(0..(rec + 1)))
      /\ files'[datalog] = Append(files[datalog], rec + 1)
      /\ \A f \in File \ {datalog} : files'[f] = files[f]
      /\ fd' \in [file : File', pos : Nat, append : BOOLEAN]
      /\ fd'.file = datalog
      /\ fd'.append = fd.append /\ fd'.pos = Len(files'[datalog])
  BY <1>1, <1>2, WriteAppends
<1>4. Pending = {} /\ Pending' = {rec + 1} /\ InTrackers' = InTrackers
  BY <1>1, <1>2 DEF Pending, InTrackers, Records
<1>5. TypeOK'
  <2>1. tracker' \in [Imei -> Seq(0..rec')]
    <3>1. Seq(0..rec) \subseteq Seq(0..rec')
      BY <1>2, SeqMonotonic
    <3>. QED  BY <1>1, <3>1 DEF TypeOK
  <2>2. processed' \subseteq 1..rec' /\ crashes' \in 0..MaxCrashes
    BY <1>1, <1>2 DEF TypeOK
  <2>3. files' \in Seq(Seq(0..rec')) /\ dir' \in Dirs /\ aside' \subseteq File'
    BY <1>1, <1>2, <1>3 DEF TypeOK
  <2>. QED  BY <1>1, <1>2, <1>3, <2>1, <2>2, <2>3 DEF TypeOK
<1>6. AtEnd' /\ Newest'
  <2>1. fd' \in [file : Nat, pos : Nat, append : BOOLEAN]
    BY <1>3, <1>5, LenProperties DEF TypeOK, File
  <2>. QED  BY <1>1, <1>2, <1>3, <2>1 DEF AtEnd, Newest, DatalogConstants
<1>7. AllNamed'
  BY <1>1, <1>3 DEF AllNamed
<1>8. AllLogged'
  <2>1. Records(files'[datalog]) = Records(files[datalog]) \cup {rec + 1}
    <3>1. files[datalog] \in Seq(Nat)
      <4>1. files[datalog] \in Seq(0..rec)
        BY <1>1, <1>3, ElementOfSeq, LenProperties DEF TypeOK, File
      <4>. QED  BY <4>1, <1>2, SeqMonotonic
    <3>2. rec + 1 \in Nat /\ {rec + 1} \ {NL} = {rec + 1}
      BY <1>2 DEF NL
    <3>. QED  BY <1>3, <3>1, <3>2, AppendRecords
  <2>2. \A f \in File : Records(files[f]) \subseteq Records(files'[f])
    BY <1>3, <2>1
  <2>3. \A r \in 1..rec' : r \in 1..rec \/ r = rec + 1
    BY <1>2
  <2>4. \A r \in 1..rec : \E f \in File : r \in Records(files[f])
    BY <1>1 DEF AllLogged
  <2>. QED  BY <1>3, <2>1, <2>2, <2>3, <2>4 DEF AllLogged
<1>9. Logged = 1..rec /\ Logged' = 1..(rec + 1)
  BY <1>1, <1>2, <1>5, <1>7, <1>8, LoggedIsAll, LoggedIsAllNext
<1>10. Pending' \cap InTrackers' = {}
  <2>1. InTrackers \subseteq 1..rec
    BY <1>9 DEF IInv, TrackerFilesAgree, OwnRecords, InTrackers
  <2>. QED  BY <1>2, <1>4, <2>1
<1>11. TrackerFilesAgree'
  <2>1. Missing' \subseteq Missing
    BY <1>2, <1>4, <1>9 DEF Missing
  <2>2. rec' >= rec
    BY <1>2
  <2>3. UNCHANGED <<tracker, crashes>>
    BY <1>1
  <2>. QED  BY <1>2, <1>5, <1>7, <1>8, <2>1, <2>2, <2>3, AgreeStays
<1>. QED  BY <1>5, <1>6, <1>7, <1>8, <1>10, <1>11 DEF IInv

LEMMA WriteNewlineInv == ASSUME DatalogConstants, IInv, WriteNewline PROVE IInv'
<1>1. /\ TypeOK /\ AtEnd /\ AllNamed /\ AllLogged /\ Newest
      /\ dpc = "newline" /\ dpc' \in {"link", "process"} /\ Write(NL)
      /\ UNCHANGED <<dir, datalog, aside, tracker, sender, processed, crashes>>
  BY DEF IInv, WriteNewline
<1>2. rec \in Nat /\ rec' = rec
  BY <1>1, LenProperties DEF TypeOK, rec
<1>3. /\ datalog \in File /\ File' = File
      /\ files' \in Seq(Seq(0..rec))
      /\ files'[datalog] = Append(files[datalog], NL)
      /\ \A f \in File \ {datalog} : files'[f] = files[f]
      /\ fd' \in [file : File', pos : Nat, append : BOOLEAN]
      /\ fd'.file = datalog
      /\ fd'.append = fd.append /\ fd'.pos = Len(files'[datalog])
  <2>1. NL \in Nat /\ NL <= rec /\ NL <= rec + 1
    BY <1>2 DEF NL
  <2>. QED  BY <1>1, <2>1, WriteAppends
<1>4. Pending = {rec} /\ Pending' = {rec} /\ InTrackers' = InTrackers
  BY <1>1, <1>2 DEF Pending, InTrackers, Records
<1>5. TypeOK'
  BY <1>1, <1>2, <1>3 DEF TypeOK
<1>6. AtEnd' /\ Newest'
  <2>1. fd' \in [file : Nat, pos : Nat, append : BOOLEAN]
    BY <1>3, <1>5, LenProperties DEF TypeOK, File
  <2>. QED  BY <1>1, <1>2, <1>3, <2>1 DEF AtEnd, Newest, DatalogConstants
<1>7. AllNamed'
  BY <1>1, <1>3 DEF AllNamed
<1>8. AllLogged'
  <2>1. Records(files'[datalog]) = Records(files[datalog])
    <3>1. files[datalog] \in Seq(Nat)
      <4>1. files[datalog] \in Seq(0..rec)
        BY <1>1, <1>3, ElementOfSeq, LenProperties DEF TypeOK, File
      <4>. QED  BY <4>1, <1>2, SeqMonotonic
    <3>2. NL \in Nat
      BY DEF NL
    <3>3. Records(files'[datalog]) = Records(files[datalog]) \cup ({NL} \ {NL})
      BY <1>3, <3>1, <3>2, AppendRecords
    <3>. QED  BY <3>3
  <2>2. \A f \in File : Records(files'[f]) = Records(files[f])
    BY <1>3, <2>1
  <2>. QED  BY <1>1, <1>2, <1>3, <2>2 DEF AllLogged
<1>9. Logged' = Logged
  BY <1>1, <1>2, <1>5, <1>7, <1>8, LoggedIsAll, LoggedIsAllNext
<1>10. TrackerFilesAgree'
  <2>1. Missing' \subseteq Missing
    BY <1>1, <1>4, <1>9 DEF Missing
  <2>2. rec' >= rec /\ \A r \in 1..rec : sender'[r] = sender[r]
    BY <1>1, <1>2
  <2>3. UNCHANGED <<tracker, crashes>>
    BY <1>1
  <2>. QED  BY <1>5, <1>7, <1>8, <2>1, <2>2, <2>3, AgreeStays
<1>11. Pending \cap InTrackers = {}
  BY DEF IInv
<1>. QED  BY <1>4, <1>5, <1>6, <1>7, <1>8, <1>10, <1>11 DEF IInv

(* close(), link() and unlink(): the file has two names before it loses    *)
(* the first.                                                              *)
LEMMA SetAsideInv ==
  ASSUME DatalogConstants, Dirs = {"writable"}, IInv, LinkAside \/ Unlink
  PROVE  IInv'
<1>1. /\ TypeOK /\ AtEnd /\ AllNamed /\ AllLogged /\ Newest /\ dir = "writable"
      /\ UNCHANGED <<dir, files, tracker, sender, processed, crashes>>
  BY DEF IInv, TypeOK, LinkAside, Unlink
<1>2. rec \in Nat /\ rec' = rec /\ File' = File
  BY <1>1, LenProperties DEF TypeOK, rec, File
<1>3. Pending = {rec} /\ Pending' = {rec} /\ InTrackers' = InTrackers
  BY <1>1, <1>2 DEF Pending, InTrackers, Records, LinkAside, Unlink
<1>4. TypeOK' /\ AtEnd' /\ Newest' /\ AllNamed'
  <2>1. CASE LinkAside
    <3>1. datalog \in File
      BY <1>1, <2>1 DEF AtEnd, TypeOK, LinkAside
    <3>. QED  BY <1>1, <1>2, <2>1, <3>1
              DEF LinkAside, NamedAside, TypeOK, AtEnd, Newest, AllNamed
  <2>2. CASE Unlink
    BY <1>1, <1>2, <2>2 DEF Unlink, TypeOK, AtEnd, Newest, AllNamed
  <2>. QED  BY <2>1, <2>2
<1>5. AllLogged'
  BY <1>1, <1>2 DEF AllLogged, Records
<1>6. Logged' = Logged
  BY <1>1, <1>2, <1>4, <1>5, LoggedIsAll, LoggedIsAllNext
<1>7. TrackerFilesAgree'
  <2>1. Missing' \subseteq Missing
    BY <1>1, <1>3, <1>6 DEF Missing
  <2>2. rec' >= rec /\ \A r \in 1..rec : sender'[r] = sender[r]
    BY <1>1, <1>2
  <2>. QED  BY <1>1, <1>4, <1>5, <2>1, <2>2, AgreeStays
<1>8. Pending \cap InTrackers = {}
  BY DEF IInv
<1>. QED  BY <1>3, <1>4, <1>5, <1>7, <1>8 DEF IInv

LEMMA ProcessInv == ASSUME DatalogConstants, IInv, Process PROVE IInv'
<1>1. /\ TypeOK /\ AtEnd /\ AllNamed /\ AllLogged /\ Newest
      /\ dpc = "process" /\ processed' = processed \cup {rec}
      /\ dpc' = IF sender[rec] = None THEN "poll" ELSE "tracker"
      /\ UNCHANGED <<dir, datalog, aside, files, tracker, fd, sender, crashes>>
  BY DEF IInv, Process, diskVars
<1>2. rec \in 1..rec /\ rec' = rec /\ File' = File
  <2>1. rec \in Nat /\ rec # 0
    BY <1>1, LenProperties DEF TypeOK, rec, Newest
  <2>. QED  BY <1>1, <2>1 DEF rec, File
<1>3. Pending = {rec} /\ InTrackers' = InTrackers /\ Pending' \subseteq {rec}
      /\ (sender[rec] = None \/ Pending' = {rec})
  BY <1>1, <1>2 DEF Pending, InTrackers, Records
<1>4. TypeOK' /\ AtEnd' /\ Newest' /\ AllNamed' /\ AllLogged'
  <2>1. dpc' \in {"poll", "tracker"} /\ (dpc' = "tracker" => sender[rec] # None)
    BY <1>1
  <2>2. TypeOK'
    BY <1>1, <1>2, <2>1 DEF TypeOK
  <2>3. AtEnd' /\ AllNamed'
    BY <1>1, <1>2, <2>1 DEF AtEnd, AllNamed
  <2>4. Newest'
    BY <1>1, <1>2, <2>1 DEF Newest
  <2>5. AllLogged'
    BY <1>1, <1>2 DEF AllLogged, Records
  <2>. QED  BY <2>2, <2>3, <2>4, <2>5
<1>5. Logged' = Logged
  BY <1>1, <1>2, <1>4, LoggedIsAll, LoggedIsAllNext
<1>6. TrackerFilesAgree'
  <2>1. Missing' \subseteq Missing
    BY <1>1, <1>3, <1>5 DEF Missing
  <2>2. rec' >= rec /\ \A r \in 1..rec : sender'[r] = sender[r]
    BY <1>1, <1>2
  <2>. QED  BY <1>1, <1>4, <2>1, <2>2, AgreeStays
<1>7. Pending \cap InTrackers = {}
  BY DEF IInv
<1>. QED  BY <1>3, <1>4, <1>6, <1>7 DEF IInv

(* The record goes to the file of the tracker that sent it, behind older   *)
(* ones only.                                                              *)
LEMMA TrackerRecordInv == ASSUME DatalogConstants, IInv, TrackerRecord PROVE IInv'
<1> DEFINE o == sender[rec]
<1>1. /\ TypeOK /\ AtEnd /\ AllNamed /\ AllLogged /\ Newest
      /\ dpc = "tracker" /\ dpc' = "tracker_newline"
      /\ tracker' = [tracker EXCEPT ![o] = Append(tracker[o], rec)]
      /\ UNCHANGED <<dir, datalog, aside, files, fd, sender, processed, crashes>>
  BY DEF IInv, TrackerRecord, Owner
<1>2. rec \in 1..rec /\ rec \in Nat /\ rec' = rec /\ File' = File /\ o \in Imei
  <2>1. rec \in Nat /\ rec # 0
    BY <1>1, LenProperties DEF TypeOK, rec, Newest
  <2>2. o \in Imei \cup {None} /\ o # None
    BY <1>1, <2>1, ElementOfSeq DEF TypeOK, rec, Newest
  <2>. QED  BY <1>1, <2>1, <2>2 DEF rec, File
<1>3. tracker[o] \in Seq(0..rec) /\ tracker[o] \in Seq(Nat)
  <2>1. tracker[o] \in Seq(0..rec)
    BY <1>1, <1>2 DEF TypeOK
  <2>. QED  BY <1>2, <2>1, SeqMonotonic
<1>4. TypeOK' /\ AtEnd' /\ Newest' /\ AllNamed' /\ AllLogged'
  <2>1. Append(tracker[o], rec) \in Seq(0..rec)
    BY <1>2, <1>3, AppendProperties
  <2>2. tracker' \in [Imei -> Seq(0..rec')]
    BY <1>1, <1>2, <2>1 DEF TypeOK
  <2>3. TypeOK'
    BY <1>1, <1>2, <2>2 DEF TypeOK
  <2>. QED  BY <1>1, <1>2, <2>3 DEF AtEnd, Newest, AllNamed, AllLogged, Records
<1>5. Logged = 1..rec /\ Logged' = 1..rec
  BY <1>1, <1>2, <1>4, LoggedIsAll, LoggedIsAllNext
<1>6. /\ \A i \in Imei \ {o} : tracker'[i] = tracker[i]
      /\ tracker'[o] = Append(tracker[o], rec)
      /\ Records(tracker'[o]) = Records(tracker[o]) \cup {rec}
  <2>1. tracker'[o] = Append(tracker[o], rec) /\ \A i \in Imei \ {o} : tracker'[i] = tracker[i]
    BY <1>1, <1>2 DEF TypeOK
  <2>2. {rec} \ {NL} = {rec}
    BY <1>2 DEF NL
  <2>. QED  BY <1>2, <1>3, <2>1, <2>2, AppendRecords
<1>7. InTrackers' = InTrackers \cup {rec} /\ Pending = {rec} /\ Pending' = {}
  <2>1. \A i \in Imei \ {o} : Records(tracker'[i]) = Records(tracker[i])
    BY <1>6
  <2>. QED  BY <1>1, <1>2, <1>6, <2>1 DEF InTrackers, Pending
<1>8. ASSUME NEW i \in Imei PROVE OwnRecords(i)' /\ InOrder(tracker[i])'
  <2>1. OwnRecords(i) /\ InOrder(tracker[i]) /\ OwnRecords(o) /\ InOrder(tracker[o])
    BY <1>2, <1>8 DEF IInv, TrackerFilesAgree
  <2>2. OwnRecords(i)'
    BY <1>1, <1>2, <1>5, <1>6, <2>1 DEF OwnRecords
  <2>3. InOrder(tracker'[o])
    <3>1. \A r \in Records(tracker[o]) : r \in 1..rec /\ r # rec
      BY <1>2, <1>5, <1>7, <2>1 DEF IInv, OwnRecords, InTrackers
    <3>2. \A r \in Records(tracker[o]) : r < rec
      BY <1>2, <3>1
    <3>. QED  BY <1>2, <1>3, <1>6, <2>1, <3>2, AppendInOrder
  <2>4. InOrder(tracker[i])'
    BY <1>6, <2>1, <2>3 DEF InOrder
  <2>. QED  BY <2>2, <2>4
<1>9. Missing' \subseteq Missing
  BY <1>1, <1>5, <1>7 DEF Missing
<1>10. Cardinality(Missing') <= crashes'
  BY <1>1, <1>2, <1>5, <1>9, FewerMissing DEF IInv
<1>. QED  BY <1>4, <1>7, <1>8, <1>10 DEF IInv, TrackerFilesAgree

LEMMA TrackerNewlineInv == ASSUME DatalogConstants, IInv, TrackerNewline PROVE IInv'
<1> DEFINE o == sender[rec]
<1>1. /\ TypeOK /\ AtEnd /\ AllNamed /\ AllLogged /\ Newest
      /\ dpc = "tracker_newline" /\ dpc' = "poll"
      /\ tracker' = [tracker EXCEPT ![o] = Append(tracker[o], NL)]
      /\ UNCHANGED <<dir, datalog, aside, files, fd, sender, processed, crashes>>
  BY DEF IInv, TrackerNewline, TrackerEnd
<1>2. rec \in Nat /\ rec' = rec /\ File' = File /\ o \in Imei
  <2>1. rec \in Nat /\ rec # 0
    BY <1>1, LenProperties DEF TypeOK, rec, Newest
  <2>2. o \in Imei \cup {None} /\ o # None
    BY <1>1, <2>1, ElementOfSeq DEF TypeOK, rec, Newest
  <2>. QED  BY <1>1, <2>1, <2>2 DEF rec, File
<1>3. tracker[o] \in Seq(0..rec) /\ tracker[o] \in Seq(Nat)
  <2>1. tracker[o] \in Seq(0..rec)
    BY <1>1, <1>2 DEF TypeOK
  <2>. QED  BY <1>2, <2>1, SeqMonotonic
<1>4. TypeOK' /\ AtEnd' /\ Newest' /\ AllNamed' /\ AllLogged'
  <2>1. NL \in 0..rec
    BY <1>2 DEF NL
  <2>2. Append(tracker[o], NL) \in Seq(0..rec)
    BY <1>3, <2>1, AppendProperties
  <2>3. tracker' \in [Imei -> Seq(0..rec')]
    BY <1>1, <1>2, <2>2 DEF TypeOK
  <2>4. TypeOK'
    BY <1>1, <1>2, <2>3 DEF TypeOK
  <2>. QED  BY <1>1, <1>2, <2>4 DEF AtEnd, Newest, AllNamed, AllLogged, Records
<1>5. Logged = 1..rec /\ Logged' = 1..rec
  BY <1>1, <1>2, <1>4, LoggedIsAll, LoggedIsAllNext
<1>6. /\ \A i \in Imei : Records(tracker'[i]) = Records(tracker[i])
      /\ \A i \in Imei \ {o} : tracker'[i] = tracker[i]
      /\ tracker'[o] = Append(tracker[o], NL)
  <2>1. tracker'[o] = Append(tracker[o], NL) /\ \A i \in Imei \ {o} : tracker'[i] = tracker[i]
    BY <1>1, <1>2 DEF TypeOK
  <2>2. NL \in Nat
    BY DEF NL
  <2>3. Records(tracker'[o]) = Records(tracker[o]) \cup ({NL} \ {NL})
    BY <1>3, <2>1, <2>2, AppendRecords
  <2>. QED  BY <2>1, <2>3
<1>7. InTrackers' = InTrackers /\ Pending = {} /\ Pending' = {}
  BY <1>1, <1>6 DEF InTrackers, Pending
<1>8. ASSUME NEW i \in Imei PROVE OwnRecords(i)' /\ InOrder(tracker[i])'
  <2>1. OwnRecords(i) /\ InOrder(tracker[i]) /\ InOrder(tracker[o])
    BY <1>2, <1>8 DEF IInv, TrackerFilesAgree
  <2>2. OwnRecords(i)'
    BY <1>1, <1>5, <1>6, <2>1 DEF OwnRecords
  <2>3. InOrder(tracker'[o])
    BY <1>3, <1>6, <2>1, AppendInOrder DEF NL
  <2>4. InOrder(tracker[i])'
    BY <1>6, <2>1, <2>3 DEF InOrder
  <2>. QED  BY <2>2, <2>4
<1>9. Missing' \subseteq Missing
  BY <1>1, <1>5, <1>7 DEF Missing
<1>10. Cardinality(Missing') <= crashes'
  BY <1>1, <1>2, <1>5, <1>9, FewerMissing DEF IInv
<1>. QED  BY <1>4, <1>7, <1>8, <1>10 DEF IInv, TrackerFilesAgree

(* A crash may cost the record that was on its way one file.               *)
LEMMA CrashInv == ASSUME DatalogConstants, IInv, Crash PROVE IInv'
<1>1. /\ TypeOK /\ AtEnd /\ AllNamed /\ AllLogged /\ Newest
      /\ dpc' = "open" /\ fd' = None /\ crashes < MaxCrashes /\ crashes' = crashes + 1
      /\ UNCHANGED <<dir, datalog, aside, files, tracker, sender, processed>>
  BY DEF IInv, Crash, CrashData, diskVars
<1>2. rec \in Nat /\ rec' = rec /\ File' = File /\ crashes \in Nat
  BY <1>1, LenProperties DEF TypeOK, rec, File
<1>3. TypeOK' /\ AtEnd' /\ Newest' /\ AllNamed' /\ AllLogged'
  <2>1. crashes' \in 0..MaxCrashes
    BY <1>1, <1>2 DEF TypeOK, DatalogConstants
  <2>2. TypeOK'
    BY <1>1, <1>2, <2>1 DEF TypeOK
  <2>. QED  BY <1>1, <1>2, <2>2 DEF AtEnd, Newest, AllNamed, AllLogged, Records
<1>4. Logged = 1..rec /\ Logged' = 1..rec
  BY <1>1, <1>2, <1>3, LoggedIsAll, LoggedIsAllNext
<1>5. InTrackers' = InTrackers /\ Pending' = {} /\ Pending \subseteq {rec}
  BY <1>1 DEF InTrackers, Records, Pending
<1>6. ASSUME NEW i \in Imei PROVE OwnRecords(i)' /\ InOrder(tracker[i])'
  BY <1>1, <1>4 DEF IInv, TrackerFilesAgree, OwnRecords, InOrder, Records
<1>7. Missing' \subseteq Missing \cup {rec}
  BY <1>1, <1>4, <1>5 DEF Missing
<1>8. Cardinality(Missing') <= crashes'
  <2>1. IsFiniteSet(Missing) /\ Cardinality(Missing) \in Nat /\ Cardinality(Missing) <= crashes
    BY <1>2, <1>4, MissingFinite DEF IInv, TrackerFilesAgree
  <2>2. IsFiniteSet(Missing \cup {rec})
        /\ Cardinality(Missing \cup {rec}) \in {Cardinality(Missing), Cardinality(Missing) + 1}
    BY <2>1, FS_AddElement
  <2>3. Cardinality(Missing') <= Cardinality(Missing \cup {rec}) /\ IsFiniteSet(Missing')
    BY <1>7, <2>2, FS_Subset
  <2>4. Cardinality(Missing') \in Nat
    BY <2>3, FS_CardinalityType
  <2>. QED  BY <1>1, <1>2, <2>1, <2>2, <2>3, <2>4
<1>. QED  BY <1>3, <1>5, <1>6, <1>8 DEF IInv, TrackerFilesAgree

-----------------------------------------------------------------------------
(* The specification.                                                      *)

LEMMA NextInv ==
  ASSUME DatalogConstants, Dirs = {"writable"}, IInv, [Next]_dataVars PROVE IInv'
<1>1. CASE DataNext
  BY <1>1, StartInv, WriteRecordInv, WriteNewlineInv, SetAsideInv, ReopenInv, ProcessInv,
     TrackerRecordInv, TrackerNewlineInv DEF DataNext
<1>2. CASE Crash
  BY <1>2, CrashInv
<1>3. CASE UNCHANGED dataVars
  <2>1. UNCHANGED <<dir, datalog, aside, files, tracker, fd, dpc, sender, processed, crashes>>
    BY <1>3 DEF dataVars, diskVars
  <2>2. rec' = rec /\ File' = File /\ Pending' = Pending /\ InTrackers' = InTrackers
    BY <2>1 DEF rec, File, Pending, InTrackers, Records
  <2>3. TypeOK' /\ AtEnd' /\ AllNamed' /\ AllLogged' /\ Newest'
    BY <2>1, <2>2 DEF IInv, TypeOK, AtEnd, AllNamed, AllLogged, Newest, Records
  <2>4. TrackerFilesAgree'
    BY <2>1, <2>2 DEF IInv, TrackerFilesAgree, OwnRecords, InOrder, Missing, Logged, Named, Records
  <2>. QED  BY <2>2, <2>3, <2>4 DEF IInv
<1>. QED  BY <1>1, <1>2, <1>3 DEF Next

(* The inductive invariant holds in every reachable state.                 *)
THEOREM Invariant ==
  ASSUME DatalogConstants, Dirs = {"writable"} PROVE Spec => []IInv
<1>1. Init => IInv
  BY InitInv
<1>2. IInv /\ [Next]_dataVars => IInv'
  BY NextInv
<1>. QED  BY <1>1, <1>2, PTL DEF Spec

(* qtripp.c:273-288: what has been processed is in the data log, through   *)
(* any number of rotations and crashes.                                    *)
THEOREM Processed ==
  ASSUME DatalogConstants, Dirs = {"writable"} PROVE Spec => []ProcessedIsLogged
<1>1. IInv => ProcessedIsLogged
  <2>. SUFFICES ASSUME IInv PROVE ProcessedIsLogged
    OBVIOUS
  <2>1. Logged = 1..rec
    BY LoggedIsAll DEF IInv
  <2>. QED  BY <2>1 DEF IInv, TypeOK, ProcessedIsLogged
<1>. QED  BY <1>1, Invariant, PTL

(* qtripp.c:290-304: the file of a tracker has its own records, in order,  *)
(* and all that are in the data log but one for each crash.                *)
THEOREM TrackerFiles ==
  ASSUME DatalogConstants, Dirs = {"writable"} PROVE Spec => []TrackerFilesAgree
<1>1. IInv => TrackerFilesAgree
  BY DEF IInv
<1>. QED  BY <1>1, Invariant, PTL

(* qtripp.c:276-283: what is in the data log stays there, and what comes   *)
(* later is behind it.                                                     *)
THEOREM ForGood ==
  ASSUME DatalogConstants, Dirs = {"writable"} PROVE Spec => LogsForGood
<1>1. ASSUME Init PROVE Logged = {}
  <2>1. Named = {}
    BY <1>1, InitInv DEF Init, Named
  <2>. QED  BY <2>1 DEF Logged
<1>2. ASSUME IInv, IInv', [Next]_dataVars PROVE [J!Append]_Logged
  <2>1. Logged = 1..rec /\ Logged' = 1..rec' /\ rec \in Nat
    BY <1>2, LoggedIsAll, LoggedIsAllNext, LenProperties DEF IInv, TypeOK, rec
  <2>2. CASE rec' = rec
    BY <2>1, <2>2
  <2>3. CASE rec' = rec + 1
    <3>1. rec + 1 \in Logged' /\ Logged' = Logged \cup {rec + 1}
          /\ \A e \in Logged : e < rec + 1
      BY <2>1, <2>3
    <3>. QED  BY <3>1 DEF J!Append
  <2>4. rec' \in {rec, rec + 1}
    <3>1. CASE UNCHANGED sender
      BY <3>1 DEF rec
    <3>2. ASSUME NEW i \in Imei \cup {None}, sender' = Append(sender, i)
          PROVE  rec' = rec + 1
      BY <1>2, <3>2, AppendProperties DEF IInv, TypeOK, rec
    <3>. QED  BY <1>2, <3>1, <3>2
              DEF Next, DataNext, dataVars, Start, WriteRecord, WriteNewline, LinkAside, Unlink,
                  Reopen, Process, TrackerRecord, TrackerNewline, Crash, CrashData
  <2>. QED  BY <2>2, <2>3, <2>4
<1>3. Init => J!Init
  BY <1>1 DEF J!Init
<1>. QED  BY <1>2, <1>3, Invariant, PTL DEF Spec, LogsForGood, J!AppendOnly
-----------------------------------------------------------------------------
(* Records without a newline behind them.  Of those that are not followed  *)
(* by anything, all but the one being written are left by crashes.         *)
Bare(s) == {k \in DOMAIN s : s[k] # NL /\ (k + 1 \in DOMAIN s => s[k + 1] # NL)}
BareIn(F, g) == {p \in F \X Nat : p[2] \in Bare(g[p[1]])}
Unfinished == IF dpc \in {"newline", "tracker_newline"} THEN 1 ELSE 0

Marks ==
  /\ IsFiniteSet(BareIn(File, files)) /\ IsFiniteSet(BareIn(Imei, tracker))
  /\ Cardinality(BareIn(File, files)) + Cardinality(BareIn(Imei, tracker)) <= crashes + Unfinished
  /\ dpc = "newline" => Len(files[datalog]) \in Bare(files[datalog])
  /\ dpc = "tracker_newline" => Len(tracker[sender[rec]]) \in Bare(tracker[sender[rec]])

LEMMA BareAppend ==
  ASSUME NEW s \in Seq(Nat)
  PROVE  /\ \A x \in Nat \ {NL} : /\ Bare(Append(s, x)) = Bare(s) \cup {Len(s) + 1}
                                  /\ Len(Append(s, x)) = Len(s) + 1
         /\ Bare(Append(s, NL)) = Bare(s) \ {Len(s)}
<1>1. \A x \in Nat :
        /\ Len(Append(s, x)) = Len(s) + 1
        /\ \A k \in 1..Len(s) : Append(s, x)[k] = s[k]
        /\ Append(s, x)[Len(s) + 1] = x
        /\ DOMAIN Append(s, x) = 1..(Len(s) + 1)
  BY AppendProperties, LenProperties
<1>2. DOMAIN s = 1..Len(s) /\ Len(s) \in Nat
  BY LenProperties
<1>3. ASSUME NEW x \in Nat
      PROVE  Bare(Append(s, x)) = IF x = NL THEN Bare(s) \ {Len(s)} ELSE Bare(s) \cup {Len(s) + 1}
  <2> DEFINE a == Append(s, x)
  <2>1. /\ DOMAIN a = 1..(Len(s) + 1) /\ a[Len(s) + 1] = x
        /\ \A k \in 1..Len(s) : a[k] = s[k]
    BY <1>1
  <2>. HIDE DEF a
  <2>2. ASSUME NEW k \in 1..(Len(s) - 1) PROVE k \in Bare(a) <=> k \in Bare(s)
    <3>1. k \in 1..Len(s) /\ k + 1 \in 1..Len(s) /\ k \in DOMAIN a /\ k + 1 \in DOMAIN a
      BY <1>2, <2>1
    <3>. QED  BY <1>2, <2>1, <3>1 DEF Bare
  <2>3. ASSUME Len(s) \in 1..Len(s)
        PROVE  /\ Len(s) \in Bare(a) <=> s[Len(s)] # NL /\ x # NL
               /\ Len(s) \in Bare(s) <=> s[Len(s)] # NL
    <3>1. Len(s) \in DOMAIN a /\ Len(s) + 1 \in DOMAIN a /\ Len(s) + 1 \notin DOMAIN s
      BY <1>2, <2>1, <2>3
    <3>. QED  BY <1>2, <2>1, <2>3, <3>1 DEF Bare
  <2>4. Len(s) + 1 \in Bare(a) <=> x # NL
    <3>1. Len(s) + 1 \in DOMAIN a /\ Len(s) + 1 + 1 \notin DOMAIN a
      BY <1>2, <2>1
    <3>. QED  BY <2>1, <3>1 DEF Bare
  <2>5. Bare(a) \subseteq 1..(Len(s) + 1) /\ Bare(s) \subseteq 1..Len(s)
    BY <1>2, <2>1 DEF Bare
  <2>6. /\ \A k \in 1..(Len(s) + 1) : k = Len(s) + 1 \/ (k = Len(s) /\ Len(s) \in 1..Len(s))
                                      \/ k \in 1..(Len(s) - 1)
        /\ \A k \in 1..(Len(s) - 1) : k # Len(s) /\ k # Len(s) + 1
        /\ Len(s) + 1 # Len(s) /\ Len(s) + 1 \notin 1..Len(s)
    <3>1. ASSUME NEW n \in Nat
          PROVE  /\ \A k \in 1..(n + 1) : k = n + 1 \/ (k = n /\ n \in 1..n) \/ k \in 1..(n - 1)
                 /\ \A k \in 1..(n - 1) : k # n /\ k # n + 1
                 /\ n + 1 # n /\ n + 1 \notin 1..n
      OBVIOUS
    <3>. HIDE <1>1
    <3>. QED  BY <1>2, <3>1
  <2>9. CASE x = NL
    <3>1. ASSUME NEW k \in 1..(Len(s) + 1) PROVE k \in Bare(a) <=> k \in Bare(s) \ {Len(s)}
      BY <2>2, <2>3, <2>4, <2>5, <2>6, <2>9
    <3>2. Bare(s) \subseteq 1..(Len(s) + 1)
      BY <1>2, <2>5
    <3>. QED  BY <2>5, <2>9, <3>1, <3>2 DEF a
  <2>10. CASE x # NL
    <3>1. ASSUME NEW k \in 1..(Len(s) + 1) PROVE k \in Bare(a) <=> k \in Bare(s) \cup {Len(s) + 1}
      BY <2>2, <2>3, <2>4, <2>5, <2>6, <2>10
    <3>2. Bare(s) \cup {Len(s) + 1} \subseteq 1..(Len(s) + 1)
      BY <1>2, <2>5
    <3>. QED  BY <2>5, <2>10, <3>1, <3>2 DEF a
  <2>. QED  BY <2>9, <2>10
<1>4. NL \in Nat
  BY DEF NL
<1>. QED  BY <1>1, <1>3, <1>4

(* One file of a family changes by one place.                              *)
LEMMA OneMoreBare ==
  ASSUME NEW F, NEW g, NEW h, NEW f \in F, NEW k \in Nat,
         \A e \in F \ {f} : h[e] = g[e], Bare(h[f]) = Bare(g[f]) \cup {k},
         IsFiniteSet(BareIn(F, g))
  PROVE  /\ IsFiniteSet(BareIn(F, h))
         /\ Cardinality(BareIn(F, h)) <= Cardinality(BareIn(F, g)) + 1
<1>1. BareIn(F, h) = BareIn(F, g) \cup {<<f, k>>}
  BY DEF BareIn
<1>2. Cardinality(BareIn(F, g)) \in Nat
  BY FS_CardinalityType
<1>3. /\ IsFiniteSet(BareIn(F, g) \cup {<<f, k>>})
      /\ Cardinality(BareIn(F, g) \cup {<<f, k>>})
           = IF <<f, k>> \in BareIn(F, g) THEN Cardinality(BareIn(F, g))
                                         ELSE Cardinality(BareIn(F, g)) + 1
  BY FS_AddElement
<1>. QED  BY <1>1, <1>2, <1>3

LEMMA OneLessBare ==
  ASSUME NEW F, NEW g, NEW h, NEW f \in F, NEW k \in Nat, k \in Bare(g[f]),
         \A e \in F \ {f} : h[e] = g[e], Bare(h[f]) = Bare(g[f]) \ {k},
         IsFiniteSet(BareIn(F, g))
  PROVE  /\ IsFiniteSet(BareIn(F, h))
         /\ Cardinality(BareIn(F, h)) = Cardinality(BareIn(F, g)) - 1
<1>1. BareIn(F, h) = BareIn(F, g) \ {<<f, k>>}
  BY DEF BareIn
<1>2. <<f, k>> \in BareIn(F, g)
  BY DEF BareIn
<1>. QED  BY <1>1, <1>2, FS_RemoveElement
LEMMA InNumbers ==
  ASSUME TypeOK
  PROVE  /\ rec \in Nat /\ crashes \in Nat
         /\ \A f \in File : files[f] \in Seq(Nat)
         /\ \A i \in Imei : tracker[i] \in Seq(Nat)
<1>1. rec \in Nat /\ crashes \in Nat
  BY LenProperties DEF TypeOK, rec
<1>2. Seq(0..rec) \subseteq Seq(Nat)
  BY <1>1, SeqMonotonic
<1>3. \A f \in File : files[f] \in Seq(0..rec)
  BY ElementOfSeq, LenProperties DEF TypeOK, File
<1>. QED  BY <1>1, <1>2, <1>3 DEF TypeOK

LEMMA BareCounts ==
  ASSUME Marks, TypeOK
  PROVE  /\ Cardinality(BareIn(File, files)) \in Nat
         /\ Cardinality(BareIn(Imei, tracker)) \in Nat
         /\ crashes \in Nat /\ Unfinished \in {0, 1}
BY FS_CardinalityType, InNumbers DEF Marks, Unfinished

(* The records and newlines are written in turn.                           *)
LEMMA WriteRecordMarks ==
  ASSUME DatalogConstants, IInv, Marks, NEW i \in Imei \cup {None}, WriteRecord(i)
  PROVE  Marks'
<1>1. /\ TypeOK /\ AtEnd /\ dpc = "poll" /\ dpc' = "newline" /\ Write(rec + 1)
      /\ UNCHANGED <<datalog, tracker, crashes>>
  BY DEF IInv, WriteRecord
<1>2. rec \in Nat /\ \A f \in File : files[f] \in Seq(Nat)
  BY <1>1, InNumbers
<1>3. /\ datalog \in File /\ File' = File
      /\ files'[datalog] = Append(files[datalog], rec + 1)
      /\ \A f \in File \ {datalog} : files'[f] = files[f]
  BY <1>1, <1>2, WriteAppends
<1>4. rec + 1 \in Nat \ {NL} /\ files[datalog] \in Seq(Nat) /\ Len(files[datalog]) + 1 \in Nat
  <2>1. files[datalog] \in Seq(Nat)
    BY <1>2, <1>3
  <2>. QED  BY <1>2, <2>1, LenProperties DEF NL
<1>5. /\ Bare(files'[datalog]) = Bare(files[datalog]) \cup {Len(files[datalog]) + 1}
      /\ Len(files'[datalog]) = Len(files[datalog]) + 1
  BY <1>3, <1>4, BareAppend
<1>6. IsFiniteSet(BareIn(File, files))
  BY DEF Marks
<1>7. /\ IsFiniteSet(BareIn(File, files'))
      /\ Cardinality(BareIn(File, files')) <= Cardinality(BareIn(File, files)) + 1
  BY <1>3, <1>4, <1>5, <1>6, OneMoreBare
<1>8. BareIn(File', files') = BareIn(File, files') /\ BareIn(Imei, tracker') = BareIn(Imei, tracker)
  BY <1>1, <1>3
<1>9. Unfinished = 0 /\ Unfinished' = 1
  BY <1>1 DEF Unfinished
<1>10. Cardinality(BareIn(File, files')) \in Nat
  BY <1>7, FS_CardinalityType
<1>. QED  BY <1>1, <1>5, <1>7, <1>8, <1>9, <1>10, BareCounts DEF Marks

LEMMA WriteNewlineMarks ==
  ASSUME DatalogConstants, IInv, Marks, WriteNewline
  PROVE  Marks'
<1>1. /\ TypeOK /\ AtEnd /\ dpc = "newline" /\ dpc' \in {"link", "process"} /\ Write(NL)
      /\ UNCHANGED <<datalog, tracker, crashes>>
  BY DEF IInv, WriteNewline
<1>2. rec \in Nat /\ NL \in Nat /\ NL <= rec + 1 /\ \A f \in File : files[f] \in Seq(Nat)
  BY <1>1, InNumbers DEF NL
<1>3. /\ datalog \in File /\ File' = File
      /\ files'[datalog] = Append(files[datalog], NL)
      /\ \A f \in File \ {datalog} : files'[f] = files[f]
  BY <1>1, <1>2, WriteAppends
<1>4. files[datalog] \in Seq(Nat) /\ Len(files[datalog]) \in Nat
  <2>1. files[datalog] \in Seq(Nat)
    BY <1>2, <1>3
  <2>. QED  BY <2>1, LenProperties
<1>5. /\ Bare(files'[datalog]) = Bare(files[datalog]) \ {Len(files[datalog])}
      /\ Len(files[datalog]) \in Bare(files[datalog])
  BY <1>1, <1>3, <1>4, BareAppend DEF Marks
<1>6. IsFiniteSet(BareIn(File, files))
  BY DEF Marks
<1>7. /\ IsFiniteSet(BareIn(File, files'))
      /\ Cardinality(BareIn(File, files')) = Cardinality(BareIn(File, files)) - 1
  BY <1>3, <1>4, <1>5, <1>6, OneLessBare
<1>8. BareIn(File', files') = BareIn(File, files') /\ BareIn(Imei, tracker') = BareIn(Imei, tracker)
  BY <1>1, <1>3
<1>9. Unfinished = 1 /\ Unfinished' = 0
  BY <1>1 DEF Unfinished
<1>. QED  BY <1>1, <1>7, <1>8, <1>9, BareCounts DEF Marks

LEMMA TrackerRecordMarks ==
  ASSUME DatalogConstants, IInv, Marks, TrackerRecord
  PROVE  Marks'
<1>1. /\ TypeOK /\ Newest /\ dpc = "tracker" /\ dpc' = "tracker_newline"
      /\ tracker' = [tracker EXCEPT ![sender[rec]] = Append(@, rec)]
      /\ UNCHANGED <<files, sender, crashes>>
  BY DEF IInv, TrackerRecord, Owner
<1>2. rec \in Nat \ {NL} /\ \A i \in Imei : tracker[i] \in Seq(Nat)
  BY <1>1, InNumbers DEF Newest, NL
<1>3. sender[rec] \in Imei
  <2>1. rec \in 1..Len(sender) /\ sender \in Seq(Imei \cup {None})
    BY <1>1, <1>2 DEF rec, TypeOK, NL
  <2>2. sender[rec] \in Imei \cup {None}
    BY <2>1, ElementOfSeq
  <2>. QED  BY <1>1, <2>2 DEF Newest
<1>4. PICK i \in Imei : i = sender[rec]
  BY <1>3
<1>5. /\ tracker'[i] = Append(tracker[i], rec)
      /\ \A e \in Imei \ {i} : tracker'[e] = tracker[e]
      /\ File' = File /\ rec' = rec
  BY <1>1, <1>4 DEF TypeOK, File, rec
<1>6. tracker[i] \in Seq(Nat) /\ Len(tracker[i]) + 1 \in Nat
  <2>1. tracker[i] \in Seq(Nat)
    BY <1>2
  <2>. QED  BY <2>1, LenProperties
<1>7. /\ Bare(tracker'[i]) = Bare(tracker[i]) \cup {Len(tracker[i]) + 1}
      /\ Len(tracker'[i]) = Len(tracker[i]) + 1
  BY <1>2, <1>5, <1>6, BareAppend
<1>8. IsFiniteSet(BareIn(Imei, tracker))
  BY DEF Marks
<1>9. /\ IsFiniteSet(BareIn(Imei, tracker'))
      /\ Cardinality(BareIn(Imei, tracker')) <= Cardinality(BareIn(Imei, tracker)) + 1
  BY <1>5, <1>6, <1>7, <1>8, OneMoreBare
<1>10. BareIn(File', files') = BareIn(File, files)
  BY <1>1, <1>5
<1>11. Unfinished = 0 /\ Unfinished' = 1
  BY <1>1 DEF Unfinished
<1>12. Cardinality(BareIn(Imei, tracker')) \in Nat
  BY <1>9, FS_CardinalityType
<1>13. Len(tracker'[sender'[rec']]) \in Bare(tracker'[sender'[rec']])
  <2>1. sender'[rec'] = i
    BY <1>1, <1>4, <1>5
  <2>. QED  BY <1>7, <2>1
<1>14. Cardinality(BareIn(File', files')) + Cardinality(BareIn(Imei, tracker')) <= crashes' + Unfinished'
  BY <1>1, <1>9, <1>10, <1>11, <1>12, BareCounts DEF Marks
<1>. QED  BY <1>1, <1>9, <1>10, <1>13, <1>14 DEF Marks

LEMMA TrackerNewlineMarks ==
  ASSUME DatalogConstants, IInv, Marks, TrackerNewline
  PROVE  Marks'
<1>1. /\ TypeOK /\ Newest /\ dpc = "tracker_newline" /\ dpc' = "poll"
      /\ tracker' = [tracker EXCEPT ![sender[rec]] = Append(@, NL)]
      /\ UNCHANGED <<files, sender, crashes>>
  BY DEF IInv, TrackerNewline, TrackerEnd
<1>2. rec \in Nat \ {NL} /\ \A i \in Imei : tracker[i] \in Seq(Nat)
  BY <1>1, InNumbers DEF Newest, NL
<1>3. sender[rec] \in Imei
  <2>1. rec \in 1..Len(sender) /\ sender \in Seq(Imei \cup {None})
    BY <1>1, <1>2 DEF rec, TypeOK, NL
  <2>2. sender[rec] \in Imei \cup {None}
    BY <2>1, ElementOfSeq
  <2>. QED  BY <1>1, <2>2 DEF Newest
<1>4. PICK i \in Imei : i = sender[rec]
  BY <1>3
<1>5. /\ tracker'[i] = Append(tracker[i], NL)
      /\ \A e \in Imei \ {i} : tracker'[e] = tracker[e]
      /\ File' = File
  BY <1>1, <1>4 DEF TypeOK, File
<1>6. tracker[i] \in Seq(Nat) /\ Len(tracker[i]) \in Nat
  <2>1. tracker[i] \in Seq(Nat)
    BY <1>2
  <2>. QED  BY <2>1, LenProperties
<1>7. /\ Bare(tracker'[i]) = Bare(tracker[i]) \ {Len(tracker[i])}
      /\ Len(tracker[i]) \in Bare(tracker[i])
  BY <1>1, <1>4, <1>5, <1>6, BareAppend DEF Marks
<1>8. IsFiniteSet(BareIn(Imei, tracker))
  BY DEF Marks
<1>9. /\ IsFiniteSet(BareIn(Imei, tracker'))
      /\ Cardinality(BareIn(Imei, tracker')) = Cardinality(BareIn(Imei, tracker)) - 1
  BY <1>5, <1>6, <1>7, <1>8, OneLessBare
<1>10. BareIn(File', files') = BareIn(File, files)
  BY <1>1, <1>5
<1>11. Unfinished = 1 /\ Unfinished' = 0
  BY <1>1 DEF Unfinished
<1>. QED  BY <1>1, <1>9, <1>10, <1>11, BareCounts DEF Marks

(* A new file is empty; nothing else changes what is in one.               *)
LEMMA OtherMarks ==
  ASSUME DatalogConstants, IInv, Marks,
         \/ Start \/ LinkAside \/ Unlink \/ Reopen \/ Process \/ Crash \/ UNCHANGED dataVars
  PROVE  Marks'
<1>1. BareIn(File', files') = BareIn(File, files) /\ UNCHANGED tracker
  <2>1. CASE Start \/ Reopen
    <3>1. (\E a \in BOOLEAN : Open(a)) /\ UNCHANGED tracker
      BY <2>1 DEF Start, Reopen
    <3>2. CASE UNCHANGED files
      BY <3>1, <3>2 DEF File
    <3>3. CASE files' = Append(files, <<>>)
      <4>1. files \in Seq(Seq(0..rec)) /\ <<>> \in Seq(0..rec) /\ DOMAIN <<>> = {}
        BY EmptySeq DEF IInv, TypeOK
      <4>2. /\ File = 1..Len(files) /\ File' = 1..(Len(files) + 1) /\ Len(files) \in Nat
            /\ \A f \in File : files'[f] = files[f]
            /\ files'[Len(files) + 1] = <<>>
        BY <3>3, <4>1, AppendProperties, LenProperties DEF File
      <4>3. Bare(files'[Len(files) + 1]) = {}
        BY <4>1, <4>2 DEF Bare
      <4>4. File' = File \cup {Len(files) + 1}
        BY <4>2
      <4>. QED  BY <3>1, <4>2, <4>3, <4>4 DEF BareIn
    <3>. QED  BY <3>1, <3>2, <3>3 DEF Open
  <2>2. CASE LinkAside \/ Unlink \/ Process \/ Crash \/ UNCHANGED dataVars
    BY <2>2 DEF LinkAside, Unlink, Process, Crash, CrashData, dataVars, diskVars, File
  <2>. QED  BY <2>1, <2>2
<1>2. CASE Start \/ LinkAside \/ Unlink \/ Reopen \/ Process
  <2>1. Unfinished = 0 /\ Unfinished' = 0 /\ crashes' = crashes
        /\ dpc' \notin {"newline", "tracker_newline"}
    BY <1>2 DEF Unfinished, Start, LinkAside, Unlink, Reopen, Process
  <2>. QED  BY <1>1, <2>1 DEF Marks
<1>3. CASE Crash
  <2>1. crashes' = crashes + 1 /\ dpc' = "open" /\ Unfinished' = 0
    BY <1>3 DEF Crash, CrashData, Unfinished
  <2>2. TypeOK
    BY DEF IInv
  <2>. QED  BY <1>1, <2>1, <2>2, BareCounts DEF Marks
<1>4. CASE UNCHANGED dataVars
  BY <1>1, <1>4 DEF Marks, Unfinished, dataVars, diskVars, rec
<1>. QED  BY <1>2, <1>3, <1>4

(* qtripp.c:273-274 and 299-300: a line of the data log or of the file of  *)
(* a tracker has one record, but for one for each crash.                   *)
THEOREM OneRecordALine ==
  ASSUME DatalogConstants, Dirs = {"writable"} PROVE Spec => []JoinedOnlyByCrashes
<1>1. ASSUME Init PROVE Marks
  <2>1. /\ File = {} /\ crashes = 0 /\ dpc = "open" /\ \A i \in Imei : tracker[i] = <<>>
    BY <1>1 DEF Init, File
  <2>2. BareIn(File, files) = {} /\ BareIn(Imei, tracker) = {}
    BY <2>1 DEF BareIn, Bare
  <2>. QED  BY <2>1, <2>2, FS_EmptySet DEF Marks, Unfinished
<1>2. ASSUME IInv, Marks, [Next]_dataVars PROVE Marks'
  BY <1>2, WriteRecordMarks, WriteNewlineMarks, TrackerRecordMarks, TrackerNewlineMarks, OtherMarks
     DEF Next, DataNext
<1>3. ASSUME IInv, Marks PROVE JoinedOnlyByCrashes
  <2> DEFINE A == {p \in File \X (1..(2 * rec)) : p[2] \in Joined(files[p[1]])}
             B == {p \in Imei \X (1..(2 * rec)) : p[2] \in Joined(tracker[p[1]])}
             M == BareIn(File, files)
             N == BareIn(Imei, tracker)
  <2>1. TypeOK /\ rec \in Nat /\ crashes \in Nat
    BY <1>3, InNumbers DEF IInv
  <2>2. ASSUME NEW s \in Seq(Nat)
        PROVE  Joined(s) \subseteq Bare(s) \ {Len(s)}
    <3>1. DOMAIN s = 1..Len(s) /\ Len(s) \in Nat
      BY LenProperties
    <3>2. SUFFICES ASSUME NEW k \in Joined(s) PROVE k \in Bare(s) /\ k # Len(s)
      OBVIOUS
    <3>3. k \in 1..(Len(s) - 1) /\ s[k] # NL /\ s[k + 1] # NL
      BY DEF Joined
    <3>4. k \in DOMAIN s /\ k # Len(s)
      <4>1. \A n \in Nat : \A l \in 1..(n - 1) : l \in 1..n /\ l # n
        OBVIOUS
      <4>. QED  BY <3>1, <3>3, <4>1
    <3>. QED  BY <3>3, <3>4 DEF Bare
  <2>3. \A k \in 1..(2 * rec) : k \in Nat
    BY <2>1
  <2>4. A \subseteq M /\ B \subseteq N
    BY <2>1, <2>2, <2>3, InNumbers DEF BareIn
  <2>5. IsFiniteSet(M) /\ IsFiniteSet(N) /\ Cardinality(M) + Cardinality(N) <= crashes + Unfinished
    BY <1>3 DEF Marks
  <2>6. /\ IsFiniteSet(A) /\ IsFiniteSet(B)
        /\ Cardinality(A) <= Cardinality(M) /\ Cardinality(B) <= Cardinality(N)
    BY <2>4, <2>5, FS_Subset
  <2>7. /\ Cardinality(A) \in Nat /\ Cardinality(B) \in Nat
        /\ Cardinality(M) \in Nat /\ Cardinality(N) \in Nat
    BY <2>5, <2>6, FS_CardinalityType
  <2>8. JoinedOnlyByCrashes <=> Cardinality(A) + Cardinality(B) <= crashes
    BY DEF JoinedOnlyByCrashes
  <2>. HIDE DEF A, B, M, N
  <2>9. CASE dpc \notin {"newline", "tracker_newline"}
    BY <2>1, <2>5, <2>6, <2>7, <2>8, <2>9 DEF Unfinished
  <2>10. CASE dpc = "newline"
    <3>1. datalog \in File /\ files[datalog] \in Seq(Nat)
      BY <1>3, <2>1, <2>10, InNumbers DEF IInv, AtEnd, TypeOK
    <3>2. Len(files[datalog]) \in Bare(files[datalog]) /\ Len(files[datalog]) \in Nat
      BY <1>3, <2>10, <3>1, LenProperties DEF Marks
    <3>3. <<datalog, Len(files[datalog])>> \in M \ A
      BY <2>2, <3>1, <3>2 DEF M, A, BareIn
    <3>4. Cardinality(A) # Cardinality(M)
      BY <2>4, <2>5, <3>3, FS_Subset
    <3>. QED  BY <2>1, <2>5, <2>6, <2>7, <2>8, <2>10, <3>4 DEF Unfinished
  <2>11. CASE dpc = "tracker_newline"
    <3>1. sender[rec] \in Imei
      <4>1. Newest /\ rec # 0
        BY <1>3, <2>11 DEF IInv, Newest
      <4>2. rec \in 1..Len(sender) /\ sender \in Seq(Imei \cup {None})
        BY <2>1, <4>1 DEF rec, TypeOK
      <4>3. sender[rec] \in Imei \cup {None}
        BY <4>2, ElementOfSeq
      <4>. QED  BY <2>11, <4>1, <4>3 DEF Newest
    <3>2. PICK i \in Imei : i = sender[rec]
      BY <3>1
    <3>3. tracker[i] \in Seq(Nat)
      BY <2>1, InNumbers
    <3>4. Len(tracker[i]) \in Bare(tracker[i]) /\ Len(tracker[i]) \in Nat
      BY <1>3, <2>11, <3>2, <3>3, LenProperties DEF Marks
    <3>5. <<i, Len(tracker[i])>> \in N \ B
      BY <2>2, <3>3, <3>4 DEF N, B, BareIn
    <3>6. Cardinality(B) # Cardinality(N)
      BY <2>4, <2>5, <3>5, FS_Subset
    <3>. QED  BY <2>1, <2>5, <2>6, <2>7, <2>8, <2>11, <3>6 DEF Unfinished
  <2>. QED  BY <2>9, <2>10, <2>11
<1>. QED  BY <1>1, <1>2, <1>3, Invariant, PTL DEF Spec

-----------------------------------------------------------------------------
(* The types, whatever the directory of the data log is.                   *)

(* write() leaves a file that holds records and newlines.                  *)
LEMMA PutTyped ==
  ASSUME NEW S, NEW s \in Seq(S), NEW at \in Nat, NEW x \in S
  PROVE  Put(s, at, x) \in Seq(S)
<1> DEFINE m == IF at = Len(s) THEN at + 1 ELSE Len(s)
           e(k) == IF k = at + 1 THEN x ELSE s[k]
<1>1. m \in Nat /\ Len(s) \in Nat
  BY LenProperties
<1>2. ASSUME NEW k \in 1..m PROVE e(k) \in S
  <2>1. k = at + 1 \/ k \in 1..Len(s)
    BY <1>1
  <2>. QED  BY <2>1, ElementOfSeq
<1>3. Put(s, at, x) = [k \in 1..m |-> e(k)]
  BY DEF Put
<1>. HIDE DEF m, e
<1>. QED  BY <1>1, <1>2, <1>3, IsASeq

LEMMA TypesFiles ==
  ASSUME DatalogConstants, TypeOK
  PROVE  rec \in Nat /\ File = 1..Len(files) /\ Len(files) \in Nat /\ None \notin File
<1>1. files \in Seq(Seq(0..rec)) /\ sender \in Seq(Imei \cup {None})
  BY DEF TypeOK
<1>2. rec \in Nat /\ File = 1..Len(files) /\ Len(files) \in Nat
  BY <1>1, LenProperties DEF rec, File
<1>. QED  BY <1>2 DEF DatalogConstants

LEMMA OpenTyped ==
  ASSUME DatalogConstants, TypeOK, NEW append \in BOOLEAN, Open(append)
  PROVE  /\ files' \in Seq(Seq(0..rec)) /\ datalog' \in File'
         /\ fd' \in [file : File', pos : Nat, append : BOOLEAN]
         /\ aside \subseteq File'
<1>1. files \in Seq(Seq(0..rec)) /\ aside \subseteq File /\ File = 1..Len(files)
      /\ Len(files) \in Nat
  BY TypesFiles DEF TypeOK
<1>2. CASE datalog # None
  BY <1>1, <1>2 DEF Open, TypeOK, File
<1>3. CASE datalog = None
  <2>1. <<>> \in Seq(0..rec)
    BY EmptySeq
  <2>2. files' = Append(files, <<>>) /\ datalog' = Len(files')
    BY <1>3 DEF Open
  <2>3. files' \in Seq(Seq(0..rec)) /\ Len(files') = Len(files) + 1
    BY <1>1, <2>1, <2>2, AppendProperties
  <2>4. File' = 1..(Len(files) + 1)
    BY <2>3, LenProperties DEF File
  <2>. QED  BY <1>1, <2>2, <2>3, <2>4 DEF Open
<1>. QED  BY <1>2, <1>3

LEMMA WriteTyped ==
  ASSUME DatalogConstants, TypeOK, fd # None,
         NEW m \in Nat, rec <= m, NEW x \in 0..m, Write(x)
  PROVE  /\ files' \in Seq(Seq(0..m)) /\ File' = File
         /\ fd' \in [file : File, pos : Nat, append : BOOLEAN]
<1>1. fd \in [file : File, pos : Nat, append : BOOLEAN]
  BY DEF TypeOK
<1>2. files \in Seq(Seq(0..m)) /\ files[fd.file] \in Seq(0..m)
  <2>1. 0..rec \subseteq 0..m
    BY TypesFiles
  <2>2. Seq(0..rec) \subseteq Seq(0..m)
    BY <2>1, SeqMonotonic
  <2>3. files \in Seq(Seq(0..m))
    BY <2>2, SeqMonotonic DEF TypeOK
  <2>. QED  BY <1>1, <2>3, TypesFiles, ElementOfSeq
<1>3. Offset \in Nat
  BY <1>1, <1>2, LenProperties DEF Offset
<1>4. Put(files[fd.file], Offset, x) \in Seq(0..m)
  BY <1>2, <1>3, PutTyped
<1>5. files' = [files EXCEPT ![fd.file] = Put(files[fd.file], Offset, x)]
      /\ fd' = [fd EXCEPT !.pos = Offset + 1]
  BY DEF Write
<1>6. files' \in Seq(Seq(0..m)) /\ DOMAIN files' = DOMAIN files
  BY <1>1, <1>2, <1>4, <1>5, TypesFiles, ExceptSeq, LenProperties
<1>7. fd' \in [file : File, pos : Nat, append : BOOLEAN]
  BY <1>1, <1>3, <1>5
<1>. QED  BY <1>6, <1>7 DEF File

LEMMA NextTyped == ASSUME DatalogConstants, TInv, [Next]_dataVars PROVE TInv'
<1>1. /\ TypeOK /\ Newest /\ Ready
      /\ rec \in Nat /\ File = 1..Len(files) /\ Len(files) \in Nat /\ None \notin File
  BY TypesFiles DEF TInv
<1>. USE <1>1
<1>2. CASE Start \/ Reopen
  <2>1. /\ \E append \in BOOLEAN : Open(append)
        /\ UNCHANGED <<dir, aside, tracker, sender, processed, crashes>>
        /\ \/ dpc = "open" /\ dpc' = "poll"
           \/ dpc = "reopen" /\ dpc' = "process"
    BY <1>2 DEF Start, Reopen
  <2>2. /\ files' \in Seq(Seq(0..rec)) /\ datalog' \in File'
        /\ fd' \in [file : File', pos : Nat, append : BOOLEAN] /\ aside \subseteq File'
    BY <2>1, OpenTyped
  <2>3. rec' = rec
    BY <2>1 DEF rec
  <2>4. TypeOK'
    BY <2>1, <2>2, <2>3 DEF TypeOK
  <2>5. None \notin File' /\ File' \subseteq Nat
    <3>1. File' = 1..Len(files') /\ Len(files') \in Nat
      BY <2>2, LenProperties DEF File
    <3>. QED  BY <3>1 DEF DatalogConstants
  <2>6. fd' # None /\ datalog' # None
    <3>1. fd' \in [file : Nat, pos : Nat, append : BOOLEAN]
      BY <2>2, <2>5
    <3>. QED  BY <2>2, <2>5, <3>1 DEF DatalogConstants
  <2>. QED  BY <2>1, <2>3, <2>4, <2>6 DEF TInv, Newest, Ready
<1>3. ASSUME NEW i \in Imei \cup {None}, WriteRecord(i) PROVE TInv'
  <2>1. /\ dpc = "poll" /\ dpc' = "newline" /\ sender' = Append(sender, i) /\ Write(rec + 1)
        /\ UNCHANGED <<dir, datalog, aside, tracker, processed, crashes>>
    BY <1>3 DEF WriteRecord
  <2>2. sender' \in Seq(Imei \cup {None}) /\ rec' = rec + 1
    BY <2>1, AppendProperties DEF TypeOK, rec
  <2>3. /\ files' \in Seq(Seq(0..rec')) /\ File' = File
        /\ fd' \in [file : File, pos : Nat, append : BOOLEAN]
    BY <2>1, <2>2, WriteTyped DEF Ready
  <2>4. tracker' \in [Imei -> Seq(0..rec')] /\ processed' \subseteq 1..rec'
    <3>1. 0..rec \subseteq 0..rec' /\ 1..rec \subseteq 1..rec'
      BY <2>2
    <3>2. Seq(0..rec) \subseteq Seq(0..rec')
      BY <3>1, SeqMonotonic
    <3>. QED  BY <2>1, <3>1, <3>2 DEF TypeOK
  <2>5. TypeOK'
    BY <2>1, <2>2, <2>3, <2>4 DEF TypeOK
  <2>6. fd' # None
    <3>1. fd' \in [file : Nat, pos : Nat, append : BOOLEAN]
      BY <2>3
    <3>. QED  BY <3>1 DEF DatalogConstants
  <2>. QED  BY <2>1, <2>2, <2>5, <2>6 DEF TInv, Newest, Ready
<1>4. CASE WriteNewline
  <2>1. /\ dpc = "newline" /\ dpc' \in {"link", "process"} /\ Write(NL)
        /\ UNCHANGED <<dir, datalog, aside, tracker, sender, processed, crashes>>
    BY <1>4 DEF WriteNewline
  <2>2. rec' = rec /\ NL \in 0..rec
    BY <2>1 DEF rec, NL
  <2>3. /\ files' \in Seq(Seq(0..rec)) /\ File' = File
        /\ fd' \in [file : File, pos : Nat, append : BOOLEAN]
    BY <2>1, <2>2, WriteTyped DEF Ready
  <2>4. TypeOK'
    BY <2>1, <2>2, <2>3 DEF TypeOK
  <2>5. fd' # None
    <3>1. fd' \in [file : Nat, pos : Nat, append : BOOLEAN]
      BY <2>3
    <3>. QED  BY <3>1 DEF DatalogConstants
  <2>. QED  BY <2>1, <2>2, <2>4, <2>5 DEF TInv, Newest, Ready
<1>5. CASE LinkAside
  <2>1. aside' \subseteq File /\ File' = File /\ rec' = rec
    BY <1>5 DEF LinkAside, NamedAside, TypeOK, Ready, File, rec
  <2>. QED  BY <1>5, <2>1 DEF LinkAside, TInv, TypeOK, Newest, Ready
<1>6. CASE Unlink
  BY <1>6 DEF Unlink, TInv, TypeOK, Newest, Ready, File, rec
<1>7. CASE Process
  <2>1. rec' = rec /\ rec \in 1..rec /\ processed' = processed \cup {rec}
    BY <1>7 DEF Process, Newest, rec
  <2>2. TypeOK'
    BY <1>7, <2>1 DEF Process, diskVars, TypeOK, File
  <2>. QED  BY <1>7, <2>1, <2>2 DEF Process, diskVars, TInv, Newest, Ready, rec
<1>8. CASE TrackerRecord \/ TrackerNewline
  <2>1. PICK x \in 0..rec : tracker' = [tracker EXCEPT ![sender[rec]] = Append(@, x)]
    BY <1>8 DEF TrackerRecord, TrackerNewline, Owner, TrackerEnd, NL
  <2>2. rec' = rec /\ File' = File
    BY <1>8 DEF TrackerRecord, TrackerNewline, rec, File
  <2>3. sender[rec] \in Imei
    <3>1. rec \in 1..Len(sender) /\ sender[rec] # None
      BY <1>8 DEF TrackerRecord, TrackerNewline, Newest, rec
    <3>. QED  BY <3>1, ElementOfSeq DEF TypeOK
  <2>4. tracker \in [Imei -> Seq(0..rec)]
    BY DEF TypeOK
  <2>5. Append(tracker[sender[rec]], x) \in Seq(0..rec)
    BY <2>3, <2>4, AppendProperties
  <2>6. tracker' \in [Imei -> Seq(0..rec)]
    BY <2>1, <2>3, <2>4, <2>5
  <2>7. TypeOK'
    BY <1>8, <2>2, <2>6 DEF TrackerRecord, TrackerNewline, TypeOK
  <2>. QED  BY <1>8, <2>2, <2>7 DEF TrackerRecord, TrackerNewline, TInv, Newest, Ready
<1>9. CASE Crash
  <2>1. crashes' \in 0..MaxCrashes /\ rec' = rec /\ File' = File
    BY <1>9 DEF Crash, CrashData, diskVars, TypeOK, DatalogConstants, rec, File
  <2>. QED  BY <1>9, <2>1 DEF Crash, CrashData, diskVars, TInv, TypeOK, Newest, Ready
<1>10. CASE UNCHANGED dataVars
  BY <1>10 DEF dataVars, diskVars, TInv, TypeOK, Newest, Ready, File, rec
<1>. QED  BY <1>2, <1>3, <1>4, <1>5, <1>6, <1>7, <1>8, <1>9, <1>10 DEF Next, DataNext

(* qtripp.c:267-305: whatever directory the data log is in, no record is   *)
(* written to a descriptor that is not open, none set aside that has no    *)
(* name, and none processed or filed that was not received.                *)
THEOREM TypeCorrect == ASSUME DatalogConstants PROVE Spec => []TInv
<1>1. ASSUME Init PROVE TInv
  <2>1. sender = <<>> /\ rec = 0 /\ dpc = "open"
    BY <1>1 DEF Init, rec
  <2>2. files \in Seq(Seq(0..rec)) /\ datalog \in File \cup {None}
    <3>1. CASE files = <<>> /\ datalog = None
      BY <3>1
    <3>2. CASE files = <<<<>>>> /\ datalog = 1
      <4>1. <<>> \in Seq(0..rec) /\ DOMAIN files = 1..1
        BY <3>2
      <4>. QED  BY <3>2, <4>1 DEF File
    <3>. QED  BY <1>1, <3>1, <3>2 DEF Init
  <2>3. TypeOK
    BY <1>1, <2>1, <2>2 DEF Init, TypeOK, DatalogConstants
  <2>. QED  BY <2>1, <2>3 DEF TInv, Newest, Ready
<1>2. TInv /\ [Next]_dataVars => TInv'
  BY NextTyped
<1>. QED  BY <1>1, <1>2, PTL DEF Spec
=============================================================================
