---------------------------- MODULE FieldColumns ----------------------------
(***************************************************************************)
(* Which columns of a line handle_report() (tline.c) reads for which field *)
(* of a report.                                                            *)
(*                                                                         *)
(* devices.yml gives the column of every field in a line with one position *)
(* and one of each repeated part.  A line has as many blocks of twelve     *)
(* columns as its number says; behind them parts may be missing, as the    *)
(* mask of the report says, and parts may be repeated.  The code corrects  *)
(* the columns of devices.yml for that, field by field.                    *)
(*                                                                         *)
(* Abstractions.  A line is the sequence of the fields in its columns, none*)
(* empty.  Of their values the counts are told apart, the UART type, which *)
(* is 1-wire, and of any other column whether it has a 2, the UART type    *)
(* that the code looks for.  Fields before the blocks are left out: they   *)
(* are read from their column in devices.yml.                              *)
(***************************************************************************)
EXTENDS Integers, SequencesExt

CONSTANTS
  Defs,        \* entries of devices.yml
  TwoSets,     \* bound: what the columns with a 2 that are no count may be
  MaxNum,      \* bound: blocks of a line
  MaxOneWire,  \* bound: 1-wire devices in a line
  MaxXyz       \* bound: sets of accelerometer data in a line

BlockLen == 12
Reserved == "reserved"
BlockFields == {"acc", "vel", "cog", "alt", "lon", "lat", "utc", "mcc", "mnc", "lac", "cid"}
TailFields == {"odometer", "hmc", "aiv", "rpm", "fcon", "flvl", "batt", "ios", "devs", "din", "dout",
               "uart", "anum", "adid", "adty", "adda", "can", "dgn", "da", "xyz", "sent", "count"}
Part == {"ac100", "can", "xyz"}

(* An entry: whether it has the number of positions and the mask, the      *)
(* column of the first block, the fields of a block, those behind it.      *)
Def == [number : BOOLEAN, erim : BOOLEAN, acc : Nat \ {0},
        block : Seq(BlockFields \cup {"odometer", Reserved}), tail : Seq(TailFields \cup {Reserved})]
NoDef == [number |-> FALSE, erim |-> FALSE, acc |-> 1, block |-> <<>>, tail |-> <<>>]

Has(d, f) == \E k \in DOMAIN d.tail : d.tail[k] = f
HasPart(d, p) == Has(d, IF p = "ac100" THEN "anum" ELSE IF p = "xyz" THEN "dgn" ELSE p)

(* What the entries keep to: a field has one column, that of a position is *)
(* in the block; what is repeated or may be missing comes in this order,   *)
(* whole, behind what neither is; a mask is of the parts there are.        *)
Place(f) ==
  CASE f \in {"adid", "adty", "adda"} -> 1
    [] f = "can"                      -> 2
    [] f = "dgn"                      -> 3
    [] f \in {"da", "xyz"}            -> 4
    [] f = "ios"                      -> 5
    [] f \in {"sent", "count"}        -> 6
    [] OTHER                          -> 0

Once(s) == \A k, l \in DOMAIN s : (s[k] = s[l] /\ s[k] # Reserved) => k = l
Follows(s, f, g) ==
  /\ \A k \in DOMAIN s : s[k] = f => k + 1 \in DOMAIN s /\ s[k + 1] = g
  /\ \A k \in DOMAIN s : s[k] = g => k - 1 \in DOMAIN s /\ s[k - 1] = f

InLayout(d) ==
  /\ Len(d.block) = BlockLen /\ Once(d.block) /\ Once(d.tail)
  /\ \A f \in BlockFields : \E k \in DOMAIN d.block : d.block[k] = f
  /\ \A k \in DOMAIN d.block : d.block[k] # Reserved => ~Has(d, d.block[k])
  /\ \A k, l \in DOMAIN d.tail : k < l => Place(d.tail[k]) <= Place(d.tail[l])
  /\ Follows(d.tail, "adid", "adty") /\ Follows(d.tail, "adty", "adda")
  /\ Follows(d.tail, "da", "xyz")
  /\ (Has(d, "uart") <=> Has(d, "anum")) /\ (Has(d, "anum") <=> Has(d, "adid"))
  /\ Has(d, "dgn") <=> Has(d, "da")
  /\ d.erim => Has(d, "anum") /\ Has(d, "can")
  /\ Has(d, "dgn") => d.erim

ASSUME FieldColumnsAssumption ==
  /\ \A d \in Defs : d \in Def /\ InLayout(d)
  /\ TwoSets \subseteq SUBSET Nat
  /\ MaxNum \in Nat \ {0} /\ MaxOneWire \in Nat \ {0} /\ MaxXyz \in Nat \ {0}

VARIABLES
  phase,       \* "idle", "line": a line to be read, "read"
  def,         \* dp, or NoDef between two lines
  num,         \* nreports: 0 without a column for it
  erim,        \* the parts in the mask
  iospresent,  \* the line has the column ios, if its definition does
  onewire,     \* 1-wire devices in the line
  dgn,         \* sets of accelerometer data in the line
  twos,        \* the columns with a 2 that are no count
  cols         \* cols[f] : the columns read for f

vars == <<phase, def, num, erim, iospresent, onewire, dgn, twos, cols>>

-----------------------------------------------------------------------------
(* The line a tracker sends.                                               *)
Repeat(s, n) == [k \in 1..(n * Len(s)) |-> s[((k - 1) % Len(s)) + 1]]

TailPart(f) ==
  CASE f = "anum"           -> IF "ac100" \in erim THEN <<f>> ELSE <<>>
    [] f = "adid"           -> IF "ac100" \in erim THEN Repeat(<<"adid", "adty", "adda">>, onewire)
                                                   ELSE <<>>
    [] f = "can"            -> IF "can" \in erim THEN <<f>> ELSE <<>>
    [] f = "dgn"            -> IF "xyz" \in erim THEN <<f>> ELSE <<>>
    [] f = "da"             -> IF "xyz" \in erim THEN Repeat(<<"da", "xyz">>, dgn) ELSE <<>>
    [] f = "ios"            -> IF iospresent THEN <<f>> ELSE <<>>
    [] f \in {"adty", "adda", "xyz"} -> <<>>
    [] OTHER                -> <<f>>

Blocks == IF num = 0 THEN 1 ELSE num
Line == Repeat(def.block, Blocks) \o FlattenSeq([k \in DOMAIN def.tail |-> TailPart(def.tail[k])])
Column == def.acc .. (def.acc + Len(Line) - 1)
Field(k) == IF k \in Column THEN Line[k - def.acc + 1] ELSE "head"
ColumnsOf(f) == {k \in Column : Field(k) = f}
Value(k) ==
  CASE Field(k) = "uart" -> 2
    [] Field(k) = "anum" -> onewire
    [] Field(k) = "dgn"  -> dgn
    [] OTHER             -> IF k \in twos THEN 2 ELSE 0

-----------------------------------------------------------------------------
(* dp->f; devices.j2 makes it -1 for a field the entry does not have.      *)
dp(f) ==
  LET b == SelectInSeq(def.block, LAMBDA e : e = f)
      t == SelectInSeq(def.tail, LAMBDA e : e = f)
  IN IF b > 0 THEN def.acc + b - 1
     ELSE IF t > 0 THEN def.acc + BlockLen + t - 1
     ELSE -1

(* GET_S, GET_D: nothing but for a column of the line behind the first.    *)
Get(k) == IF k > 0 /\ k < def.acc + Len(Line) THEN {k} ELSE {}
Guarded(f, k) == IF dp(f) > 0 THEN Get(k) ELSE {}

(* slip: counts the blocks from one                                        *)
behind_FromOne == num * BlockLen
behind == (num - 1) * BlockLen

(* Without a mask the parts are taken to be there, but for the last.       *)
ac100present == def.erim => "ac100" \in erim
canpresent == def.erim => "can" \in erim
xyzpresent == def.erim /\ "xyz" \in erim

(* Whether the UART type is a 1-wire one and the number is positive, and   *)
(* that number.                                                            *)
AnyValue(ks) == IF ks = {} THEN 0 ELSE Value(CHOOSE k \in ks : TRUE)
anum ==
  IF AnyValue(Get(behind + dp("uart"))) = 2 /\ ac100present
  THEN AnyValue(Get(behind + dp("anum"))) ELSE 0
ac100number == IF anum > 0 THEN anum ELSE 1
xyzcount == IF xyzpresent THEN AnyValue(Get(behind + dp("dgn"))) ELSE 0
xyznumber == IF xyzcount > 0 THEN xyzcount ELSE 1

(* slip: leaves out the repeated 1-wire devices                            *)
sentShift_OneDevice ==
  behind + (IF iospresent THEN 0 ELSE -1) + (IF ac100present THEN 0 ELSE -1)
         + (IF canpresent THEN 0 ELSE -1) + (IF xyzpresent THEN (xyznumber - 1) * 2 ELSE 0)
sentShift ==
  behind + (IF iospresent THEN 0 ELSE -1)
         + (IF ac100present THEN (ac100number - 1) * 3 ELSE -1)
         + (IF canpresent THEN 0 ELSE -1)
         + (IF xyzpresent THEN (xyznumber - 1) * 2 ELSE 0)

OneWire(f) == UNION {Get(behind + a * 3 + dp(f)) : a \in 0..(anum - 1)}
Xyz(f) == UNION {Get(behind + x * 2 + dp(f)) : x \in 0..(xyzcount - 1)}

(* The fields read once a line, whatever its number.                       *)
ReadAlways(f) ==
  CASE f = "uart" -> Get(behind + dp(f))
    [] f = "anum" -> IF AnyValue(Get(behind + dp("uart"))) = 2 /\ ac100present
                     THEN Get(behind + dp(f)) ELSE {}
    [] f \in {"adid", "adty", "adda"} -> OneWire(f)
    [] f = "can"  -> IF canpresent
                     THEN Guarded(f, behind + dp(f)
                                  + IF ac100present THEN (ac100number - 1) * 3 ELSE 0)
                     ELSE {}
    [] f = "dgn"  -> IF xyzpresent THEN Get(behind + dp(f)) ELSE {}
    [] f \in {"da", "xyz"} -> Xyz(f)

(* Those read if there is a number.                                        *)
ReadBehind(f) ==
  CASE f \in {"hmc", "aiv", "din", "dout"} -> Guarded(f, dp(f))
    [] f = "ios" -> IF iospresent THEN Guarded(f, dp(f)) ELSE {}
    [] f \in {"sent", "count"} -> Guarded(f, dp(f) + sentShift)
    [] OTHER -> Guarded(f, behind + dp(f))

Always == {"uart", "anum", "adid", "adty", "adda", "can", "dgn", "da", "xyz"}

(* The fields of a position, read in each turn of the loop.                *)
(* slip: while for do ... while                                            *)
Reps_While == num
Reps == IF num = 0 THEN 1 ELSE num
ReadBlock(f) == UNION {Get(rep * BlockLen + dp(f)) : rep \in 0..(Reps - 1)}

Columns(f) ==
  IF f \in BlockFields THEN ReadBlock(f)
  ELSE IF f \in Always THEN ReadAlways(f)
  ELSE IF num > 0 THEN ReadBehind(f)
  ELSE {}

-----------------------------------------------------------------------------
Nothing == [f \in BlockFields \cup TailFields |-> {}]

Init ==
  /\ phase = "idle" /\ def = NoDef /\ num = 0 /\ erim = {} /\ iospresent = TRUE
  /\ onewire = 1 /\ dgn = 1 /\ twos = {} /\ cols = Nothing

(* A line arrives.                                                         *)
Receive ==
  /\ phase = "idle" /\ phase' = "line"
  /\ \E d \in Defs :
       /\ def' = d
       /\ num' \in IF d.number THEN 1..MaxNum ELSE {0}
       /\ erim' \in SUBSET {p \in Part : HasPart(d, p)}
       /\ iospresent' \in IF Has(d, "ios") THEN BOOLEAN ELSE {TRUE}
       /\ onewire' \in IF Has(d, "anum") THEN 1..MaxOneWire ELSE {1}
       /\ dgn' \in IF Has(d, "dgn") THEN 1..MaxXyz ELSE {1}
  /\ twos' \in TwoSets
  /\ UNCHANGED cols

(* handle_report() reads it.                                               *)
Read ==
  /\ phase = "line" /\ phase' = "read"
  /\ cols' = [f \in BlockFields \cup TailFields |-> Columns(f)]
  /\ UNCHANGED <<def, num, erim, iospresent, onewire, dgn, twos>>

Finish ==
  /\ phase = "read" /\ phase' = "idle"
  /\ def' = NoDef /\ num' = 0 /\ erim' = {} /\ iospresent' = TRUE
  /\ onewire' = 1 /\ dgn' = 1 /\ twos' = {} /\ cols' = Nothing

Next == Receive \/ Read \/ Finish

Spec == Init /\ [][Next]_vars
-----------------------------------------------------------------------------
Done == phase = "read"
Complete == \A p \in Part : HasPart(def, p) => p \in erim

(* In each turn of the loop the fields of a position are read from their   *)
(* own column of its own block, and of every block there is (tline.c:      *)
(* 946-1203).                                                              *)
PositionsFromBlocks ==
  Done => \A f \in BlockFields : cols[f] = ColumnsOf(f)

(* An entry without uart has -1 for its column, and this one is looked at. *)
NotUart == (num - 1) * BlockLen - 1

(* The fields that are read without the offset of the blocks before them.  *)
Unshifted == {"hmc", "aiv", "ios", "din", "dout"}

(* With all its optional parts in the line, the fields behind the blocks   *)
(* are read from their own columns, whatever the numbers of positions, of  *)
(* 1-wire devices and of accelerometer data, and whether the IO status is  *)
(* there (tline.c:671-937).  Left out: the Unshifted of several positions, *)
(* for which see ReadBehindRepetitions, and ios behind optional parts;     *)
(* lines of entries without uart with a 2 where it is looked for; behind   *)
(* several 1-wire devices, the accelerometer and what is behind it.        *)
BehindBlocksFound ==
  (Done /\ num > 0 /\ Complete /\ (Has(def, "uart") \/ NotUart \notin twos)) =>
    \A f \in TailFields :
      (/\ Has(def, f)
       /\ num = 1 \/ f \notin Unshifted
       /\ ~Has(def, "anum") \/ f # "ios"
       /\ onewire = 1 \/ f \notin {"dgn", "da", "xyz"}
       /\ onewire = 1 \/ ~Has(def, "dgn") \/ f \notin {"sent", "count"})
      => cols[f] = ColumnsOf(f)

(* tline.c:765-769: the fields behind the repeated blocks are read from    *)
(* behind them.                                                            *)
ReadBehindRepetitions ==
  (Done /\ num > 0) => \A f \in Unshifted : cols[f] \subseteq ColumnsOf(f)

-----------------------------------------------------------------------------
(* The inductive invariant: the line is one a tracker of these can send,   *)
(* and what has been read is what handle_report() reads of it.             *)
Sent ==
  /\ def \in Defs
  /\ num \in (IF def.number THEN 1..MaxNum ELSE {0})
  /\ erim \subseteq {p \in Part : HasPart(def, p)}
  /\ iospresent \in (IF Has(def, "ios") THEN BOOLEAN ELSE {TRUE})
  /\ onewire \in (IF Has(def, "anum") THEN 1..MaxOneWire ELSE {1})
  /\ dgn \in (IF Has(def, "dgn") THEN 1..MaxXyz ELSE {1})
  /\ twos \subseteq Nat

IInv ==
  /\ phase \in {"idle", "line", "read"}
  /\ phase # "idle" => Sent
  /\ phase = "read" => cols = [f \in BlockFields \cup TailFields |-> Columns(f)]
=============================================================================
