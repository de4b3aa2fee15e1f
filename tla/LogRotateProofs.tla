-------------------------- MODULE LogRotateProofs --------------------------
(***************************************************************************)
(* That the log of LogRotate is a journal which is trimmed at its old end  *)
(* only, for any number of files, any size of them and any number of       *)
(* crashes.                                                                *)
(***************************************************************************)
EXTENDS LogRotate, FiniteSetTheorems, SequenceTheorems, TLAPS

-----------------------------------------------------------------------------
(* A factor more is a size more.                                           *)
LEMMA OneMore ==
  ASSUME NEW a \in Int, NEW b \in Int, NEW w \in Nat, a < b
  PROVE  a * w + w <= b * w
<1> DEFINE d == b - a - 1
<1>1. d \in Nat /\ b = a + 1 + d
  OBVIOUS
<1>2. b * w = a * w + w + d * w
  BY <1>1
<1>3. d * w \in Nat
  BY <1>1
<1>. QED  BY <1>2, <1>3

LEMMA Distribute ==
  ASSUME NEW a \in Int, NEW w \in Nat
  PROVE  a * w = (a - 1) * w + w
OBVIOUS

LEMMA NotMore ==
  ASSUME NEW a \in Int, NEW b \in Int, NEW w \in Nat, a <= b
  PROVE  a * w <= b * w
BY OneMore

(* What the types say of files and names.                                  *)
LEMMA Types ==
  ASSUME LogRotateConstants, TypeOK
  PROVE  /\ Len(lines) \in Nat /\ File = 1..Len(lines)
         /\ \A k \in 0..Slots : slot[k] \in File \cup {None}
         /\ \A f \in File : /\ lines[f] \in Seq(1..count) /\ Len(lines[f]) \in Nat
                            /\ InFile(f) \subseteq 1..count
         /\ count \in Nat /\ crashes \in Nat /\ Slots \in Nat /\ Slots >= 1 /\ Limit \in Nat
         /\ None \notin Nat
<1>1. Len(lines) \in Nat /\ File = 1..Len(lines)
  BY LenProperties DEF TypeOK, File
<1>2. \A k \in 0..Slots : slot[k] \in File \cup {None}
  BY DEF TypeOK
<1>3. count \in Nat /\ crashes \in Nat /\ Slots \in Nat /\ Slots >= 1 /\ Limit \in Nat
      /\ None \notin Nat
  BY DEF TypeOK, LogRotateConstants
<1>4. ASSUME NEW f \in File
      PROVE  /\ lines[f] \in Seq(1..count) /\ Len(lines[f]) \in Nat
             /\ InFile(f) \subseteq 1..count
  <2>1. lines[f] \in Seq(1..count)
    BY <1>1, ElementOfSeq DEF TypeOK
  <2>2. Len(lines[f]) \in Nat /\ DOMAIN lines[f] = 1..Len(lines[f])
    BY <2>1, LenProperties
  <2>3. \A i \in DOMAIN lines[f] : lines[f][i] \in 1..count
    BY <2>1, <2>2, ElementOfSeq
  <2>. QED  BY <2>1, <2>2, <2>3 DEF InFile
<1>. QED  BY <1>1, <1>2, <1>3, <1>4

LEMMA Fullness ==
  ASSUME LogRotateConstants, TypeOK
  PROVE  /\ Fresh \in Nat /\ Fresh <= Limit + 1
         /\ \A k \in 1..Slots : Files(k) \in Int
<1>1. Fresh \in Nat /\ Fresh <= Limit + 1
  <2>1. slot[0] # None => slot[0] \in File /\ Len(lines[slot[0]]) \in Nat
    BY Types
  <2>. QED  BY <2>1, Types DEF Fresh
<1>. QED  BY <1>1, Types DEF Files

(* A line of the log is in a file that has a name.                         *)
LEMMA LogElement ==
  ASSUME LogRotateConstants
  PROVE  \A x : x \in InLog <=> \E k \in 0..Slots : slot[k] # None /\ x \in InFile(slot[k])
BY DEF InLog, Named

LEMMA LogElementNext ==
  ASSUME LogRotateConstants
  PROVE  \A x : x \in InLog' <=> \E k \in 0..Slots : slot'[k] # None /\ x \in InFile(slot[k])'
BY DEF InLog, Named

LEMMA LogLines ==
  ASSUME LogRotateConstants, IInv
  PROVE  InLog \subseteq 1..count /\ count \in Nat
<1>1. /\ \A k \in 0..Slots : slot[k] \in File \cup {None}
      /\ \A g \in File : InFile(g) \subseteq 1..count
      /\ count \in Nat
  BY Types DEF IInv
<1>2. ASSUME NEW x \in InLog PROVE x \in 1..count
  <2>1. PICK k \in 0..Slots : slot[k] # None /\ x \in InFile(slot[k])
    BY LogElement
  <2>. QED  BY <1>1, <2>1
<1>. QED  BY <1>1, <1>2

-----------------------------------------------------------------------------
(* One lemma per action.                                                   *)

LEMMA InitInv == ASSUME LogRotateConstants, Init PROVE IInv
<1>1. CASE dir = "writable"
  <2>1. lines = <<>> /\ File = {} /\ \A k \in 0..Slots : slot[k] = None
    BY <1>1 DEF Init, File
  <2>2. TypeOK
    BY <1>1, <2>1 DEF Init, TypeOK, LogRotateConstants
  <2>3. Named = {} /\ InLog = {}
    BY <2>1 DEF Named, InLog
  <2>. QED  BY <1>1, <2>1, <2>2, <2>3
            DEF Init, IInv, NewestFile, InSequence, Moving, NoGap, Followed, LogRotateConstants
<1>2. CASE dir # "writable"
  <2>1. /\ lines = <<<<>>>> /\ File = {1} /\ Len(lines) = 1 /\ lines[1] = <<>>
        /\ slot[0] = 1 /\ \A k \in 1..Slots : slot[k] = None
    BY <1>2 DEF Init, File, LogRotateConstants
  <2>2. TypeOK
    <3>1. lines \in Seq(Seq(1..count))
      BY <2>1
    <3>. QED  BY <1>2, <2>1, <3>1 DEF Init, TypeOK, LogRotateConstants
  <2>3. InFile(1) = {} /\ Named \subseteq {1} /\ InLog = {}
    BY <2>1 DEF Named, InLog, InFile
  <2>. QED  BY <1>2, <2>1, <2>2, <2>3
            DEF Init, IInv, NewestFile, InSequence, Moving, NoGap, Followed, LogRotateConstants
<1>. QED  BY <1>1, <1>2

(* fopen(): a new file is the newest.                                      *)
LEMMA FopenInv == ASSUME LogRotateConstants, IInv, Fopen PROVE IInv' /\ InLog' = InLog
<1>1. /\ TypeOK /\ NewestFile /\ InSequence /\ Moving /\ NoGap /\ Followed
      /\ lpc = "fopen" /\ lpc' = "ready"
      /\ UNCHANGED <<dir, n, count, crashes>>
  BY DEF IInv, Fopen
<1>2. /\ Len(lines) \in Nat /\ File = 1..Len(lines) /\ None \notin Nat
      /\ \A k \in 0..Slots : slot[k] \in File \cup {None}
      /\ Slots \in Nat /\ Slots >= 1 /\ Limit \in Nat
  BY <1>1, Types
<1>3. Moving' /\ \A k \in 1..Slots : Files(k)' = Files(k)
  BY <1>1 DEF Moving, Files, Moved
<1>4. CASE slot[0] # None
  <2>1. logfp' = slot[0] /\ UNCHANGED <<slot, lines>>
    BY <1>4 DEF Fopen
  <2>2. File' = File /\ \A f : InFile(f)' = InFile(f)
    BY <2>1 DEF File, InFile
  <2>3. InLog' = InLog /\ Fresh' = Fresh
    BY <1>1, <2>1, <2>2 DEF InLog, Named, Fresh, Rotating
  <2>4. TypeOK' /\ NewestFile' /\ InSequence' /\ NoGap'
    BY <1>1, <1>2, <1>4, <2>1, <2>2, <2>3 DEF TypeOK, NewestFile, InSequence, NoGap
  <2>5. Followed'
    BY <1>1, <1>3, <2>1, <2>2, <2>3 DEF Followed, Rotating
  <2>. QED  BY <1>3, <2>3, <2>4, <2>5 DEF IInv
<1>5. CASE slot[0] = None
  <2>1. /\ lines' = Append(lines, <<>>) /\ logfp' = Len(lines')
        /\ slot' = [slot EXCEPT ![0] = Len(lines')]
    BY <1>5 DEF Fopen
  <2>2. <<>> \in Seq(1..count) /\ Len(<<>>) = 0
    BY EmptySeq
  <2>0. PICK new \in Nat : new = Len(lines) + 1
    BY <1>2
  <2>3. /\ lines' \in Seq(Seq(1..count)) /\ Len(lines') = new
        /\ \A f \in File : lines'[f] = lines[f]
        /\ lines'[new] = <<>>
    BY <1>1, <1>2, <2>0, <2>1, <2>2, AppendProperties DEF TypeOK
  <2>4. File' = File \cup {new} /\ new \notin File /\ new # None
        /\ \A f \in File : f < new
    <3>1. File' = 1..new
      BY <2>3, LenProperties DEF File
    <3>. QED  BY <1>2, <2>0, <3>1
  <2>5. /\ \A f \in File : InFile(f)' = InFile(f)
        /\ InFile(new)' = {}
    BY <2>3 DEF InFile
  <2>6. slot'[0] = new /\ \A k \in 1..Slots : slot'[k] = slot[k]
    BY <1>1, <1>2, <2>1, <2>3 DEF TypeOK
  <2>7. TypeOK'
    <3>1. slot' \in [0..Slots -> File' \cup {None}]
      BY <1>1, <1>2, <2>1, <2>3, <2>4 DEF TypeOK
    <3>. QED  BY <1>1, <1>2, <2>1, <2>3, <2>4, <3>1 DEF TypeOK
  <2>8. NewestFile'
    BY <1>1, <1>2, <1>5, <2>1, <2>3, <2>6 DEF NewestFile
  <2>9. InSequence'
    <3>1. \A f, g \in File' : f < g => \A x \in InFile(f)', y \in InFile(g)' : x < y
      BY <1>1, <1>2, <2>4, <2>5 DEF InSequence
    <3>2. \A k \in 1..Slots : slot'[k] # None => slot'[k] <= slot'[0]
      BY <1>2, <2>0, <2>4, <2>6
    <3>3. \A j, k \in 0..Slots :
            (j < k /\ slot'[j] # None /\ slot'[k] # None) => slot'[k] <= slot'[j]
      BY <1>1, <1>2, <2>6, <3>2 DEF InSequence
    <3>. QED  BY <3>1, <3>3 DEF InSequence
  <2>10. InLog' = InLog
    <3>1. Named' = Named \cup {new}
      BY <1>2, <1>5, <2>4, <2>6 DEF Named
    <3>2. Named \subseteq File
      BY <1>2 DEF Named
    <3>3. InLog' = UNION {InFile(f)' : f \in Named'}
      BY DEF InLog
    <3>. QED  BY <2>5, <3>1, <3>2, <3>3 DEF InLog
  <2>11. NoGap'
    BY <1>1, <2>10 DEF NoGap
  <2>12. Fresh' = 0 /\ Fresh = 0
    BY <1>1, <1>2, <1>5, <2>2, <2>3, <2>6 DEF Fresh, Rotating
  <2>13. Followed'
    <3>1. \A k \in 1..Slots : slot'[k] # None => slot[k] # None /\ InFile(slot[k])' = InFile(slot[k])
                                /\ slot'[k] # slot'[0]
      BY <1>2, <2>3, <2>4, <2>6 DEF InFile
    <3>. QED  BY <1>1, <1>3, <2>6, <2>12, <3>1 DEF Followed
  <2>. QED  BY <1>3, <2>7, <2>8, <2>9, <2>10, <2>11, <2>13 DEF IInv
<1>. QED  BY <1>4, <1>5

(* xlog(): the new line is the last of the newest file.  When that is full *)
(* it counts as one more file behind the others.                           *)
LEMMA XlogInv ==
  ASSUME LogRotateConstants, IInv, Xlog
  PROVE  IInv' /\ \E c \in Nat : c = count + 1 /\ InLog' = InLog \cup {c}
<1>1. /\ TypeOK /\ NewestFile /\ InSequence /\ Moving /\ NoGap /\ Followed
      /\ lpc = "ready" /\ count < MaxLines /\ logfp = slot[0] /\ slot[0] # None
      /\ UNCHANGED <<dir, slot, n, crashes>>
  BY DEF IInv, Xlog, NewestFile
<1>2. /\ Len(lines) \in Nat /\ File = 1..Len(lines) /\ None \notin Nat
      /\ \A k \in 0..Slots : slot[k] \in File \cup {None}
      /\ \A g \in File : InFile(g) \subseteq 1..count
      /\ Slots \in Nat /\ Slots >= 1 /\ Limit \in Nat /\ count \in Nat /\ crashes \in Nat
  BY <1>1, Types
<1>3. PICK f \in File : f = slot[0] /\ f = Len(lines)
  BY <1>1, <1>2 DEF NewestFile
<1>4. PICK c \in Nat : c = count + 1
  BY <1>2
<1>5. PICK len \in Nat : len = Len(lines[f]) /\ DOMAIN lines[f] = 1..len
                         /\ lines[f] \in Seq(1..count)
  BY <1>1, Types, LenProperties
<1>6. count' = c /\ lines' = [lines EXCEPT ![f] = Append(lines[f], c)]
  BY <1>1, <1>3, <1>4 DEF Xlog
<1>7. /\ Append(lines[f], c) \in Seq(1..c) /\ Len(Append(lines[f], c)) = len + 1
      /\ DOMAIN Append(lines[f], c) = 1..(len + 1)
      /\ \A i \in 1..len : Append(lines[f], c)[i] = lines[f][i]
      /\ Append(lines[f], c)[len + 1] = c
  <2>1. lines[f] \in Seq(1..c) /\ c \in 1..c
    BY <1>2, <1>4, <1>5, SeqMonotonic
  <2>. QED  BY <1>5, <2>1, AppendProperties, LenProperties
<1>8. lines' \in Seq(Seq(1..c)) /\ File' = File
  <2>1. Seq(1..count) \subseteq Seq(1..c)
    BY <1>2, <1>4, SeqMonotonic
  <2>2. lines \in Seq(Seq(1..c))
    BY <1>1, <2>1, SeqMonotonic DEF TypeOK
  <2>. QED  BY <1>2, <1>6, <1>7, <2>2, ExceptSeq, LenProperties DEF File
<1>9. /\ lines'[f] = Append(lines[f], c)
      /\ \A g \in File \ {f} : lines'[g] = lines[g]
      /\ Len(lines') = Len(lines)
  BY <1>2, <1>3, <1>6, <1>8, LenProperties DEF File
<1>10. /\ InFile(f)' = InFile(f) \cup {c}
       /\ \A g \in File \ {f} : InFile(g)' = InFile(g)
  BY <1>5, <1>7, <1>9 DEF InFile
<1>11. InLog' = InLog \cup {c}
  <2>1. Named' = Named /\ Named \subseteq File
    BY <1>1, <1>2 DEF Named
  <2>2. f \in Named
    <3>1. 0 \in 0..Slots /\ f = slot[0] /\ f # None
      BY <1>1, <1>2, <1>3
    <3>. QED  BY <3>1 DEF Named
  <2>3. InLog' = UNION {InFile(g)' : g \in Named'}
    BY DEF InLog
  <2>. QED  BY <1>10, <2>1, <2>2, <2>3 DEF InLog
<1>12. TypeOK'
  <2>1. /\ lpc' \in {"ready", "remove_last"} /\ logfp' \in {logfp, None}
    BY <1>1 DEF Xlog
  <2>2. c \in 0..MaxLines
    BY <1>1, <1>2, <1>4 DEF LogRotateConstants
  <2>. QED  BY <1>1, <1>6, <1>8, <2>1, <2>2 DEF TypeOK
<1>13. NewestFile' /\ Moving'
  BY <1>1, <1>2, <1>9 DEF NewestFile, Moving, Xlog
<1>14. InSequence'
  <2>1. ASSUME NEW g \in File, NEW h \in File, g < h
        PROVE  \A x \in InFile(g)', y \in InFile(h)' : x < y
    <3>1. g # f /\ InFile(g)' = InFile(g) /\ InFile(h)' \subseteq InFile(h) \cup {c}
      BY <1>2, <1>3, <1>10, <2>1
    <3>. QED  BY <1>1, <1>2, <1>4, <2>1, <3>1 DEF InSequence
  <2>2. \A g, h \in File' : g < h => \A x \in InFile(g)', y \in InFile(h)' : x < y
    BY <1>8, <2>1
  <2>. QED  BY <1>1, <2>2 DEF InSequence
<1>15. NoGap'
  <2>1. ASSUME NEW x \in InLog PROVE x..c \subseteq InLog \cup {c}
    BY <1>1, <1>2, <1>4 DEF NoGap
  <2>2. c..c \subseteq {c}
    BY <1>4
  <2>. QED  BY <1>6, <1>11, <2>1, <2>2 DEF NoGap
<1>16. /\ \A k \in 1..Slots : slot'[k] = slot[k] /\ Files(k) = k - 1 - crashes
       /\ slot'[0] = f /\ Fresh = IF len < Limit + 1 THEN len ELSE Limit + 1
  BY <1>1, <1>3, <1>5 DEF Files, Moved, Fresh, Rotating
<1>17. Followed'
  <2>1. CASE len + 1 > Limit
    <3>1. lpc' = "remove_last"
      BY <1>1, <1>3, <1>7, <1>9, <2>1 DEF Xlog
    <3>2. Fresh' = 0 /\ \A k \in 1..Slots : Files(k)' = k - crashes
      BY <1>1, <3>1 DEF Fresh, Rotating, Files, Moved
    <3>3. ASSUME NEW k \in 1..Slots, NEW g \in File, slot[k] = g
          PROVE  /\ \A x \in InFile(g)' : c - x >= (k - crashes) * (Limit + 1)
                 /\ g = f => k - crashes <= 0
      <4>1. /\ \A x \in InFile(g) : count - x >= (k - 1 - crashes) * (Limit + 1) + Fresh
            /\ g = f => k - 1 - crashes <= -1
        <5>1. slot[k] # None /\ ~Rotating
          BY <1>1, <1>2, <3>3 DEF Rotating
        <5>2. /\ \A x \in InFile(slot[k]) : count - x >= Files(k) * (Limit + 1) + Fresh
              /\ slot[k] = slot[0] => Files(k) <= -1
          BY <1>1, <5>1 DEF Followed
        <5>. QED  BY <1>3, <1>16, <3>3, <5>2
      <4>2. (k - crashes) * (Limit + 1) = (k - 1 - crashes) * (Limit + 1) + (Limit + 1)
        BY <1>2, Distribute
      <4>3. (k - crashes) * (Limit + 1) \in Int /\ (k - 1 - crashes) * (Limit + 1) \in Int
        BY <1>2
      <4>4. g = f => (k - crashes) * (Limit + 1) <= 0
        BY <1>2, <4>1, NotMore
      <4>5. \A x \in InFile(g) : c - x >= (k - crashes) * (Limit + 1)
        BY <1>2, <1>4, <1>16, <2>1, <4>1, <4>2, <4>3
      <4>. QED  BY <1>2, <1>4, <1>10, <4>1, <4>3, <4>4, <4>5
    <3>4. ASSUME NEW k \in 1..Slots, slot'[k] # None
          PROVE  /\ \A x \in InFile(slot[k])' : count' - x >= Files(k)' * (Limit + 1) + Fresh'
                 /\ slot'[k] = slot'[0] => Files(k)' <= 0
      <4>1. PICK g \in File : g = slot[k]
        BY <1>2, <1>16, <3>4
      <4>2. InFile(slot[k])' = InFile(g)'
        BY <1>16, <4>1 DEF InFile
      <4>3. Files(k)' * (Limit + 1) + Fresh' = (k - crashes) * (Limit + 1)
        BY <1>2, <3>2
      <4>. QED  BY <1>6, <1>16, <3>2, <3>3, <4>1, <4>2, <4>3
    <3>. QED  BY <3>1, <3>4 DEF Followed, Rotating
  <2>2. CASE len + 1 <= Limit
    <3>1. lpc' = "ready"
      BY <1>1, <1>2, <1>3, <1>7, <1>9, <2>2 DEF Xlog
    <3>2. Fresh' = Fresh + 1 /\ Fresh + 1 <= Limit + 1 /\ Fresh \in Nat
          /\ \A k \in 1..Slots : Files(k)' = k - 1 - crashes
      BY <1>1, <1>2, <1>3, <1>7, <1>9, <1>16, <2>2, <3>1 DEF Fresh, Rotating, Files, Moved
    <3>3. ASSUME NEW k \in 1..Slots, NEW g \in File, slot[k] = g
          PROVE  /\ \A x \in InFile(g)' :
                      c - x >= (k - 1 - crashes) * (Limit + 1) + (Fresh + 1)
                 /\ g = f => k - 1 - crashes <= -1
      <4>1. /\ \A x \in InFile(g) : count - x >= (k - 1 - crashes) * (Limit + 1) + Fresh
            /\ g = f => k - 1 - crashes <= -1
        <5>1. slot[k] # None /\ ~Rotating
          BY <1>1, <1>2, <3>3 DEF Rotating
        <5>2. /\ \A x \in InFile(slot[k]) : count - x >= Files(k) * (Limit + 1) + Fresh
              /\ slot[k] = slot[0] => Files(k) <= -1
          BY <1>1, <5>1 DEF Followed
        <5>. QED  BY <1>3, <1>16, <3>3, <5>2
      <4>2. (k - 1 - crashes) * (Limit + 1) \in Int
        BY <1>2
      <4>3. g = f => (k - 1 - crashes) * (Limit + 1) <= (-1) * (Limit + 1)
        BY <1>2, <4>1, NotMore
      <4>4. \A x \in InFile(g) : c - x >= (k - 1 - crashes) * (Limit + 1) + (Fresh + 1)
        BY <1>2, <1>4, <3>2, <4>1, <4>2
      <4>5. g = f => c - c >= (k - 1 - crashes) * (Limit + 1) + (Fresh + 1)
        BY <1>2, <1>4, <3>2, <4>2, <4>3
      <4>. QED  BY <1>10, <4>1, <4>4, <4>5
    <3>4. ASSUME NEW k \in 1..Slots, slot'[k] # None
          PROVE  /\ \A x \in InFile(slot[k])' : count' - x >= Files(k)' * (Limit + 1) + Fresh'
                 /\ slot'[k] = slot'[0] => Files(k)' <= -1
      <4>1. PICK g \in File : g = slot[k]
        BY <1>2, <1>16, <3>4
      <4>2. InFile(slot[k])' = InFile(g)'
        BY <1>16, <4>1 DEF InFile
      <4>3. Files(k)' * (Limit + 1) + Fresh' = (k - 1 - crashes) * (Limit + 1) + (Fresh + 1)
        BY <1>2, <3>2
      <4>. QED  BY <1>6, <1>16, <3>2, <3>3, <4>1, <4>2, <4>3
    <3>. QED  BY <3>1, <3>4 DEF Followed, Rotating
  <2>. QED  BY <1>2, <2>1, <2>2
<1>. QED  BY <1>4, <1>11, <1>12, <1>13, <1>14, <1>15, <1>17 DEF IInv

(* What the types and the other parts say while the files are moved.       *)
LEMMA AtRotation ==
  ASSUME LogRotateConstants, IInv, Rotating
  PROVE  /\ TypeOK /\ NewestFile /\ InSequence /\ Moving /\ NoGap /\ Followed
         /\ \A k \in 0..Slots : slot[k] \in File \cup {None}
         /\ File \subseteq Nat /\ \A g \in File : InFile(g) \subseteq 1..count
         /\ Slots \in Nat /\ Slots >= 1 /\ Limit \in Nat /\ count \in Nat /\ crashes \in Nat
         /\ n \in 0..(Slots - 1) /\ None \notin Nat /\ slot[0] # None
         /\ DOMAIN slot = 0..Slots /\ Fresh = 0
         /\ slot \in [0..Slots -> File \cup {None}]
<1>1. TypeOK /\ NewestFile /\ InSequence /\ Moving /\ NoGap /\ Followed
  BY DEF IInv
<1>. QED  BY <1>1, Types DEF TypeOK, NewestFile, Rotating, Fresh

(* The oldest file goes; the lines that are left are the newer ones.       *)
LEMMA RemoveLastInv == ASSUME LogRotateConstants, IInv, RemoveLast PROVE IInv'
<1>1. /\ lpc = "remove_last" /\ lpc' = "link" /\ n' = Slots - 1
      /\ UNCHANGED <<dir, lines, logfp, count, crashes>> /\ Rotating
  BY DEF RemoveLast, Highest, Rotating
<1>2. /\ TypeOK /\ NewestFile /\ InSequence /\ Moving /\ NoGap /\ Followed
      /\ \A k \in 0..Slots : slot[k] \in File \cup {None}
      /\ File \subseteq Nat /\ \A g \in File : InFile(g) \subseteq 1..count
      /\ Slots \in Nat /\ Slots >= 1 /\ Limit \in Nat /\ count \in Nat /\ crashes \in Nat
      /\ None \notin Nat /\ slot[0] # None
      /\ DOMAIN slot = 0..Slots /\ Fresh = 0
      /\ slot \in [0..Slots -> File \cup {None}]
  BY <1>1, AtRotation
<1>3. slot'[Slots] = None /\ \A k \in 0..(Slots - 1) : slot'[k] = slot[k]
  BY <1>2 DEF RemoveLast, Removed, NewestFile
<1>4. File' = File /\ \A g : InFile(g)' = InFile(g)
  BY <1>1 DEF File, InFile
<1>5. TypeOK'
  <2>1. slot' \in [0..Slots -> File' \cup {None}]
    BY <1>2, <1>4 DEF RemoveLast, Removed
  <2>2. n' \in 0..(Slots - 1)
    BY <1>1, <1>2
  <2>. QED  BY <1>1, <1>2, <1>4, <2>1, <2>2 DEF TypeOK
<1>6. NewestFile' /\ InSequence' /\ Moving'
  <2>1. NewestFile'
    BY <1>1, <1>2, <1>3 DEF NewestFile
  <2>2. InSequence'
    BY <1>2, <1>3, <1>4 DEF InSequence
  <2>3. Moving'
    <3>1. n' + 1 = Slots
      BY <1>1, <1>2
    <3>. QED  BY <1>1, <1>3, <3>1 DEF Moving
  <2>. QED  BY <2>1, <2>2, <2>3
<1>7. NoGap'
  <2>1. ASSUME NEW x \in InLog', NEW y \in x..count PROVE y \in InLog'
    <3>1. PICK j \in 0..(Slots - 1) : slot[j] # None /\ x \in InFile(slot[j]) /\ slot[j] \in File
      BY <1>2, <1>3, <1>4, LogElement, LogElementNext
    <3>2. x \in InLog /\ y \in InLog /\ x \in Nat /\ y \in Nat /\ x <= y
      <4>1. x \in InLog /\ x \in 1..count
        <5>1. j \in 0..Slots
          BY <1>2
        <5>. QED  BY <1>2, <3>1, <5>1, LogElement
      <4>. QED  BY <1>2, <4>1 DEF NoGap
    <3>3. PICK k \in 0..Slots : slot[k] # None /\ y \in InFile(slot[k]) /\ slot[k] \in File
      BY <1>2, <3>2, LogElement
    <3>4. CASE k # Slots
      BY <1>2, <1>3, <1>4, <3>3, <3>4, LogElementNext
    <3>5. CASE k = Slots
      <4>1. slot[k] <= slot[j]
        BY <1>2, <3>1, <3>3, <3>5 DEF InSequence
      <4>2. slot[k] < slot[j] => y < x
        BY <1>2, <3>1, <3>3 DEF InSequence
      <4>3. slot[k] \in Nat /\ slot[j] \in Nat
        BY <1>2, <3>1, <3>3
      <4>4. slot[k] = slot[j]
        BY <3>2, <4>1, <4>2, <4>3
      <4>. QED  BY <1>2, <1>3, <1>4, <3>1, <3>3, <4>4, LogElementNext
    <3>. QED  BY <3>4, <3>5
  <2>. QED  BY <1>1, <2>1 DEF NoGap
<1>8. Followed'
  <2>1. Fresh' = 0 /\ Rotating' /\ Rotating
    BY <1>1 DEF Fresh, Rotating
  <2>2. ASSUME NEW k \in 1..Slots, slot'[k] # None
        PROVE  /\ \A x \in InFile(slot[k])' : count' - x >= Files(k)' * (Limit + 1) + Fresh'
               /\ slot'[k] = slot'[0] => Files(k)' <= 0
    <3>1. k # Slots /\ slot'[k] = slot[k] /\ slot'[0] = slot[0]
      BY <1>2, <1>3, <2>2
    <3>2. Files(k)' = Files(k)
      BY <1>1, <1>2, <3>1 DEF Files, Moved
    <3>3. InFile(slot[k])' = InFile(slot[k])
      BY <1>1, <3>1 DEF InFile
    <3>. QED  BY <1>1, <1>2, <2>1, <2>2, <3>1, <3>2, <3>3 DEF Followed
  <2>. QED  BY <2>1, <2>2 DEF Followed
<1>. QED  BY <1>5, <1>6, <1>7, <1>8 DEF IInv

(* While a file has two names, both are names of its lines.                *)
LEMMA LinkInv == ASSUME LogRotateConstants, IInv, Link PROVE IInv' /\ InLog' = InLog
<1>1. /\ lpc = "link" /\ lpc' = "remove" /\ Rotating /\ Rotating'
      /\ UNCHANGED <<dir, lines, logfp, n, count, crashes>>
  BY DEF Link, Rotating
<1>2. /\ TypeOK /\ NewestFile /\ InSequence /\ Moving /\ NoGap /\ Followed
      /\ \A k \in 0..Slots : slot[k] \in File \cup {None}
      /\ File \subseteq Nat /\ \A g \in File : InFile(g) \subseteq 1..count
      /\ Slots \in Nat /\ Slots >= 1 /\ Limit \in Nat /\ count \in Nat /\ crashes \in Nat
      /\ n \in 0..(Slots - 1) /\ None \notin Nat /\ slot[0] # None
      /\ DOMAIN slot = 0..Slots /\ Fresh = 0
      /\ slot \in [0..Slots -> File \cup {None}]
  BY <1>1, AtRotation
<1>3. File' = File /\ (\A g : InFile(g)' = InFile(g)) /\ Fresh' = 0
      /\ \A k \in 1..Slots : Files(k)' = Files(k)
  BY <1>1 DEF File, InFile, Fresh, Files, Moved
<1>4. CASE dir # "writable"
  <2>1. slot' = slot
    BY <1>4 DEF Link
  <2>2. TypeOK' /\ NewestFile' /\ InSequence' /\ Moving'
    BY <1>1, <1>2, <1>3, <1>4, <2>1 DEF TypeOK, NewestFile, InSequence, Moving
  <2>3. InLog' = InLog
    BY <1>1, <2>1 DEF InLog, Named, InFile
  <2>4. NoGap'
    BY <1>1, <1>2, <2>3 DEF NoGap
  <2>5. Followed'
    BY <1>1, <1>2, <1>4, <2>1 DEF Followed, NewestFile
  <2>. QED  BY <2>2, <2>3, <2>4, <2>5 DEF IInv
<1>5. CASE dir = "writable"
  <2>1. n + 1 \in 1..Slots /\ n \in 0..Slots /\ slot[n + 1] = None
    BY <1>1, <1>2, <1>5 DEF Moving
  <2>2. slot' = [slot EXCEPT ![n + 1] = slot[n]]
    BY <1>5, <2>1 DEF Link
  <2>3. /\ slot'[n + 1] = slot[n] /\ slot'[n] = slot[n] /\ slot'[0] = slot[0]
        /\ \A k \in 0..Slots : k # n + 1 => slot'[k] = slot[k]
    BY <1>2, <2>1, <2>2
  <2>4. TypeOK'
    <3>1. slot' \in [0..Slots -> File' \cup {None}]
      BY <1>2, <1>3, <2>1, <2>2
    <3>. QED  BY <1>1, <1>2, <1>3, <3>1 DEF TypeOK
  <2>5. NewestFile' /\ Moving'
    BY <1>1, <1>2, <1>5, <2>3 DEF NewestFile, Moving
  <2>6. InSequence'
    <3>1. ASSUME NEW j \in 0..Slots, NEW k \in 0..Slots, j < k, slot'[j] # None, slot'[k] # None
          PROVE  slot'[k] <= slot'[j]
      <4>1. CASE k = n + 1
        <5>1. j = n \/ j < n
          BY <1>2, <3>1, <4>1
        <5>2. slot[n] \in Nat
          BY <1>2, <2>1, <2>3, <3>1, <4>1
        <5>. QED  BY <1>2, <2>1, <2>3, <3>1, <4>1, <5>1, <5>2 DEF InSequence
      <4>2. CASE j = n + 1
        <5>1. n < k /\ k # n + 1
          BY <1>2, <3>1, <4>2
        <5>. QED  BY <1>2, <2>1, <2>3, <3>1, <4>2, <5>1 DEF InSequence
      <4>3. CASE j # n + 1 /\ k # n + 1
        BY <1>2, <2>3, <3>1, <4>3 DEF InSequence
      <4>. QED  BY <4>1, <4>2, <4>3
    <3>. QED  BY <1>2, <1>3, <3>1 DEF InSequence
  <2>7. InLog' = InLog
    <3>1. Named' = Named
      <4>1. \A x : x \in Named <=> \E k \in 0..Slots : x = slot[k] /\ x # None
        BY DEF Named
      <4>2. \A x : x \in Named' <=> \E k \in 0..Slots : x = slot'[k] /\ x # None
        BY DEF Named
      <4>3. \A x \in Named : x \in Named'
        BY <2>1, <2>3, <4>1, <4>2
      <4>4. \A x \in Named' : x \in Named
        BY <2>1, <2>3, <4>1, <4>2
      <4>. QED  BY <4>3, <4>4
    <3>. QED  BY <1>1, <3>1 DEF InLog, InFile
  <2>8. NoGap'
    BY <1>1, <1>2, <2>7 DEF NoGap
  <2>9. ASSUME NEW k \in 1..Slots, slot'[k] # None
        PROVE  /\ \A x \in InFile(slot[k])' : count - x >= Files(k) * (Limit + 1)
               /\ slot'[k] = slot'[0] => Files(k) <= 0
    <3>1. CASE k # n + 1
      <4>1. slot'[k] = slot[k] /\ InFile(slot[k])' = InFile(slot[k])
        BY <1>1, <2>3, <3>1 DEF InFile
      <4>2. Files(k) * (Limit + 1) \in Int
        BY <1>2, Fullness
      <4>. QED  BY <1>1, <1>2, <2>3, <2>9, <4>1, <4>2 DEF Followed
    <3>2. CASE k = n + 1 /\ n # 0
      <4>1. slot'[k] = slot[n] /\ InFile(slot[k])' = InFile(slot[n]) /\ n \in 1..Slots
        BY <1>1, <1>2, <2>3, <3>2 DEF InFile
      <4>2. Files(k) = Files(n)
        BY <1>1, <1>2, <3>2 DEF Files, Moved
      <4>3. Files(n) * (Limit + 1) \in Int
        BY <1>2, <4>1, Fullness
      <4>. QED  BY <1>1, <1>2, <2>3, <2>9, <4>1, <4>2, <4>3 DEF Followed
    <3>3. CASE k = n + 1 /\ n = 0
      <4>1. InFile(slot[k])' = InFile(slot[0]) /\ slot[0] \in File
        BY <1>1, <1>2, <2>3, <3>3 DEF InFile
      <4>2. Files(k) = 0 - crashes
        BY <1>1, <1>2, <3>3 DEF Files, Moved
      <4>3. Files(k) * (Limit + 1) <= 0 * (Limit + 1) /\ 0 * (Limit + 1) = 0
            /\ Files(k) * (Limit + 1) \in Int
        BY <1>2, <4>2, NotMore
      <4>4. \A x \in InFile(slot[0]) : x \in 1..count
        BY <1>2, <4>1
      <4>. QED  BY <1>2, <4>1, <4>2, <4>3, <4>4
    <3>. QED  BY <3>1, <3>2, <3>3
  <2>10. Followed'
    <3>1. \A k \in 1..Slots : Files(k) * (Limit + 1) + 0 = Files(k) * (Limit + 1)
      BY <1>2, Fullness
    <3>. QED  BY <1>1, <1>3, <2>9, <3>1 DEF Followed
  <2>. QED  BY <2>4, <2>5, <2>6, <2>7, <2>8, <2>10 DEF IInv
<1>. QED  BY <1>4, <1>5

(* The name that goes is not the only one of its file; and after the       *)
(* logfile's has gone, the next is a new file.                             *)
LEMMA RemoveInv == ASSUME LogRotateConstants, IInv, Remove PROVE IInv' /\ InLog' = InLog
<1>1. /\ lpc = "remove" /\ Rotating
      /\ UNCHANGED <<dir, lines, logfp, count, crashes>>
      /\ n = 0 => lpc' = "fopen" /\ n' = n
      /\ n # 0 => lpc' = "link" /\ n' = n - 1
  BY DEF Remove, Rotating
<1>2. /\ TypeOK /\ NewestFile /\ InSequence /\ Moving /\ NoGap /\ Followed
      /\ \A k \in 0..Slots : slot[k] \in File \cup {None}
      /\ File \subseteq Nat /\ \A g \in File : InFile(g) \subseteq 1..count
      /\ Slots \in Nat /\ Slots >= 1 /\ Limit \in Nat /\ count \in Nat /\ crashes \in Nat
      /\ n \in 0..(Slots - 1) /\ None \notin Nat /\ slot[0] # None
      /\ DOMAIN slot = 0..Slots /\ Fresh = 0
      /\ slot \in [0..Slots -> File \cup {None}]
  BY <1>1, AtRotation
<1>3. File' = File /\ \A g : InFile(g)' = InFile(g)
  BY <1>1 DEF File, InFile
<1>4. /\ dir = "writable" => slot' = [slot EXCEPT ![n] = None]
      /\ dir # "writable" => slot' = slot /\ \A k \in 1..Slots : slot[k] = None
  BY <1>2 DEF Remove, Removed, NewestFile
<1>5. /\ n \in 0..Slots /\ n + 1 \in 1..Slots
      /\ \A k \in 0..Slots : k # n => slot'[k] = slot[k]
      /\ dir = "writable" \/ n # 0 => slot'[n] = None
  BY <1>2, <1>4
<1>6. TypeOK'
  <2>1. slot' \in [0..Slots -> File' \cup {None}]
    BY <1>2, <1>3, <1>4
  <2>2. n' \in 0..(Slots - 1) /\ lpc' \in {"fopen", "link"}
    BY <1>1, <1>2
  <2>. QED  BY <1>1, <1>2, <1>3, <2>1, <2>2 DEF TypeOK
<1>7. NewestFile' /\ InSequence' /\ Moving'
  <2>1. slot'[0] \in {None, slot[0]} /\ (lpc' # "fopen" => slot'[0] # None)
    <3>1. 0 \in 0..Slots
      BY <1>2
    <3>2. n # 0 => slot'[0] = slot[0]
      BY <1>5, <3>1
    <3>. QED  BY <1>1, <1>2, <1>4, <1>5, <3>2
  <2>2. NewestFile'
    BY <1>1, <1>2, <1>4, <2>1 DEF NewestFile
  <2>3. InSequence'
    BY <1>2, <1>3, <1>4, <1>5 DEF InSequence
  <2>4. Moving'
    <3>1. n # 0 => n' + 1 = n
      BY <1>1, <1>2
    <3>. QED  BY <1>1, <1>5, <3>1 DEF Moving
  <2>. QED  BY <2>2, <2>3, <2>4
<1>8. InLog' = InLog
  <2>1. CASE dir = "writable"
    <3>1. slot[n] # None => slot[n + 1] = slot[n] /\ slot'[n + 1] = slot[n]
      BY <1>1, <1>2, <1>5, <2>1 DEF Moving
    <3>2. Named' = Named
      <4>1. \A x : x \in Named <=> \E k \in 0..Slots : x = slot[k] /\ x # None
        BY DEF Named
      <4>2. \A x : x \in Named' <=> \E k \in 0..Slots : x = slot'[k] /\ x # None
        BY DEF Named
      <4>3. \A x \in Named : x \in Named'
        BY <1>5, <3>1, <4>1, <4>2
      <4>4. \A x \in Named' : x \in Named
        BY <1>5, <2>1, <4>1, <4>2
      <4>. QED  BY <4>3, <4>4
    <3>. QED  BY <1>1, <3>2 DEF InLog, InFile
  <2>2. CASE dir # "writable"
    BY <1>1, <1>4, <2>2 DEF InLog, Named, InFile
  <2>. QED  BY <2>1, <2>2
<1>9. NoGap'
  BY <1>1, <1>2, <1>8 DEF NoGap
<1>10. ASSUME NEW k \in 1..Slots, slot'[k] # None
       PROVE  /\ \A x \in InFile(slot[k])' : count - x >= Files(k)' * (Limit + 1) + Fresh'
              /\ slot'[k] # slot'[0] \/ (Rotating' /\ Files(k)' <= 0)
  <2>1. dir = "writable" /\ k # n /\ slot'[k] = slot[k] /\ slot[k] # None
    BY <1>4, <1>5, <1>10
  <2>2. slot'[0] = None => slot'[k] # slot'[0]
    BY <1>10
  <2>3. n = 0 => slot'[0] = None
    BY <1>5, <2>1
  <2>4. Fresh' = 0
    BY <1>1, <2>3 DEF Fresh, Rotating
  <2>5. n # 0 => Rotating' /\ slot'[0] = slot[0]
    BY <1>1, <1>2, <1>5 DEF Rotating
  <2>6. Files(k)' = Files(k)
    BY <1>1, <1>2, <2>1 DEF Files, Moved
  <2>7. InFile(slot[k])' = InFile(slot[k])
    BY <1>1, <2>1 DEF InFile
  <2>8. Files(k) * (Limit + 1) \in Int
    BY <1>2, Fullness
  <2>. QED  BY <1>1, <1>2, <2>1, <2>2, <2>3, <2>4, <2>5, <2>6, <2>7, <2>8 DEF Followed
<1>11. Followed'
  BY <1>1, <1>10 DEF Followed
<1>. QED  BY <1>6, <1>7, <1>8, <1>9, <1>11 DEF IInv

(* A crash: what has been moved stays where it is, so a full file may be   *)
(* counted once less.                                                      *)
LEMMA CrashInv == ASSUME LogRotateConstants, IInv, Crash PROVE IInv' /\ InLog' = InLog
<1>1. /\ TypeOK /\ NewestFile /\ InSequence /\ Moving /\ NoGap /\ Followed
      /\ crashes < MaxCrashes /\ crashes' = crashes + 1
      /\ lpc' = "fopen" /\ logfp' = None /\ n' = 0 /\ UNCHANGED <<dir, slot, lines, count>>
  BY DEF IInv, Crash, CrashLog
<1>2. /\ \A k \in 0..Slots : slot[k] \in File \cup {None}
      /\ \A g \in File : InFile(g) \subseteq 1..count
      /\ slot[0] \in File => Len(lines[slot[0]]) \in Nat
      /\ Slots \in Nat /\ Slots >= 1 /\ Limit \in Nat /\ count \in Nat /\ crashes \in Nat
  BY <1>1, Types
<1>3. File' = File /\ (\A g : InFile(g)' = InFile(g)) /\ InLog' = InLog
  BY <1>1 DEF File, InFile, InLog, Named
<1>4. TypeOK'
  BY <1>1, <1>2, <1>3 DEF TypeOK, LogRotateConstants
<1>5. NewestFile' /\ InSequence' /\ Moving' /\ NoGap'
  BY <1>1, <1>3 DEF NewestFile, InSequence, Moving, NoGap
<1>6. Fresh' \in Nat /\ Fresh' <= Limit + 1 /\ Fresh \in Nat
  <2>1. Fresh \in Nat
    BY <1>1, Fullness
  <2>2. slot[0] # None => Len(lines[slot[0]]) \in Nat
    BY <1>2
  <2>. QED  BY <1>1, <1>2, <2>1, <2>2 DEF Fresh
<1>7. ASSUME NEW k \in 1..Slots, slot'[k] # None
      PROVE  /\ \A x \in InFile(slot[k])' : count - x >= Files(k)' * (Limit + 1) + Fresh'
             /\ slot'[k] = slot'[0] => Files(k)' <= -1
  <2>1. slot[k] # None /\ InFile(slot[k])' = InFile(slot[k])
        /\ \A x \in InFile(slot[k]) : x \in Nat
    <3>1. slot[k] # None /\ InFile(slot[k])' = InFile(slot[k])
      BY <1>1, <1>7 DEF InFile
    <3>2. slot[k] \in File
      BY <1>2, <3>1
    <3>. QED  BY <1>2, <3>1, <3>2
  <2>2. Files(k) \in Int /\ Files(k)' \in Int /\ Files(k)' < Files(k)
    BY <1>1, <1>2 DEF Files, Moved
  <2>3. Files(k)' * (Limit + 1) + (Limit + 1) <= Files(k) * (Limit + 1)
    BY <1>2, <2>2, OneMore
  <2>4. Files(k)' * (Limit + 1) \in Int /\ Files(k) * (Limit + 1) \in Int
    BY <1>2, <2>2
  <2>5. /\ \A x \in InFile(slot[k]) : count - x >= Files(k) * (Limit + 1) + Fresh
        /\ slot[k] = slot[0] => Files(k) <= 0
    BY <1>1, <2>1, <2>2 DEF Followed
  <2>6. \A x \in InFile(slot[k]) : count - x >= Files(k)' * (Limit + 1) + Fresh'
    BY <1>2, <1>6, <2>1, <2>3, <2>4, <2>5
  <2>. QED  BY <1>1, <2>1, <2>2, <2>5, <2>6
<1>8. Followed'
  BY <1>1, <1>7 DEF Followed, Rotating
<1>. QED  BY <1>3, <1>4, <1>5, <1>8 DEF IInv

-----------------------------------------------------------------------------
LEMMA NextInv == ASSUME LogRotateConstants PROVE IInv /\ [Next]_logVars => IInv'
<1> SUFFICES ASSUME IInv, [Next]_logVars PROVE IInv'
  OBVIOUS
<1>1. CASE Fopen       BY <1>1, FopenInv
<1>2. CASE Xlog        BY <1>2, XlogInv
<1>3. CASE RemoveLast  BY <1>3, RemoveLastInv
<1>4. CASE Link        BY <1>4, LinkInv
<1>5. CASE Remove      BY <1>5, RemoveInv
<1>6. CASE Crash       BY <1>6, CrashInv
<1>7. CASE UNCHANGED logVars
  <2>1. TypeOK' /\ NewestFile' /\ InSequence' /\ Moving'
    BY <1>7 DEF IInv, logVars, TypeOK, NewestFile, InSequence, Moving, File, InFile
  <2>2. NoGap'
    BY <1>7 DEF IInv, logVars, NoGap, InLog, Named, InFile
  <2>3. Followed'
    BY <1>7 DEF IInv, logVars, Followed, Files, Moved, Fresh, Rotating, InFile
  <2>. QED  BY <2>1, <2>2, <2>3 DEF IInv
<1>. QED  BY <1>1, <1>2, <1>3, <1>4, <1>5, <1>6, <1>7 DEF Next, LogNext

(* The files of the log are in order, the logfile is the newest, and what  *)
(* is left of the log has no gap (util.c:192-210), with any number of      *)
(* crashes between the steps of a rotation.                                *)
THEOREM Invariant == ASSUME LogRotateConstants PROVE Spec => []IInv
<1>1. Init => IInv
  BY InitInv
<1>2. IInv /\ [Next]_logVars => IInv'
  BY NextInv
<1>. QED  BY <1>1, <1>2, PTL DEF Spec

(* A line is added at the end.                                             *)
LEMMA XlogAppends == ASSUME LogRotateConstants, IInv, Xlog PROVE J!Append
<1>1. PICK c \in Nat : c = count + 1 /\ InLog' = InLog \cup {c}
  BY XlogInv
<1>2. \A e \in InLog : e < c
  <2>1. InLog \subseteq 1..count /\ count \in Nat
    BY LogLines
  <2>. QED  BY <1>1, <2>1
<1>. QED  BY <1>1, <1>2 DEF J!Append

(* Only the oldest lines are removed, and the files that are left have     *)
(* KeptLines of them at least.                                             *)
LEMMA RemoveLastTrims ==
  ASSUME LogRotateConstants, IInv, RemoveLast
  PROVE  J!Trim \/ InLog' = InLog
<1> SUFFICES ASSUME InLog' # InLog PROVE J!Trim
  OBVIOUS
<1>1. /\ TypeOK /\ NewestFile /\ NoGap /\ Followed /\ NoGap' /\ count' = count
      /\ lpc = "remove_last" /\ Rotating /\ lines' = lines
  BY RemoveLastInv DEF IInv, RemoveLast, Rotating
<1>2. /\ \A k \in 0..Slots : slot[k] \in File \cup {None}
      /\ \A g \in File : InFile(g) \subseteq 1..count
      /\ Slots \in Nat /\ Slots >= 1 /\ Limit \in Nat /\ count \in Nat /\ crashes \in Nat
      /\ None \notin Nat /\ Fresh = 0 /\ DOMAIN slot = 0..Slots
  BY <1>1, AtRotation
<1>3. slot'[Slots] \in {None, slot[Slots]} /\ \A k \in 0..(Slots - 1) : slot'[k] = slot[k]
  BY <1>2 DEF RemoveLast, Removed
<1>4. InLog \subseteq 1..count
  BY LogLines
<1>5. \A k \in 0..Slots : slot'[k] # None => slot[k] # None /\ InFile(slot[k])' = InFile(slot[k])
  <2>1. \A k \in 0..Slots : k = Slots \/ k \in 0..(Slots - 1)
    BY <1>2
  <2>2. \A k \in 0..Slots : slot'[k] # None => slot'[k] = slot[k]
    BY <1>3, <2>1
  <2>. QED  BY <1>1, <2>2 DEF InFile
<1>6. InLog' \subseteq InLog
  BY <1>5, LogElement, LogElementNext
<1>7. \A r \in InLog \ InLog' : slot[Slots] # None /\ r \in InFile(slot[Slots])
  <2>1. ASSUME NEW r \in InLog, r \notin InLog'
        PROVE  slot[Slots] # None /\ r \in InFile(slot[Slots])
    <3>1. PICK k \in 0..Slots : slot[k] # None /\ r \in InFile(slot[k])
      BY LogElement
    <3>2. k = Slots
      <4>1. SUFFICES ASSUME k # Slots PROVE FALSE
        OBVIOUS
      <4>2. slot'[k] = slot[k]
        BY <1>2, <1>3, <4>1
      <4>3. InFile(slot[k])' = InFile(slot[k])
        BY <1>1, <4>2 DEF InFile
      <4>. QED  BY <2>1, <3>1, <4>2, <4>3, LogElementNext
    <3>. QED  BY <3>1, <3>2
  <2>. QED  BY <2>1
<1>8. \A e \in InLog \ InLog', k \in InLog' : e < k
  <2>1. ASSUME NEW e \in InLog \ InLog', NEW k \in InLog' PROVE e < k
    <3>1. k..count \subseteq InLog'
      BY <1>1 DEF NoGap
    <3>. QED  BY <1>4, <1>6, <3>1
  <2>. QED  BY <2>1
<1>9. PICK m \in Int : m = (Slots - crashes) * (Limit + 1)
  BY <1>2
<1>10. \A r \in InLog \ InLog' : count - r >= m
  <2>1. Files(Slots) = Slots - crashes
    BY <1>1 DEF Files, Moved, Rotating
  <2>2. slot[Slots] # None =>
          \A x \in InFile(slot[Slots]) : count - x >= Files(Slots) * (Limit + 1) + Fresh
    BY <1>1, <1>2 DEF Followed
  <2>3. slot[Slots] # None => \A x \in InFile(slot[Slots]) : count - x >= m
    BY <1>2, <1>9, <2>1, <2>2
  <2>. QED  BY <1>7, <2>3
<1>11. (count - m + 1)..count \subseteq InLog'
  <2>1. PICK r : r \in InLog /\ r \notin InLog'
    BY <1>6
  <2>2. r..count \subseteq InLog /\ r \in 1..count /\ r <= count - m
    BY <1>1, <1>2, <1>4, <1>9, <1>10, <2>1 DEF NoGap
  <2>3. ASSUME NEW y \in (count - m + 1)..count PROVE y \in InLog'
    <3>1. y \in r..count /\ ~(count - y >= m)
      BY <1>2, <1>9, <2>2
    <3>. QED  BY <1>10, <2>2, <3>1
  <2>. QED  BY <2>3
<1>12. IsFiniteSet(InLog') /\ Cardinality(InLog') \in Nat /\ Cardinality(InLog') >= m
  <2>1. IsFiniteSet(1..count)
    BY <1>2, FS_Interval
  <2>2. IsFiniteSet(InLog') /\ Cardinality(InLog') \in Nat
    BY <1>4, <1>6, <2>1, FS_Subset, FS_CardinalityType
  <2>3. CASE m <= 0
    BY <1>9, <2>2, <2>3
  <2>4. CASE m > 0
    <3>1. Cardinality((count - m + 1)..count) = m
      <4>1. PICK a \in Int : a = count - m + 1
        BY <1>2, <1>9
      <4>2. a <= count /\ count - a + 1 = m
        BY <1>2, <1>9, <2>4, <4>1
      <4>. QED  BY <1>2, <4>1, <4>2, FS_Interval
    <3>2. Cardinality((count - m + 1)..count) <= Cardinality(InLog')
      BY <1>11, <2>2, FS_Subset
    <3>. QED  BY <1>9, <2>2, <3>1, <3>2
  <2>. QED  BY <1>9, <2>3, <2>4
<1>13. KeptLines <= m /\ KeptLines \in Int
  <2>1. crashes <= MaxCrashes /\ MaxCrashes \in Nat
    BY <1>1, <1>2 DEF TypeOK, LogRotateConstants
  <2>2. Slots - MaxCrashes <= Slots - crashes /\ Slots - MaxCrashes \in Int
        /\ Slots - crashes \in Int
    BY <1>2, <2>1
  <2>3. (Slots - MaxCrashes) * (Limit + 1) <= (Slots - crashes) * (Limit + 1)
        /\ (Slots - MaxCrashes) * (Limit + 1) \in Int
    BY <1>2, <2>2, NotMore
  <2>. QED  BY <1>9, <2>3 DEF KeptLines
<1>14. Cardinality(InLog') >= KeptLines
  BY <1>9, <1>12, <1>13
<1>15. J!Cardinality(InLog') = Cardinality(InLog')
  BY DEF J!Cardinality, Cardinality
<1>. QED  BY <1>6, <1>8, <1>14, <1>15 DEF J!Trim

LEMMA InitIsJournal == ASSUME LogRotateConstants, Init PROVE J!Init
<1>1. \A k \in 0..Slots : slot[k] # None => slot[k] = 1 /\ lines = <<<<>>>>
  BY DEF Init
<1>2. InLog = {}
  BY <1>1, LogElement DEF InFile
<1>. QED  BY <1>2 DEF J!Init

(* The log loses its oldest lines only, and not more than one file for     *)
(* each crash beyond those that a rotation drops (util.c:192-210).         *)
THEOREM LogJournal == ASSUME LogRotateConstants PROVE Spec => LogIsJournal
<1>1. Init => J!Init
  BY InitIsJournal
<1>2. IInv /\ [Next]_logVars => [J!Append \/ J!Trim]_InLog
  <2> SUFFICES ASSUME IInv, [Next]_logVars PROVE [J!Append \/ J!Trim]_InLog
    OBVIOUS
  <2>1. CASE Fopen       BY <2>1, FopenInv
  <2>2. CASE Xlog        BY <2>2, XlogAppends
  <2>3. CASE RemoveLast  BY <2>3, RemoveLastTrims
  <2>4. CASE Link        BY <2>4, LinkInv
  <2>5. CASE Remove      BY <2>5, RemoveInv
  <2>6. CASE Crash       BY <2>6, CrashInv
  <2>7. CASE UNCHANGED logVars
    BY <2>7 DEF logVars, InLog, Named, InFile
  <2>. QED  BY <2>1, <2>2, <2>3, <2>4, <2>5, <2>6, <2>7 DEF Next, LogNext
<1>. QED  BY <1>1, <1>2, Invariant, PTL DEF Spec, LogIsJournal, J!Spec
=============================================================================
