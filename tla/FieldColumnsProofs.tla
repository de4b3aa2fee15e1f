------------------------- MODULE FieldColumnsProofs -------------------------
(***************************************************************************)
(* handle_report() finds the columns of a line, for every entry that keeps *)
(* to the layout and any numbers of positions, of 1-wire devices and of    *)
(* sets of accelerometer data.                                             *)
(***************************************************************************)
EXTENDS FieldColumns, SequenceTheorems, WellFoundedInduction, TLAPS

-----------------------------------------------------------------------------
(* Sequences put together from pieces.                                     *)

(* What holds at 0 and passes from each number to the next.                *)
LEMMA Steps ==
  ASSUME NEW n \in Nat, NEW P, 0 \in P, \A k \in 1..n : k - 1 \in P => k \in P
  PROVE  \A k \in 0..n : k \in P
<1> DEFINE E == (0..n) \ P
<1>1. SUFFICES ASSUME E # {} PROVE FALSE
  OBVIOUS
<1>2. E \subseteq Nat
  OBVIOUS
<1>3. PICK k \in E : \A m \in E : ~ (<<m, k>> \in OpToRel(<, Nat))
  BY <1>1, <1>2, NatLessThanWellFounded, WFMin
<1>4. \A m \in E : ~ (m < k)
  BY <1>2, <1>3 DEF OpToRel
<1>5. k # 0 /\ k - 1 \in 0..n /\ k \in 1..n
  OBVIOUS
<1>. QED  BY <1>4, <1>5

(* g[k] is the first k pieces of s joined.                                 *)
Joined(s, g) ==
  /\ g[0] = <<>>
  /\ \A k \in 1..Len(s) : g[k] = g[k - 1] \o s[k]

(* FlattenSeq joins the pieces one by one.                                 *)
LEMMA Flattened ==
  ASSUME NEW S, NEW s \in Seq(Seq(S))
  PROVE  \E g \in [0..Len(s) -> Seq(S)] : Joined(s, g) /\ FlattenSeq(s) = g[Len(s)]
<1> DEFINE n == Len(s)
           step(h, i) == IF i = 1 THEN s[i] ELSE h[i - 1] \o s[i]
           flatten[i \in 1..n] == IF i = 1 THEN s[i] ELSE flatten[i - 1] \o s[i]
<1>1. n \in Nat /\ \A i \in 1..n : s[i] \in Seq(S)
  BY LenProperties, ElementOfSeq
<1>2. CASE n = 0
  <2>1. FlattenSeq(s) = <<>>
    BY <1>2, EmptySeq DEF FlattenSeq
  <2> DEFINE g == [k \in 0..n |-> <<>>]
  <2>2. g \in [0..n -> Seq(S)] /\ g[0] = <<>> /\ g[n] = <<>>
    BY <1>2, EmptySeq
  <2>3. Joined(s, g)
    BY <1>2, <2>2 DEF Joined
  <2>. HIDE DEF g
  <2>. QED  BY <2>1, <2>2, <2>3
<1>3. CASE n # 0
  <2> DEFINE P == {m \in Nat : \E h \in [1..m -> Seq(S)] : \A i \in 1..m : h[i] = step(h, i)}
  <2>1. 0 \in P
    <3>1. [i \in 1..0 |-> <<>>] \in [1..0 -> Seq(S)] /\ 1..0 = {}
      OBVIOUS
    <3>. QED  BY <3>1
  <2>2. ASSUME NEW k \in 1..n, k - 1 \in P PROVE k \in P
    <3>1. PICK h \in [1..(k - 1) -> Seq(S)] : \A i \in 1..(k - 1) : h[i] = step(h, i)
      BY <2>2
    <3> DEFINE x == step(h, k)
               j == [i \in 1..k |-> IF i = k THEN x ELSE h[i]]
    <3>2. x \in Seq(S)
      <4>1. CASE k = 1
        BY <1>1, <4>1
      <4>2. CASE k # 1
        <5>1. h[k - 1] \in Seq(S) /\ s[k] \in Seq(S)
          BY <1>1, <4>2
        <5>. QED  BY <4>2, <5>1, ConcatProperties
      <4>. QED  BY <4>1, <4>2
    <3>3. j \in [1..k -> Seq(S)]
      <4>. HIDE DEF x
      <4>. QED  BY <3>2
    <3>4. ASSUME NEW i \in 1..k PROVE j[i] = step(j, i)
      <4>1. ASSUME i # 1 PROVE i - 1 \in 1..(k - 1) /\ j[i - 1] = h[i - 1]
        <5>. HIDE DEF x
        <5>1. i - 1 \in 1..k /\ i - 1 # k
          BY <4>1
        <5>. QED  BY <5>1
      <4>2. j[i] = IF i = k THEN x ELSE h[i]
        OBVIOUS
      <4>3. step(j, i) = step(h, i)
        <5>. HIDE DEF j
        <5>. QED  BY <4>1
      <4>4. CASE i = k
        BY <4>2, <4>3, <4>4
      <4>5. CASE i # k
        <5>1. i \in 1..(k - 1)
          BY <4>5
        <5>2. h[i] = step(h, i)
          BY <3>1, <5>1
        <5>. QED  BY <4>2, <4>3, <4>5, <5>2
      <4>. QED  BY <4>4, <4>5
    <3>5. k \in Nat
      OBVIOUS
    <3>. QED  BY <3>3, <3>4, <3>5
  <2>3. n \in P
    <3>1. \A k \in 0..n : k \in P
      <4>. HIDE DEF P
      <4>. QED  BY <1>1, <2>1, <2>2, Steps
    <3>2. n \in 0..n
      BY <1>1
    <3>. HIDE DEF P
    <3>. QED  BY <3>1, <3>2
  <2>4. PICK h \in [1..n -> Seq(S)] : \A i \in 1..n : h[i] = step(h, i)
    BY <2>3
  <2>5. h = [i \in 1..n |-> IF i = 1 THEN s[i] ELSE h[i - 1] \o s[i]]
    BY <2>4
  <2>6. flatten = [i \in 1..n |-> IF i = 1 THEN s[i] ELSE flatten[i - 1] \o s[i]]
    BY <2>5
  <2>7. FlattenSeq(s) = flatten[n]
    BY <1>3 DEF FlattenSeq
  <2> DEFINE g == [k \in 0..n |-> IF k = 0 THEN <<>> ELSE flatten[k]]
  <2>. HIDE DEF flatten
  <2>8. \A i \in 1..n : flatten[i] = IF i = 1 THEN s[i] ELSE flatten[i - 1] \o s[i]
    BY <2>6
  <2>9. ASSUME NEW k \in 1..n PROVE g[k] = g[k - 1] \o s[k]
    <3>1. CASE k = 1
      <4>1. g[1] = s[1] /\ g[0] = <<>>
        BY <1>1, <2>8, <3>1
      <4>2. <<>> \o s[1] = s[1]
        BY <1>1, <3>1, ConcatEmptySeq
      <4>3. k - 1 = 0
        BY <3>1
      <4>. HIDE DEF g
      <4>. QED  BY <3>1, <4>1, <4>2, <4>3
    <3>2. CASE k # 1
      <4>1. k \in 0..n /\ k - 1 \in 0..n /\ k # 0 /\ k - 1 # 0
        BY <1>1, <3>2
      <4>2. g[k] = flatten[k] /\ g[k - 1] = flatten[k - 1]
        BY <4>1
      <4>. QED  BY <2>8, <3>2, <4>2
    <3>. QED  BY <3>1, <3>2
  <2>10. g[0] = <<>> /\ FlattenSeq(s) = g[n] /\ DOMAIN g = 0..n
    BY <1>1, <1>3, <2>7
  <2>. HIDE DEF g
  <2> DEFINE Q == {k \in 0..n : g[k] \in Seq(S)}
  <2>11. 0 \in Q
    <3>1. g[0] \in Seq(S)
      BY <2>10, EmptySeq
    <3>. QED  BY <1>1, <3>1
  <2>12. ASSUME NEW k \in 1..n, k - 1 \in Q PROVE k \in Q
    <3>1. g[k - 1] \in Seq(S) /\ s[k] \in Seq(S)
      BY <1>1, <2>12
    <3>2. g[k] \in Seq(S)
      BY <2>9, <3>1, ConcatProperties
    <3>. QED  BY <1>1, <3>2
  <2>13. \A k \in 0..n : k \in Q
    <3>. HIDE DEF Q
    <3>. QED  BY <1>1, <2>11, <2>12, Steps
  <2>14. g \in [0..n -> Seq(S)]
    <3>1. \A k \in 0..n : g[k] \in Seq(S)
      BY <2>13
    <3>2. g = [k \in 0..n |-> g[k]]
      BY DEF g
    <3>. QED  BY <3>1, <3>2
  <2>15. Joined(s, g)
    BY <2>9, <2>10 DEF Joined
  <2>. QED  BY <2>10, <2>14, <2>15
<1>. QED  BY <1>2, <1>3

(* Where the pieces are, and that there is nothing else.                   *)
Placed(s, g) ==
  /\ \A k \in 1..Len(s) : Len(g[k]) = Len(g[k - 1]) + Len(s[k])
  /\ \A k \in 1..Len(s) : \A r \in 1..Len(s[k]) :
       /\ Len(g[k - 1]) + r \in 1..Len(g[Len(s)])
       /\ g[Len(s)][Len(g[k - 1]) + r] = s[k][r]
  /\ \A i \in 1..Len(g[Len(s)]) :
       \E k \in 1..Len(s) : \E r \in 1..Len(s[k]) : i = Len(g[k - 1]) + r

LEMMA InPieces ==
  ASSUME NEW S, NEW s \in Seq(Seq(S)), NEW g \in [0..Len(s) -> Seq(S)], Joined(s, g)
  PROVE  Placed(s, g)
<1> DEFINE n == Len(s)
<1>1. n \in Nat /\ \A k \in 1..n : s[k] \in Seq(S) /\ Len(s[k]) \in Nat
  BY LenProperties, ElementOfSeq
<1>2. \A k \in 0..n : g[k] \in Seq(S) /\ Len(g[k]) \in Nat
  BY LenProperties
<1>3. g[0] = <<>> /\ Len(g[0]) = 0
  BY DEF Joined
<1>4. ASSUME NEW k \in 1..n
      PROVE  /\ k \in 0..n /\ k - 1 \in 0..n
             /\ Len(g[k]) = Len(g[k - 1]) + Len(s[k])
             /\ \A i \in 1..Len(g[k]) :
                  g[k][i] = IF i <= Len(g[k - 1]) THEN g[k - 1][i] ELSE s[k][i - Len(g[k - 1])]
  <2>1. k \in 0..n /\ k - 1 \in 0..n
    BY <1>1
  <2>2. g[k] = g[k - 1] \o s[k]
    BY DEF Joined
  <2>3. g[k - 1] \in Seq(S) /\ s[k] \in Seq(S)
    BY <1>1, <2>1
  <2>4. /\ Len(g[k - 1] \o s[k]) = Len(g[k - 1]) + Len(s[k])
        /\ \A i \in 1..(Len(g[k - 1]) + Len(s[k])) :
             (g[k - 1] \o s[k])[i] =
               IF i <= Len(g[k - 1]) THEN g[k - 1][i] ELSE s[k][i - Len(g[k - 1])]
    BY <2>3, ConcatProperties
  <2>. QED  BY <2>1, <2>2, <2>4
<1> DEFINE There(m) == \A k \in 1..m : \A r \in 1..Len(s[k]) :
                         /\ Len(g[k - 1]) + r \in 1..Len(g[m])
                         /\ g[m][Len(g[k - 1]) + r] = s[k][r]
           Only(m) == \A i \in 1..Len(g[m]) :
                        \E k \in 1..m : \E r \in 1..Len(s[k]) : i = Len(g[k - 1]) + r
           Q == {m \in 0..n : There(m) /\ Only(m)}
<1>5. 0 \in Q
  <2>1. 0 \in 0..n
    BY <1>1
  <2>2. There(0)
    OBVIOUS
  <2>3. Only(0)
    BY <1>3
  <2>. QED  BY <2>1, <2>2, <2>3
<1>6. ASSUME NEW m \in 1..n, m - 1 \in Q PROVE m \in Q
  <2>0. m \in 0..n /\ There(m - 1) /\ Only(m - 1) /\ m - 1 \in 0..n /\ m \in Nat
    BY <1>1, <1>6
  <2>a. Len(g[m - 1]) \in Nat /\ Len(s[m]) \in Nat /\ Len(g[m]) = Len(g[m - 1]) + Len(s[m])
    BY <1>1, <1>2, <1>4, <2>0
  <2>b. /\ \A a, b \in Nat : \A i \in 1..a : i \in 1..(a + b) /\ i <= a
        /\ \A a, b \in Nat : \A i \in 1..(a + b) :
             ~ (i <= a) => i - a \in 1..b /\ i = a + (i - a)
    OBVIOUS
  <2>1. ASSUME NEW k \in 1..m, NEW r \in 1..Len(s[k])
        PROVE  Len(g[k - 1]) + r \in 1..Len(g[m]) /\ g[m][Len(g[k - 1]) + r] = s[k][r]
    <3>1. k \in 1..n /\ k - 1 \in 0..n /\ Len(g[k - 1]) \in Nat /\ Len(s[k]) \in Nat
      <4>1. k \in 1..n /\ k - 1 \in 0..n
        BY <1>1
      <4>. QED  BY <1>1, <1>2, <4>1
    <3> DEFINE i == Len(g[k - 1]) + r
    <3>2. CASE k = m
      <4>1. i \in 1..Len(g[m]) /\ ~ (i <= Len(g[m - 1])) /\ i - Len(g[m - 1]) = r
        BY <2>a, <3>1, <3>2
      <4>2. g[m][i] = s[m][i - Len(g[m - 1])]
        BY <1>4, <4>1
      <4>. QED  BY <3>2, <4>1, <4>2
    <3>3. CASE k # m
      <4>1. k \in 1..(m - 1)
        BY <3>3
      <4>2. i \in 1..Len(g[m - 1]) /\ g[m - 1][i] = s[k][r]
        BY <2>0, <4>1
      <4>3. i \in 1..Len(g[m]) /\ i <= Len(g[m - 1])
        BY <2>a, <2>b, <4>2
      <4>4. g[m][i] = g[m - 1][i]
        BY <1>4, <4>3
      <4>. QED  BY <4>2, <4>3, <4>4
    <3>. QED  BY <3>2, <3>3
  <2>2. ASSUME NEW i \in 1..Len(g[m])
        PROVE  \E k \in 1..m : \E r \in 1..Len(s[k]) : i = Len(g[k - 1]) + r
    <3>1. CASE i <= Len(g[m - 1])
      <4>1. i \in 1..Len(g[m - 1])
        BY <2>a, <3>1
      <4>2. PICK k \in 1..(m - 1) : \E r \in 1..Len(s[k]) : i = Len(g[k - 1]) + r
        BY <2>0, <4>1
      <4>3. k \in 1..m
        BY <2>0
      <4>. QED  BY <4>2, <4>3
    <3>2. CASE ~ (i <= Len(g[m - 1]))
      <4>1. i - Len(g[m - 1]) \in 1..Len(s[m]) /\ i = Len(g[m - 1]) + (i - Len(g[m - 1]))
        BY <2>a, <2>b, <3>2
      <4>2. m \in 1..m
        BY <2>0
      <4>. QED  BY <4>1, <4>2
    <3>. QED  BY <3>1, <3>2
  <2>3. There(m) /\ Only(m)
    BY <2>1, <2>2
  <2>. HIDE DEF There, Only
  <2>. QED  BY <2>0, <2>3
<1>7. n \in Q
  <2>1. \A k \in 0..n : k \in Q
    <3>. HIDE DEF Q
    <3>. QED  BY <1>1, <1>5, <1>6, Steps
  <2>2. n \in 0..n
    BY <1>1
  <2>. HIDE DEF Q
  <2>. QED  BY <2>1, <2>2
<1>8. There(n) /\ Only(n)
  BY <1>7
<1>. QED  BY <1>4, <1>8 DEF Placed

(* A sequence repeated.                                                    *)
LEMMA Repeated ==
  ASSUME NEW S, NEW L \in {2, 3, 12}, NEW s \in Seq(S), Len(s) = L, NEW n \in Nat
  PROVE  /\ Repeat(s, n) \in Seq(S)
         /\ Len(Repeat(s, n)) = n * L
         /\ \A i \in 1..(n * L) : Repeat(s, n)[i] = s[((i - 1) % L) + 1]
<1> DEFINE e(i) == s[((i - 1) % L) + 1]
<1>1. n * L \in Nat
  <2>1. \A m \in Nat : m * 2 \in Nat /\ m * 3 \in Nat /\ m * 12 \in Nat
    OBVIOUS
  <2>. QED  BY <2>1
<1>2. \A i \in 1..(n * L) : ((i - 1) % L) + 1 \in 1..L
  <2>1. \A i \in Nat \ {0} : ((i - 1) % 2) + 1 \in 1..2 /\ ((i - 1) % 3) + 1 \in 1..3
                          /\ ((i - 1) % 12) + 1 \in 1..12
    OBVIOUS
  <2>2. \A i \in 1..(n * L) : i \in Nat \ {0}
    BY <1>1
  <2>. QED  BY <2>1, <2>2
<1>3. \A i \in 1..(n * L) : e(i) \in S
  BY <1>2, ElementOfSeq
<1>4. Repeat(s, n) = [i \in 1..(n * L) |-> e(i)]
  BY DEF Repeat
<1>. HIDE DEF e
<1>5. Repeat(s, n) \in Seq(S)
  BY <1>1, <1>3, <1>4, IsASeq
<1>6. Len(Repeat(s, n)) = n * L
  BY <1>1, <1>4, <1>5, LenProperties
<1>7. \A i \in 1..(n * L) : Repeat(s, n)[i] = e(i)
  BY <1>4
<1>. QED  BY <1>5, <1>6, <1>7 DEF e

-----------------------------------------------------------------------------
(* The line a tracker sends.                                               *)

AnyField == BlockFields \cup TailFields \cup {Reserved}
Part_(k) == TailPart(def.tail[k])
Behind == BlockLen * Blocks

LEMMA SentTypes ==
  ASSUME Sent
  PROVE  /\ def \in Def /\ InLayout(def)
         /\ def.acc \in Nat \ {0}
         /\ def.block \in Seq(BlockFields \cup {"odometer", Reserved})
         /\ def.tail \in Seq(TailFields \cup {Reserved})
         /\ Len(def.block) = 12 /\ DOMAIN def.block = 1..12
         /\ DOMAIN def.tail = 1..Len(def.tail) /\ Len(def.tail) \in Nat
         /\ num \in Nat /\ Blocks \in Nat \ {0} /\ (num > 0 => Blocks = num)
         /\ onewire \in Nat \ {0} /\ dgn \in Nat \ {0}
         /\ iospresent \in BOOLEAN
         /\ Behind \in Nat
<1>1. def \in Def /\ InLayout(def)
  BY FieldColumnsAssumption DEF Sent
<1>2. /\ def.acc \in Nat \ {0}
      /\ def.block \in Seq(BlockFields \cup {"odometer", Reserved})
      /\ def.tail \in Seq(TailFields \cup {Reserved})
  BY <1>1 DEF Def
<1>3. Len(def.block) = 12
  BY <1>1 DEF InLayout, BlockLen
<1>4. num \in Nat /\ Blocks \in Nat \ {0} /\ (num > 0 => Blocks = num)
  BY FieldColumnsAssumption DEF Sent, Blocks
<1>5. onewire \in Nat \ {0} /\ dgn \in Nat \ {0} /\ iospresent \in BOOLEAN
  <2>1. onewire \in 1..MaxOneWire \/ onewire = 1
    BY DEF Sent
  <2>2. dgn \in 1..MaxXyz \/ dgn = 1
    BY DEF Sent
  <2>3. iospresent \in BOOLEAN
    BY DEF Sent
  <2>. QED  BY <2>1, <2>2, <2>3, FieldColumnsAssumption
<1>. QED  BY <1>1, <1>2, <1>3, <1>4, <1>5, LenProperties DEF Behind, BlockLen

(* What stands for a field of the entry.                                   *)
LEMMA TailParts ==
  ASSUME Sent, NEW f \in TailFields \cup {Reserved}
  PROVE  TailPart(f) \in Seq(TailFields \cup {Reserved})
<1>1. <<f>> \in Seq(TailFields \cup {Reserved}) /\ <<>> \in Seq(TailFields \cup {Reserved})
  BY EmptySeq
<1>2. /\ <<"adid", "adty", "adda">> \in Seq(TailFields \cup {Reserved})
      /\ <<"da", "xyz">> \in Seq(TailFields \cup {Reserved})
      /\ Len(<<"adid", "adty", "adda">>) = 3 /\ Len(<<"da", "xyz">>) = 2
  BY DEF TailFields
<1>3. /\ Repeat(<<"adid", "adty", "adda">>, onewire) \in Seq(TailFields \cup {Reserved})
      /\ Repeat(<<"da", "xyz">>, dgn) \in Seq(TailFields \cup {Reserved})
  BY <1>2, SentTypes, Repeated
<1>. QED  BY <1>1, <1>3 DEF TailPart

(* o[k] columns behind the blocks are of the first k fields of the entry.  *)
Laid(o) ==
  /\ o[0] = 0
  /\ \A k \in 1..Len(def.tail) : o[k] = o[k - 1] + Len(Part_(k))
  /\ \A i \in 1..Behind : i \in 1..Len(Line) /\ Line[i] = def.block[((i - 1) % 12) + 1]
  /\ \A k \in 1..Len(def.tail) : \A r \in 1..Len(Part_(k)) :
       Behind + o[k - 1] + r \in 1..Len(Line) /\ Line[Behind + o[k - 1] + r] = Part_(k)[r]
  /\ \A i \in 1..Len(Line) : ~ (i <= Behind) =>
       \E k \in 1..Len(def.tail) : \E r \in 1..Len(Part_(k)) : i = Behind + o[k - 1] + r

LEMMA LineLaid ==
  ASSUME Sent
  PROVE  Len(Line) \in Nat /\ \E o \in [0..Len(def.tail) -> Nat] : Laid(o)
<1> DEFINE S == AnyField
           m == Len(def.tail)
           s == [k \in DOMAIN def.tail |-> TailPart(def.tail[k])]
           b == Repeat(def.block, Blocks)
           t == FlattenSeq(s)
<1>1. m \in Nat /\ DOMAIN def.tail = 1..m /\ Behind \in Nat
  BY SentTypes
<1>2. \A k \in 1..m : Part_(k) \in Seq(S)
  <2>1. \A k \in 1..m : def.tail[k] \in TailFields \cup {Reserved}
    BY SentTypes, ElementOfSeq
  <2>2. Seq(TailFields \cup {Reserved}) \subseteq Seq(S)
    <3>1. TailFields \cup {Reserved} \subseteq S
      BY DEF AnyField
    <3>. QED  BY <3>1, SeqMonotonic
  <2>. QED  BY <2>1, <2>2, TailParts DEF Part_
<1>3. s \in Seq(Seq(S)) /\ Len(s) = m /\ \A k \in 1..m : s[k] = Part_(k)
  <2>1. s = [k \in 1..m |-> Part_(k)]
    BY <1>1 DEF Part_
  <2>2. s \in Seq(Seq(S))
    BY <1>1, <1>2, <2>1, IsASeq
  <2>. QED  BY <1>1, <2>1, <2>2, LenProperties
<1>4. b \in Seq(S) /\ Len(b) = Behind /\ \A i \in 1..Behind : b[i] = def.block[((i - 1) % 12) + 1]
  <2>1. def.block \in Seq(S)
    <3>1. BlockFields \cup {"odometer", Reserved} \subseteq S
      BY DEF AnyField, TailFields
    <3>. QED  BY <3>1, SentTypes, SeqMonotonic
  <2>a. Len(def.block) = 12 /\ 12 \in {2, 3, 12} /\ Blocks \in Nat
    BY SentTypes
  <2>. HIDE DEF S
  <2>2. /\ b \in Seq(S) /\ Len(b) = Blocks * 12
        /\ \A i \in 1..(Blocks * 12) : b[i] = def.block[((i - 1) % 12) + 1]
    BY <2>1, <2>a, Repeated
  <2>3. Behind = Blocks * 12
    BY SentTypes DEF Behind, BlockLen
  <2>. QED  BY <2>2, <2>3
<1>. HIDE DEF s, b, S
<1>5. PICK g \in [0..m -> Seq(S)] : Joined(s, g) /\ t = g[m]
  BY <1>3, Flattened
<1>a. Placed(s, g)
  BY <1>3, <1>5, InPieces
<1>6. /\ \A k \in 1..m : Len(g[k]) = Len(g[k - 1]) + Len(Part_(k))
      /\ \A k \in 1..m : \A r \in 1..Len(Part_(k)) :
           Len(g[k - 1]) + r \in 1..Len(t) /\ t[Len(g[k - 1]) + r] = Part_(k)[r]
      /\ \A i \in 1..Len(t) :
           \E k \in 1..m : \E r \in 1..Len(Part_(k)) : i = Len(g[k - 1]) + r
  <2>1. Len(s) = m /\ (\A k \in 1..m : s[k] = Part_(k)) /\ g[m] = t
    BY <1>3, <1>5
  <2>. HIDE DEF m, t
  <2>2. ASSUME NEW k \in 1..m PROVE Len(g[k]) = Len(g[k - 1]) + Len(Part_(k))
    BY <1>a, <2>1 DEF Placed
  <2>3. ASSUME NEW k \in 1..m, NEW r \in 1..Len(Part_(k))
        PROVE  Len(g[k - 1]) + r \in 1..Len(t) /\ t[Len(g[k - 1]) + r] = Part_(k)[r]
    BY <1>a, <2>1 DEF Placed
  <2>4. ASSUME NEW i \in 1..Len(t)
        PROVE  \E k \in 1..m : \E r \in 1..Len(Part_(k)) : i = Len(g[k - 1]) + r
    BY <1>a, <2>1 DEF Placed
  <2>. QED  BY <2>2, <2>3, <2>4
<1>7. t \in Seq(S) /\ Len(t) \in Nat
  BY <1>1, <1>5, LenProperties
<1>8. /\ Line = b \o t /\ Len(Line) = Behind + Len(t)
      /\ \A i \in 1..(Behind + Len(t)) : Line[i] = IF i <= Behind THEN b[i] ELSE t[i - Behind]
  <2>1. Line = b \o t
    BY DEF Line, b, s
  <2>. QED  BY <1>4, <1>7, <2>1, ConcatProperties
<1>. HIDE DEF t, m
<1> DEFINE o == [k \in 0..m |-> Len(g[k])]
<1>9. o \in [0..m -> Nat] /\ o[0] = 0
  <2>1. \A k \in 0..m : Len(g[k]) \in Nat
    BY <1>5, LenProperties
  <2>2. Len(g[0]) = 0
    BY <1>5 DEF Joined
  <2>. QED  BY <1>1, <2>1, <2>2
<1>10. \A k \in 1..m : k \in 0..m /\ k - 1 \in 0..m /\ o[k] = Len(g[k]) /\ o[k - 1] = Len(g[k - 1])
  BY <1>1
<1>. HIDE DEF o
<1>11. \A k \in 1..m : o[k] = o[k - 1] + Len(Part_(k))
  BY <1>6, <1>10
<1>12. ASSUME NEW i \in 1..Behind
       PROVE  i \in 1..Len(Line) /\ Line[i] = def.block[((i - 1) % 12) + 1]
  <2>1. i \in 1..(Behind + Len(t)) /\ i <= Behind
    BY <1>1, <1>7
  <2>. QED  BY <1>4, <1>8, <2>1
<1>13. ASSUME NEW k \in 1..m, NEW r \in 1..Len(Part_(k))
       PROVE  /\ Behind + o[k - 1] + r \in 1..Len(Line)
              /\ Line[Behind + o[k - 1] + r] = Part_(k)[r]
  <2>1. o[k - 1] + r \in 1..Len(t) /\ t[o[k - 1] + r] = Part_(k)[r]
    BY <1>6, <1>10
  <2> DEFINE j == o[k - 1] + r
  <2>2. \A a, c \in Nat : \A i \in 1..c :
          a + i \in 1..(a + c) /\ ~ (a + i <= a) /\ (a + i) - a = i
    OBVIOUS
  <2>a. j \in 1..Len(t) /\ t[j] = Part_(k)[r]
    BY <2>1
  <2>. HIDE DEF j
  <2>3. /\ Behind + j \in 1..(Behind + Len(t))
        /\ ~ (Behind + j <= Behind)
        /\ (Behind + j) - Behind = j
    BY <1>1, <1>7, <2>a, <2>2
  <2>4. Line[Behind + j] = Part_(k)[r] /\ Behind + j \in 1..Len(Line)
    <3>1. Line[Behind + j] = t[(Behind + j) - Behind]
      BY <1>8, <2>3
    <3>. QED  BY <1>8, <2>a, <2>3, <3>1
  <2>5. Behind + o[k - 1] + r = Behind + j
    <3>1. o[k - 1] \in Nat /\ r \in Int
      BY <1>9, <1>10
    <3>2. \A a, c \in Nat : \A i \in Int : a + c + i = a + (c + i)
      OBVIOUS
    <3>. QED  BY <1>1, <3>1, <3>2 DEF j
  <2>. QED  BY <2>4, <2>5
<1>14. ASSUME NEW i \in 1..Len(Line), ~ (i <= Behind)
       PROVE  \E k \in 1..m : \E r \in 1..Len(Part_(k)) : i = Behind + o[k - 1] + r
  <2>1. \A a, c \in Nat : \A j \in 1..(a + c) : ~ (j <= a) => j - a \in 1..c
    OBVIOUS
  <2>2. i - Behind \in 1..Len(t)
    BY <1>1, <1>7, <1>8, <1>14, <2>1
  <2>3. PICK k \in 1..m : \E r \in 1..Len(Part_(k)) : i - Behind = Len(g[k - 1]) + r
    BY <1>6, <2>2
  <2>4. PICK r \in 1..Len(Part_(k)) : i - Behind = o[k - 1] + r
    BY <1>10, <2>3
  <2>5. i = Behind + o[k - 1] + r
    <3>1. o[k - 1] \in Nat /\ r \in Int /\ i \in Int
      BY <1>9, <1>10
    <3>2. \A a, c \in Nat : \A j, l \in Int : l - a = c + j => l = a + c + j
      OBVIOUS
    <3>. QED  BY <1>1, <2>4, <3>1, <3>2
  <2>. QED  BY <2>5
<1>15. Laid(o)
  BY <1>9, <1>11, <1>12, <1>13, <1>14 DEF Laid, m
<1>16. Len(Line) \in Nat
  BY <1>1, <1>7, <1>8
<1>. QED  BY <1>9, <1>15, <1>16 DEF m

-----------------------------------------------------------------------------
(* Where the fields behind the blocks begin, with all the parts there are. *)

Width(f) ==
  CASE f = "adid"                    -> 3 * onewire
    [] f = "da"                      -> 2 * dgn
    [] f = "ios"                     -> IF iospresent THEN 1 ELSE 0
    [] f \in {"adty", "adda", "xyz"} -> 0
    [] OTHER                         -> 1

(* What the field f adds to the columns of the first k, beyond its own.    *)
Past(f, k) == \E i \in 1..k : def.tail[i] = f
Extra(f, k) == IF Past(f, k) THEN Width(f) - 1 ELSE 0
Shift(k) == Extra("adid", k) + Extra("adty", k) + Extra("adda", k)
            + Extra("da", k) + Extra("xyz", k) + Extra("ios", k)
Special == {"adid", "adty", "adda", "da", "xyz", "ios"}

LEMMA Widths ==
  ASSUME Sent, Complete, NEW k \in 1..Len(def.tail)
  PROVE  /\ Len(Part_(k)) = Width(def.tail[k])
         /\ \A r \in 1..Len(Part_(k)) :
              \/ /\ def.tail[k] = "adid" /\ r \in 1..(3 * onewire)
                 /\ Part_(k)[r] = <<"adid", "adty", "adda">>[((r - 1) % 3) + 1]
              \/ /\ def.tail[k] = "da" /\ r \in 1..(2 * dgn)
                 /\ Part_(k)[r] = <<"da", "xyz">>[((r - 1) % 2) + 1]
              \/ def.tail[k] \notin (Special \ {"ios"}) /\ r = 1 /\ Part_(k)[r] = def.tail[k]
<1> DEFINE f == def.tail[k]
<1>1. DOMAIN def.tail = 1..Len(def.tail) /\ onewire \in Nat \ {0} /\ dgn \in Nat \ {0}
      /\ iospresent \in BOOLEAN
  BY SentTypes
<1>2. Has(def, f)
  BY <1>1 DEF Has
<1>3. /\ f = "anum" => "ac100" \in erim
      /\ f = "adid" => "ac100" \in erim
      /\ f = "can" => "can" \in erim
      /\ f = "dgn" => "xyz" \in erim
      /\ f = "da" => "xyz" \in erim
  <2>1. InLayout(def)
    BY SentTypes
  <2>2. /\ f \in {"anum", "adid"} => Has(def, "anum")
        /\ f = "can" => Has(def, "can")
        /\ f \in {"dgn", "da"} => Has(def, "dgn")
    BY <1>2, <2>1 DEF InLayout
  <2>3. \A p \in Part : HasPart(def, p) => p \in erim
    BY DEF Complete
  <2>4. /\ Has(def, "anum") => "ac100" \in erim
        /\ Has(def, "can") => "can" \in erim
        /\ Has(def, "dgn") => "xyz" \in erim
    BY <2>3 DEF HasPart, Part
  <2>. QED  BY <2>2, <2>4
<1>4. /\ Len(Repeat(<<"adid", "adty", "adda">>, onewire)) = onewire * 3
      /\ \A r \in 1..(onewire * 3) : Repeat(<<"adid", "adty", "adda">>, onewire)[r]
           = <<"adid", "adty", "adda">>[((r - 1) % 3) + 1]
  <2>1. <<"adid", "adty", "adda">> \in Seq(TailFields) /\ Len(<<"adid", "adty", "adda">>) = 3
        /\ 3 \in {2, 3, 12} /\ onewire \in Nat
    BY <1>1 DEF TailFields
  <2>. QED  BY <2>1, Repeated
<1>5. /\ Len(Repeat(<<"da", "xyz">>, dgn)) = dgn * 2
      /\ \A r \in 1..(dgn * 2) : Repeat(<<"da", "xyz">>, dgn)[r]
           = <<"da", "xyz">>[((r - 1) % 2) + 1]
  <2>1. <<"da", "xyz">> \in Seq(TailFields) /\ Len(<<"da", "xyz">>) = 2
        /\ 2 \in {2, 3, 12} /\ dgn \in Nat
    BY <1>1 DEF TailFields
  <2>. QED  BY <2>1, Repeated
<1>6. Part_(k) = TailPart(f)
  BY DEF Part_
<1>7. onewire * 3 = 3 * onewire /\ dgn * 2 = 2 * dgn
  BY <1>1
<1>. HIDE DEF f
<1>8. CASE f = "adid"
  <2>1. Part_(k) = Repeat(<<"adid", "adty", "adda">>, onewire)
    BY <1>3, <1>6, <1>8 DEF TailPart
  <2>2. Width(f) = 3 * onewire
    BY <1>8 DEF Width
  <2>. QED  BY <1>4, <1>7, <1>8, <2>1, <2>2 DEF f
<1>9. CASE f = "da"
  <2>1. Part_(k) = Repeat(<<"da", "xyz">>, dgn)
    BY <1>3, <1>6, <1>9 DEF TailPart
  <2>2. Width(f) = 2 * dgn
    BY <1>9 DEF Width
  <2>. QED  BY <1>5, <1>7, <1>9, <2>1, <2>2 DEF f
<1>10. CASE f \in {"adty", "adda", "xyz"} \/ (f = "ios" /\ ~iospresent)
  <2>1. Part_(k) = <<>>
    BY <1>6, <1>10 DEF TailPart
  <2>2. Width(f) = 0
    BY <1>10 DEF Width
  <2>. QED  BY <2>1, <2>2 DEF f
<1>11. CASE f \notin Special \/ (f = "ios" /\ iospresent)
  <2>1. Part_(k) = <<f>>
    BY <1>3, <1>6, <1>11 DEF TailPart, Special
  <2>2. Width(f) = 1
    BY <1>11 DEF Width, Special
  <2>. QED  BY <1>11, <2>1, <2>2 DEF f, Special
<1>. QED  BY <1>1, <1>8, <1>9, <1>10, <1>11 DEF Special

LEMMA Extras ==
  ASSUME Sent, NEW k \in 1..Len(def.tail), NEW f \in TailFields
  PROVE  /\ Width(f) \in Nat /\ Extra(f, k) \in Int /\ Extra(f, k - 1) \in Int
         /\ Extra(f, k) = Extra(f, k - 1) + (IF def.tail[k] = f THEN Width(f) - 1 ELSE 0)
<1>1. Width(f) \in Nat
  BY SentTypes DEF Width
<1>2. Past(f, k) <=> (Past(f, k - 1) \/ def.tail[k] = f)
  <2>1. Len(def.tail) \in Nat
    BY SentTypes
  <2>2. \A i \in 1..k : i \in 1..(k - 1) \/ i = k
    OBVIOUS
  <2>3. \A i \in 1..(k - 1) : i \in 1..k
    OBVIOUS
  <2>4. k \in 1..k
    OBVIOUS
  <2>. QED  BY <2>2, <2>3, <2>4 DEF Past
<1>3. ~ (Past(f, k - 1) /\ def.tail[k] = f)
  <2>1. SUFFICES ASSUME NEW i \in 1..(k - 1), def.tail[i] = f, def.tail[k] = f PROVE FALSE
    BY DEF Past
  <2>2. Once(def.tail) /\ DOMAIN def.tail = 1..Len(def.tail) /\ Len(def.tail) \in Nat
    BY SentTypes DEF InLayout
  <2>3. f # Reserved
    BY DEF TailFields, Reserved
  <2>4. i \in 1..Len(def.tail) /\ i # k
    BY <2>2
  <2>. QED  BY <2>1, <2>2, <2>3, <2>4 DEF Once
<1>. QED  BY <1>1, <1>2, <1>3 DEF Extra

LEMMA Offsets ==
  ASSUME Sent, Complete, NEW o \in [0..Len(def.tail) -> Nat], Laid(o)
  PROVE  \A k \in 0..Len(def.tail) : Shift(k) \in Int /\ o[k] = k + Shift(k)
<1> DEFINE m == Len(def.tail)
           Q == {k \in 0..m : Shift(k) \in Int /\ o[k] = k + Shift(k)}
<1>1. m \in Nat
  BY SentTypes
<1>2. 0 \in Q
  <2>1. \A f \in TailFields : Extra(f, 0) = 0
    BY DEF Extra, Past
  <2>2. Shift(0) = 0
    BY <2>1 DEF Shift, TailFields
  <2>. QED  BY <1>1, <2>2 DEF Laid
<1>3. ASSUME NEW k \in 1..m, k - 1 \in Q PROVE k \in Q
  <2>1. k \in 0..m /\ k - 1 \in 0..m /\ o[k - 1] = (k - 1) + Shift(k - 1) /\ Shift(k - 1) \in Int
    BY <1>1, <1>3
  <2>2. o[k] = o[k - 1] + Width(def.tail[k])
    BY Widths DEF Laid
  <2>3. \A f \in Special :
          /\ Width(f) \in Nat /\ Extra(f, k) \in Int /\ Extra(f, k - 1) \in Int
          /\ Extra(f, k) = Extra(f, k - 1) + (IF def.tail[k] = f THEN Width(f) - 1 ELSE 0)
    <3>1. Special \subseteq TailFields
      BY DEF Special, TailFields
    <3>. QED  BY <3>1, Extras
  <2>4. Shift(k) \in Int /\ Shift(k) = Shift(k - 1) + (Width(def.tail[k]) - 1)
    <3> DEFINE x == def.tail[k]
               e(f) == IF x = f THEN Width(f) - 1 ELSE 0
    <3>1. \A f \in Special : e(f) \in Int /\ Extra(f, k - 1) \in Int
                            /\ Extra(f, k) = Extra(f, k - 1) + e(f)
      BY <2>3
    <3>2. e("adid") + e("adty") + e("adda") + e("da") + e("xyz") + e("ios") = Width(x) - 1
      <4>1. /\ Width("adid") \in Nat /\ Width("adty") \in Nat /\ Width("adda") \in Nat
            /\ Width("da") \in Nat /\ Width("xyz") \in Nat /\ Width("ios") \in Nat
        BY <2>3 DEF Special
      <4>2. x \notin Special => Width(x) = 1
        BY DEF Width, Special
      <4>. HIDE DEF x
      <4>3. CASE x \notin Special
        BY <4>2, <4>3 DEF Special
      <4>4. CASE x \in Special
        BY <4>1, <4>4 DEF Special
      <4>. QED  BY <4>3, <4>4
    <3>. HIDE DEF e, x
    <3>6. {"adid", "adty", "adda", "da", "xyz", "ios"} \subseteq Special
      BY DEF Special
    <3>7. /\ Extra("adid", k) = Extra("adid", k - 1) + e("adid")
          /\ Extra("adty", k) = Extra("adty", k - 1) + e("adty")
          /\ Extra("adda", k) = Extra("adda", k - 1) + e("adda")
          /\ Extra("da", k) = Extra("da", k - 1) + e("da")
          /\ Extra("xyz", k) = Extra("xyz", k - 1) + e("xyz")
          /\ Extra("ios", k) = Extra("ios", k - 1) + e("ios")
      BY <3>1, <3>6
    <3>8. /\ Extra("adid", k - 1) \in Int /\ e("adid") \in Int /\ Extra("adid", k) \in Int
          /\ Extra("adty", k - 1) \in Int /\ e("adty") \in Int /\ Extra("adty", k) \in Int
          /\ Extra("adda", k - 1) \in Int /\ e("adda") \in Int /\ Extra("adda", k) \in Int
          /\ Extra("da", k - 1) \in Int /\ e("da") \in Int /\ Extra("da", k) \in Int
          /\ Extra("xyz", k - 1) \in Int /\ e("xyz") \in Int /\ Extra("xyz", k) \in Int
          /\ Extra("ios", k - 1) \in Int /\ e("ios") \in Int /\ Extra("ios", k) \in Int
      BY <2>3, <3>1, <3>6
    <3>9. \A a1, a2, a3, a4, a5, a6 \in Int : a1 + a2 + a3 + a4 + a5 + a6 \in Int
      OBVIOUS
    <3>10. Shift(k) = (Extra("adid", k - 1) + e("adid")) + (Extra("adty", k - 1) + e("adty"))
                      + (Extra("adda", k - 1) + e("adda")) + (Extra("da", k - 1) + e("da"))
                      + (Extra("xyz", k - 1) + e("xyz")) + (Extra("ios", k - 1) + e("ios"))
      BY <3>7, Zenon DEF Shift
    <3>4. Shift(k) = Shift(k - 1)
                     + (e("adid") + e("adty") + e("adda") + e("da") + e("xyz") + e("ios"))
      <4> DEFINE a1 == Extra("adid", k - 1)
                 a2 == Extra("adty", k - 1)
                 a3 == Extra("adda", k - 1)
                 a4 == Extra("da", k - 1)
                 a5 == Extra("xyz", k - 1)
                 a6 == Extra("ios", k - 1)
                 e1 == e("adid")
                 e2 == e("adty")
                 e3 == e("adda")
                 e4 == e("da")
                 e5 == e("xyz")
                 e6 == e("ios")
      <4>1. /\ a1 \in Int /\ a2 \in Int /\ a3 \in Int /\ a4 \in Int /\ a5 \in Int /\ a6 \in Int
            /\ e1 \in Int /\ e2 \in Int /\ e3 \in Int /\ e4 \in Int /\ e5 \in Int /\ e6 \in Int
        BY <3>8
      <4>2. Shift(k - 1) = a1 + a2 + a3 + a4 + a5 + a6
        BY DEF Shift
      <4>3. Shift(k) = (a1 + e1) + (a2 + e2) + (a3 + e3) + (a4 + e4) + (a5 + e5) + (a6 + e6)
        BY <3>10
      <4>4. SUFFICES Shift(k) = Shift(k - 1) + (e1 + e2 + e3 + e4 + e5 + e6)
        OBVIOUS
      <4>. HIDE DEF a1, a2, a3, a4, a5, a6, e1, e2, e3, e4, e5, e6
      <4>. QED  BY <4>1, <4>2, <4>3
    <3>5. Shift(k) \in Int
      BY <3>8, <3>9, Zenon DEF Shift
    <3>. QED  BY <3>2, <3>4, <3>5 DEF x
  <2>5. Width(def.tail[k]) \in Nat
    BY SentTypes DEF Width
  <2>6. \A a, b, w, d \in Int : a = (d - 1) + b => a + w = d + (b + (w - 1))
    OBVIOUS
  <2>7. o[k - 1] \in Int /\ Shift(k - 1) \in Int /\ k \in Int /\ Width(def.tail[k]) \in Int
    BY <2>1, <2>5
  <2>8. o[k - 1] + Width(def.tail[k]) = k + (Shift(k - 1) + (Width(def.tail[k]) - 1))
    BY <2>1, <2>6, <2>7
  <2>. QED  BY <2>1, <2>2, <2>4, <2>8
<1>4. \A k \in 0..m : k \in Q
  <2>. HIDE DEF Q
  <2>. QED  BY <1>1, <1>2, <1>3, Steps
<1>. QED  BY <1>4

(* The order of the fields of an entry.                                    *)
LEMMA Ordered ==
  ASSUME Sent, NEW k \in 1..Len(def.tail), NEW g \in TailFields
  PROVE  /\ Past(g, k - 1) => Has(def, g)
         /\ Place(g) > Place(def.tail[k]) => ~Past(g, k - 1)
         /\ Place(g) < Place(def.tail[k]) => (Past(g, k - 1) <=> Has(def, g))
         /\ def.tail[k] = g => ~Past(g, k - 1)
<1>1. /\ InLayout(def) /\ Len(def.tail) \in Nat /\ DOMAIN def.tail = 1..Len(def.tail)
      /\ k \in DOMAIN def.tail
  BY SentTypes
<1>2. \A f : Place(f) \in Nat
  BY DEF Place
<1>3. \A i, j \in DOMAIN def.tail : i < j => Place(def.tail[i]) <= Place(def.tail[j])
  BY <1>1 DEF InLayout
<1>4. \A i \in 1..(k - 1) : i \in DOMAIN def.tail /\ i < k
  BY <1>1
<1>5. Past(g, k - 1) => Has(def, g)
  BY <1>4 DEF Past, Has
<1>6. ASSUME Past(g, k - 1) PROVE Place(g) <= Place(def.tail[k])
  BY <1>1, <1>3, <1>4, <1>6 DEF Past
<1>7. ASSUME Has(def, g), Place(g) < Place(def.tail[k]) PROVE Past(g, k - 1)
  <2>1. PICK i \in 1..Len(def.tail) : def.tail[i] = g
    BY <1>1, <1>7 DEF Has
  <2>2. ~ (k < i)
    <3>1. k < i => Place(def.tail[k]) <= Place(g)
      BY <1>1, <1>3, <2>1
    <3>. QED  BY <1>2, <1>7, <3>1
  <2>3. i # k
    BY <1>2, <1>7, <2>1
  <2>4. i \in 1..(k - 1)
    BY <1>1, <2>2, <2>3
  <2>. QED  BY <2>1, <2>4 DEF Past
<1>8. ASSUME def.tail[k] = g, Past(g, k - 1) PROVE FALSE
  <2>1. PICK i \in 1..(k - 1) : def.tail[i] = g
    BY <1>8 DEF Past
  <2>2. Once(def.tail) /\ g # Reserved
    BY <1>1 DEF InLayout, TailFields, Reserved
  <2>. QED  BY <1>1, <1>4, <1>8, <2>1, <2>2 DEF Once
<1>. QED  BY <1>2, <1>5, <1>6, <1>7, <1>8

(* Parts are whole.                                                        *)
LEMMA Whole ==
  ASSUME Sent
  PROVE  /\ Has(def, "adid") <=> Has(def, "anum")
         /\ Has(def, "adty") <=> Has(def, "anum")
         /\ Has(def, "adda") <=> Has(def, "anum")
         /\ Has(def, "uart") <=> Has(def, "anum")
         /\ Has(def, "da") <=> Has(def, "dgn")
         /\ Has(def, "xyz") <=> Has(def, "dgn")
<1>1. InLayout(def)
  BY SentTypes
<1>2. ASSUME NEW f, NEW g, Follows(def.tail, f, g) PROVE Has(def, f) <=> Has(def, g)
  BY <1>2 DEF Follows, Has
<1>3. /\ Has(def, "adid") <=> Has(def, "adty")
      /\ Has(def, "adty") <=> Has(def, "adda")
      /\ Has(def, "da") <=> Has(def, "xyz")
  BY <1>1, <1>2 DEF InLayout
<1>4. /\ Has(def, "uart") <=> Has(def, "anum")
      /\ Has(def, "anum") <=> Has(def, "adid")
      /\ Has(def, "dgn") <=> Has(def, "da")
  BY <1>1 DEF InLayout
<1>. QED  BY <1>3, <1>4

(* What comes after a field of a part is not before it.                    *)
LEMMA NotBefore ==
  ASSUME Sent, NEW k \in 1..Len(def.tail), NEW f \in TailFields, NEW g \in TailFields,
         Follows(def.tail, f, g), ~Past(f, k - 1)
  PROVE  ~Past(g, k - 1)
<1>1. SUFFICES ASSUME NEW i \in 1..(k - 1), def.tail[i] = g PROVE FALSE
  BY DEF Past
<1>2. DOMAIN def.tail = 1..Len(def.tail) /\ Len(def.tail) \in Nat
  BY SentTypes
<1>3. i \in DOMAIN def.tail
  BY <1>2
<1>4. i - 1 \in DOMAIN def.tail /\ def.tail[i - 1] = f
  BY <1>1, <1>3 DEF Follows
<1>5. i - 1 \in 1..(k - 1)
  BY <1>2, <1>4
<1>. QED  BY <1>4, <1>5 DEF Past

OneWireShift == IF Has(def, "anum") THEN 3 * onewire - 3 ELSE 0
XyzShift == IF Has(def, "dgn") THEN 2 * dgn - 2 ELSE 0
IosShift == IF iospresent THEN 0 ELSE -1

LEMMA Shifts ==
  ASSUME Sent, NEW k \in 1..Len(def.tail)
  PROVE  /\ Place(def.tail[k]) = 0 \/ def.tail[k] = "adid" => Shift(k - 1) = 0
         /\ def.tail[k] \in {"can", "dgn", "da"} => Shift(k - 1) = OneWireShift
         /\ def.tail[k] \in {"sent", "count"} =>
              Shift(k - 1) = OneWireShift + XyzShift + IosShift
         /\ def.tail[k] = "ios" /\ ~Has(def, "anum") => Shift(k - 1) = 0
<1> DEFINE f == def.tail[k]
<1>1. /\ InLayout(def) /\ onewire \in Nat \ {0} /\ dgn \in Nat \ {0} /\ iospresent \in BOOLEAN
  BY SentTypes
<1>2. /\ "adid" \in TailFields /\ "adty" \in TailFields /\ "adda" \in TailFields
      /\ "da" \in TailFields /\ "xyz" \in TailFields /\ "ios" \in TailFields
  BY DEF TailFields
<1>3. /\ Place("adid") = 1 /\ Place("adty") = 1 /\ Place("adda") = 1
      /\ Place("da") = 4 /\ Place("xyz") = 4 /\ Place("ios") = 5
      /\ Place("can") = 2 /\ Place("dgn") = 3 /\ Place("sent") = 6 /\ Place("count") = 6
  BY DEF Place
<1>4. /\ Width("adid") = 3 * onewire /\ Width("adty") = 0 /\ Width("adda") = 0
      /\ Width("da") = 2 * dgn /\ Width("xyz") = 0
      /\ Width("ios") = (IF iospresent THEN 1 ELSE 0)
  BY DEF Width
<1>5. ASSUME ~Past("adid", k - 1)
      PROVE  /\ Extra("adid", k - 1) = 0 /\ Extra("adty", k - 1) = 0 /\ Extra("adda", k - 1) = 0
  <2>1. Follows(def.tail, "adid", "adty") /\ Follows(def.tail, "adty", "adda")
    BY <1>1 DEF InLayout
  <2>2. ~Past("adty", k - 1)
    BY <1>2, <1>5, <2>1, NotBefore
  <2>3. ~Past("adda", k - 1)
    BY <1>2, <2>1, <2>2, NotBefore
  <2>. QED  BY <1>5, <2>2, <2>3 DEF Extra
<1>6. ASSUME ~Past("da", k - 1)
      PROVE  Extra("da", k - 1) = 0 /\ Extra("xyz", k - 1) = 0
  <2>1. Follows(def.tail, "da", "xyz")
    BY <1>1 DEF InLayout
  <2>2. ~Past("xyz", k - 1)
    BY <1>2, <1>6, <2>1, NotBefore
  <2>. QED  BY <1>6, <2>2 DEF Extra
<1>7. ASSUME ~Past("ios", k - 1) PROVE Extra("ios", k - 1) = 0
  BY <1>7 DEF Extra
<1>8. ASSUME Place(f) \in 2..6
      PROVE  Extra("adid", k - 1) + Extra("adty", k - 1) + Extra("adda", k - 1) = OneWireShift
  <2>1. \A g \in {"adid", "adty", "adda"} : Past(g, k - 1) <=> Has(def, "anum")
    BY <1>2, <1>3, <1>8, Ordered, Whole
  <2>. QED  BY <1>1, <1>4, <2>1 DEF Extra, OneWireShift
<1>9. ASSUME Place(f) = 6
      PROVE  /\ Extra("da", k - 1) + Extra("xyz", k - 1) = XyzShift
             /\ Extra("ios", k - 1) = IosShift
  <2>1. \A g \in {"da", "xyz"} : Past(g, k - 1) <=> Has(def, "dgn")
    BY <1>2, <1>3, <1>9, Ordered, Whole
  <2>2. Past("ios", k - 1) <=> Has(def, "ios")
    BY <1>2, <1>3, <1>9, Ordered
  <2>3. ~iospresent => Has(def, "ios")
    BY DEF Sent
  <2>4. Extra("da", k - 1) + Extra("xyz", k - 1) = XyzShift
    BY <1>1, <1>4, <2>1 DEF Extra, XyzShift
  <2>5. Extra("ios", k - 1) = IosShift
    BY <1>1, <1>4, <2>2, <2>3 DEF Extra, IosShift
  <2>. QED  BY <2>4, <2>5
<1>10. OneWireShift \in Int /\ XyzShift \in Int /\ IosShift \in Int
  BY <1>1 DEF OneWireShift, XyzShift, IosShift
<1>11. CASE Place(f) = 0 \/ f = "adid"
  <2>1. ~Past("adid", k - 1) /\ ~Past("da", k - 1) /\ ~Past("ios", k - 1)
    BY <1>2, <1>3, <1>11, Ordered
  <2>2. f \notin {"can", "dgn", "da", "sent", "count", "ios"}
    BY <1>3, <1>11
  <2>3. Shift(k - 1) = 0
    BY <1>5, <1>6, <1>7, <2>1 DEF Shift
  <2>. QED  BY <2>2, <2>3
<1>12. CASE f \in {"can", "dgn", "da"}
  <2>1. ~Past("da", k - 1) /\ ~Past("ios", k - 1)
    BY <1>2, <1>3, <1>12, Ordered
  <2>2. Place(f) \in 2..6 /\ Place(f) # 0
    BY <1>3, <1>12
  <2>3. Shift(k - 1) = OneWireShift
    BY <1>6, <1>7, <1>8, <1>10, <2>1, <2>2 DEF Shift
  <2>. QED  BY <1>12, <2>2, <2>3
<1>13. CASE f \in {"sent", "count"}
  <2>1. Place(f) \in 2..6 /\ Place(f) = 6
    BY <1>3, <1>13
  <2>2. /\ Extra("adid", k - 1) + Extra("adty", k - 1) + Extra("adda", k - 1) = OneWireShift
        /\ Extra("da", k - 1) + Extra("xyz", k - 1) = XyzShift
        /\ Extra("ios", k - 1) = IosShift
    BY <1>8, <1>9, <2>1
  <2>3. /\ Extra("adid", k - 1) \in Int /\ Extra("adty", k - 1) \in Int
        /\ Extra("adda", k - 1) \in Int /\ Extra("da", k - 1) \in Int
        /\ Extra("xyz", k - 1) \in Int /\ Extra("ios", k - 1) \in Int
    BY <1>2, Extras
  <2> DEFINE a1 == Extra("adid", k - 1)  a2 == Extra("adty", k - 1)  a3 == Extra("adda", k - 1)
             a4 == Extra("da", k - 1)    a5 == Extra("xyz", k - 1)   a6 == Extra("ios", k - 1)
  <2>4. Shift(k - 1) = a1 + a2 + a3 + a4 + a5 + a6
    BY DEF Shift
  <2>5. /\ a1 \in Int /\ a2 \in Int /\ a3 \in Int /\ a4 \in Int /\ a5 \in Int /\ a6 \in Int
        /\ a1 + a2 + a3 = OneWireShift /\ a4 + a5 = XyzShift /\ a6 = IosShift
    BY <2>2, <2>3
  <2>. HIDE DEF a1, a2, a3, a4, a5, a6
  <2>6. Shift(k - 1) = OneWireShift + XyzShift + IosShift
    BY <1>10, <2>4, <2>5
  <2>. QED  BY <1>3, <1>13, <2>6
<1>14. CASE f = "ios" /\ ~Has(def, "anum")
  <2>1. ~Has(def, "adid") /\ ~Has(def, "da")
    BY <1>1, <1>14, Whole DEF InLayout
  <2>2. ~Past("adid", k - 1) /\ ~Past("da", k - 1) /\ ~Past("ios", k - 1)
    BY <1>2, <1>14, <2>1, Ordered
  <2>3. Shift(k - 1) = 0
    BY <1>5, <1>6, <1>7, <2>2 DEF Shift
  <2>. QED  BY <1>3, <1>14, <2>3
<1>. QED  BY <1>11, <1>12, <1>13, <1>14

-----------------------------------------------------------------------------
(* The columns of the fields.                                              *)

(* The first column of what stands for the k-th field behind the blocks.   *)
ColumnAt(k) == def.acc + Behind + (k - 1) + Shift(k - 1)

LEMMA ColumnTypes ==
  ASSUME Sent
  PROVE  /\ Len(Line) \in Nat
         /\ \A c : c \in Column <=> c \in Int /\ c - def.acc + 1 \in 1..Len(Line)
         /\ \A c \in Column : Field(c) = Line[c - def.acc + 1] /\ Get(c) = {c}
<1>1. Len(Line) \in Nat /\ def.acc \in Nat \ {0}
  BY SentTypes, LineLaid
<1>2. Column = def.acc .. (def.acc + Len(Line) - 1)
  BY DEF Column
<1>. DEFINE n == Len(Line)
            a == def.acc
<1>3. n \in Nat /\ a \in Nat \ {0} /\ Column = a .. (a + n - 1)
  BY <1>1, <1>2
<1>4. \A c \in Column : Field(c) = Line[c - def.acc + 1]
  BY DEF Field
<1>5. \A c : Get(c) = IF c > 0 /\ c < a + n THEN {c} ELSE {}
  BY DEF Get
<1>. HIDE DEF n, a
<1>6. \A c : c \in Column <=> c \in Int /\ c - a + 1 \in 1..n
  BY <1>3
<1>7. \A c \in Column : Get(c) = {c}
  BY <1>3, <1>5
<1>. QED  BY <1>1, <1>4, <1>6, <1>7 DEF n, a

(* The field is in the line, whole, where ColumnAt says.                   *)
LEMMA InLine ==
  ASSUME Sent, Complete, NEW k \in 1..Len(def.tail), NEW r \in 1..Len(Part_(k))
  PROVE  /\ ColumnAt(k) + (r - 1) \in Column
         /\ Field(ColumnAt(k) + (r - 1)) = Part_(k)[r]
<1>1. PICK o \in [0..Len(def.tail) -> Nat] : Laid(o)
  BY LineLaid
<1>2. /\ Behind + o[k - 1] + r \in 1..Len(Line)
      /\ Line[Behind + o[k - 1] + r] = Part_(k)[r]
  BY <1>1 DEF Laid
<1>3. /\ Len(def.tail) \in Nat /\ def.acc \in Nat /\ Behind \in Nat
      /\ k - 1 \in 0..Len(def.tail) /\ r \in Int
  BY SentTypes
<1>4. Shift(k - 1) \in Int /\ o[k - 1] = (k - 1) + Shift(k - 1)
  BY <1>1, <1>3, Offsets
<1>. DEFINE c == ColumnAt(k) + (r - 1)
            h == Shift(k - 1)
            a == def.acc
<1>5. c \in Int /\ c - a + 1 = Behind + o[k - 1] + r
  <2>1. c = a + Behind + (k - 1) + h + (r - 1) /\ o[k - 1] = (k - 1) + h
        /\ h \in Int /\ a \in Int /\ Behind \in Int /\ k \in Int /\ r \in Int
    BY <1>3, <1>4 DEF ColumnAt
  <2>. HIDE DEF c, h, a
  <2>. QED  BY <2>1
<1>6. c \in Column
  BY <1>2, <1>5, ColumnTypes
<1>. QED  BY <1>2, <1>5, <1>6, ColumnTypes

(* Nothing else is behind the blocks.                                      *)
LEMMA OnlyInLine ==
  ASSUME Sent, Complete, NEW c \in Column, NEW f \in TailFields, Field(c) = f,
         Has(def, f)
  PROVE  \E k \in 1..Len(def.tail) : \E r \in 1..Len(Part_(k)) :
           c = ColumnAt(k) + (r - 1) /\ Part_(k)[r] = f
<1>1. PICK o \in [0..Len(def.tail) -> Nat] : Laid(o)
  BY LineLaid
<1>. DEFINE i == c - def.acc + 1
<1>2. c \in Int /\ i \in 1..Len(Line) /\ Line[i] = f /\ Len(Line) \in Nat
  BY ColumnTypes
<1>3. /\ def.acc \in Nat /\ Behind \in Nat /\ Len(def.tail) \in Nat
      /\ DOMAIN def.block = 1..12 /\ InLayout(def)
  BY SentTypes
<1>4. ~ (i <= Behind)
  <2>1. SUFFICES ASSUME i <= Behind PROVE FALSE
    OBVIOUS
  <2>2. i \in 1..Behind
    BY <1>2, <1>3, <2>1
  <2>3. Line[i] = def.block[((i - 1) % 12) + 1]
    BY <1>1, <2>2 DEF Laid
  <2>4. ((i - 1) % 12) + 1 \in 1..12
    <3>1. \A j \in Nat \ {0} : ((j - 1) % 12) + 1 \in 1..12
      OBVIOUS
    <3>2. i \in Nat \ {0}
      BY <1>3, <2>2
    <3>. HIDE DEF i
    <3>. QED  BY <3>1, <3>2
  <2>5. f # Reserved
    BY DEF TailFields, Reserved
  <2>6. \A b \in 1..12 : def.block[b] # Reserved => ~Has(def, def.block[b])
    BY <1>3 DEF InLayout
  <2>. HIDE DEF i
  <2>. QED  BY <1>2, <2>3, <2>4, <2>5, <2>6
<1>5. PICK k \in 1..Len(def.tail) : \E r \in 1..Len(Part_(k)) : i = Behind + o[k - 1] + r
  <2>. HIDE DEF i
  <2>. QED  BY <1>1, <1>2, <1>4 DEF Laid
<1>6. PICK r \in 1..Len(Part_(k)) : i = Behind + o[k - 1] + r
  BY <1>5
<1>7. Part_(k)[r] = f
  <2>1. Line[Behind + o[k - 1] + r] = Part_(k)[r]
    BY <1>1 DEF Laid
  <2>. QED  BY <1>2, <1>6, <2>1
<1>8. c = ColumnAt(k) + (r - 1)
  <2>1. k - 1 \in 0..Len(def.tail) /\ r \in Int /\ k \in Int
    BY <1>3
  <2>2. Shift(k - 1) \in Int /\ o[k - 1] = (k - 1) + Shift(k - 1)
    BY <1>1, <2>1, Offsets
  <2> DEFINE h == Shift(k - 1)
             a == def.acc
             p == o[k - 1]
  <2>3. /\ c - a + 1 = Behind + p + r /\ p = (k - 1) + h
        /\ h \in Int /\ a \in Int /\ Behind \in Int /\ c \in Int
        /\ ColumnAt(k) = a + Behind + (k - 1) + h
    BY <1>2, <1>3, <1>6, <2>2 DEF ColumnAt
  <2>. HIDE DEF h, a, p
  <2>. QED  BY <2>1, <2>3
<1>. QED  BY <1>7, <1>8

(* A field that is not of a part that repeats has one column.              *)
LEMMA OneColumn ==
  ASSUME Sent, Complete, NEW k \in 1..Len(def.tail),
         def.tail[k] \in TailFields \ (Special \ {"ios"}), def.tail[k] = "ios" => iospresent
  PROVE  /\ ColumnAt(k) \in Column /\ Field(ColumnAt(k)) = def.tail[k]
         /\ ColumnsOf(def.tail[k]) = {ColumnAt(k)}
         /\ Get(ColumnAt(k)) = {ColumnAt(k)}
<1> DEFINE f == def.tail[k]
<1>1. DOMAIN def.tail = 1..Len(def.tail) /\ Once(def.tail) /\ Has(def, f)
  BY SentTypes DEF InLayout, Has
<1>2. Len(Part_(k)) = 1 /\ Part_(k)[1] = f
  <2>1. Len(Part_(k)) = 1
    BY Widths DEF Width, Special
  <2>2. 1 \in 1..Len(Part_(k))
    BY <2>1
  <2>. QED  BY <2>1, <2>2, Widths DEF Special
<1>3. ColumnAt(k) \in Int
  <2>1. k - 1 \in 0..Len(def.tail) /\ def.acc \in Int /\ Behind \in Int /\ k \in Int
    BY SentTypes
  <2>2. Shift(k - 1) \in Int
    BY <2>1, LineLaid, Offsets
  <2>. QED  BY <2>1, <2>2 DEF ColumnAt
<1>4. ColumnAt(k) \in Column /\ Field(ColumnAt(k)) = f
  <2>1. 1 \in 1..Len(Part_(k)) /\ ColumnAt(k) + (1 - 1) = ColumnAt(k)
    BY <1>2, <1>3
  <2>2. ColumnAt(k) + (1 - 1) \in Column /\ Field(ColumnAt(k) + (1 - 1)) = Part_(k)[1]
    BY <2>1, InLine
  <2>. QED  BY <1>2, <2>1, <2>2
<1>5. ASSUME NEW c \in Column, Field(c) = f PROVE c = ColumnAt(k)
  <2>1. PICK l \in 1..Len(def.tail) : \E r \in 1..Len(Part_(l)) :
               c = ColumnAt(l) + (r - 1) /\ Part_(l)[r] = f
    BY <1>1, <1>5, OnlyInLine
  <2>2. PICK r \in 1..Len(Part_(l)) : c = ColumnAt(l) + (r - 1) /\ Part_(l)[r] = f
    BY <2>1
  <2>3. f \notin {"adid", "adty", "adda", "da", "xyz"} /\ f # Reserved
    BY DEF TailFields, Special, Reserved
  <2>4. \A j \in Int : <<"adid", "adty", "adda">>[(j % 3) + 1] \in {"adid", "adty", "adda"}
                       /\ <<"da", "xyz">>[(j % 2) + 1] \in {"da", "xyz"}
    <3>1. \A j \in Int : (j % 3) + 1 \in {1, 2, 3} /\ (j % 2) + 1 \in {1, 2}
      OBVIOUS
    <3>2. \A j \in {1, 2, 3} : <<"adid", "adty", "adda">>[j] \in {"adid", "adty", "adda"}
      OBVIOUS
    <3>3. \A j \in {1, 2} : <<"da", "xyz">>[j] \in {"da", "xyz"}
      OBVIOUS
    <3>. QED  BY <3>1, <3>2, <3>3
  <2>5. r - 1 \in Int
    OBVIOUS
  <2>6. r = 1 /\ def.tail[l] = f
    <3>. HIDE DEF f
    <3>. QED  BY <2>2, <2>3, <2>4, <2>5, Widths
  <2>7. l = k
    BY <1>1, <2>3, <2>6 DEF Once
  <2>. QED  BY <1>3, <2>2, <2>6, <2>7
<1>6. ColumnsOf(f) = {ColumnAt(k)}
  BY <1>4, <1>5 DEF ColumnsOf
<1>7. Get(ColumnAt(k)) = {ColumnAt(k)}
  BY <1>4, ColumnTypes
<1>. QED  BY <1>4, <1>6, <1>7

(* The column devices.yml has.                                             *)
LEMMA ColumnInEntry ==
  ASSUME Sent, NEW k \in 1..Len(def.tail), def.tail[k] \in TailFields
  PROVE  dp(def.tail[k]) = def.acc + 12 + k - 1 /\ dp(def.tail[k]) > 0
<1> DEFINE f == def.tail[k]
<1>1. /\ DOMAIN def.tail = 1..Len(def.tail) /\ Once(def.tail) /\ Has(def, f) /\ f # Reserved
      /\ Len(def.tail) \in Nat /\ def.acc \in Nat \ {0} /\ Len(def.block) = 12
      /\ DOMAIN def.block = 1..12
  BY SentTypes DEF InLayout, Has, TailFields, Reserved
<1>2. {i \in 1..Len(def.block) : def.block[i] = f} = {}
  BY <1>1, SentTypes DEF InLayout
<1>3. {i \in 1..Len(def.tail) : def.tail[i] = f} = {k}
  BY <1>1 DEF Once
<1>4. Min({k}) = k
  BY DEF Min
<1>5. SelectInSeq(def.block, LAMBDA e : e = f) = 0
  BY <1>2 DEF SelectInSeq
<1>6. SelectInSeq(def.tail, LAMBDA e : e = f) = k
  BY <1>3, <1>4 DEF SelectInSeq
<1>. HIDE DEF f
<1>7. k > 0 /\ k \in Int
  BY <1>1
<1>8. dp(f) = def.acc + 12 + k - 1
  BY <1>5, <1>6, <1>7 DEF dp, BlockLen
<1>. QED  BY <1>1, <1>7, <1>8 DEF f

LEMMA NotInEntry ==
  ASSUME Sent, ~Has(def, "uart")
  PROVE  dp("uart") = -1
<1>1. /\ DOMAIN def.tail = 1..Len(def.tail) /\ DOMAIN def.block = 1..12 /\ Len(def.block) = 12
      /\ def.block \in Seq(BlockFields \cup {"odometer", Reserved})
  BY SentTypes
<1>2. \A i \in 1..12 : def.block[i] # "uart"
  <2>1. \A i \in 1..12 : def.block[i] \in BlockFields \cup {"odometer", Reserved}
    BY <1>1, ElementOfSeq
  <2>. QED  BY <2>1 DEF BlockFields, Reserved
<1>3. {i \in 1..Len(def.block) : def.block[i] = "uart"} = {}
  BY <1>1, <1>2
<1>4. {i \in 1..Len(def.tail) : def.tail[i] = "uart"} = {}
  BY <1>1 DEF Has
<1>5. SelectInSeq(def.block, LAMBDA e : e = "uart") = 0
  BY <1>3 DEF SelectInSeq
<1>6. SelectInSeq(def.tail, LAMBDA e : e = "uart") = 0
  BY <1>4 DEF SelectInSeq
<1>. QED  BY <1>5, <1>6 DEF dp

-----------------------------------------------------------------------------
(* The fields of a position.                                               *)
LEMMA BlockColumns ==
  ASSUME Sent, NEW f \in BlockFields
  PROVE  Columns(f) = ColumnsOf(f)
<1>1. /\ def.acc \in Nat \ {0} /\ InLayout(def) /\ Len(def.block) = 12 /\ DOMAIN def.block = 1..12
      /\ Blocks \in Nat \ {0} /\ Behind \in Nat /\ num \in Nat
  BY SentTypes
<1>2. PICK b \in 1..12 : def.block[b] = f
  BY <1>1 DEF InLayout
<1>3. f # Reserved /\ f \notin TailFields
  BY DEF BlockFields, Reserved, TailFields
<1>4. \A i \in 1..12 : def.block[i] = f => i = b
  BY <1>1, <1>2, <1>3 DEF InLayout, Once
<1>5. dp(f) = def.acc + b - 1
  <2>1. {i \in 1..Len(def.block) : def.block[i] = f} = {b}
    BY <1>1, <1>2, <1>4
  <2>2. Min({b}) = b
    BY DEF Min
  <2>3. SelectInSeq(def.block, LAMBDA e : e = f) = b
    BY <2>1, <2>2 DEF SelectInSeq
  <2>. QED  BY <2>3 DEF dp
<1>6. PICK o \in [0..Len(def.tail) -> Nat] : Laid(o)
  BY LineLaid
<1>7. Behind = 12 * Blocks /\ Reps = Blocks
  BY DEF Behind, BlockLen, Reps, Blocks
<1> DEFINE at(rep) == def.acc + 12 * rep + b - 1
<1>8. ASSUME NEW rep \in 0..(Reps - 1)
      PROVE  at(rep) \in ColumnsOf(f) /\ Get(rep * BlockLen + dp(f)) = {at(rep)}
  <2> DEFINE i == 12 * rep + b
             a == def.acc
  <2>1. a \in Nat \ {0} /\ rep \in 0..(Blocks - 1) /\ Blocks \in Nat \ {0} /\ b \in 1..12
    BY <1>1, <1>7, <1>8
  <2>2. i \in 1..Behind
    BY <1>7, <2>1
  <2>3. ((i - 1) % 12) + 1 = b
    BY <2>1
  <2>4. i \in 1..Len(Line) /\ Line[i] = f
    <3>1. i \in 1..Len(Line) /\ Line[i] = def.block[((i - 1) % 12) + 1]
      <4>. HIDE DEF i
      <4>. QED  BY <1>6, <2>2 DEF Laid
    <3>. QED  BY <1>2, <2>3, <3>1
  <2>5. at(rep) \in Int /\ at(rep) - def.acc + 1 = i
    BY <2>1
  <2>6. at(rep) \in Column
    BY <2>4, <2>5, ColumnTypes
  <2>7. Field(at(rep)) = f /\ Get(at(rep)) = {at(rep)}
    BY <2>4, <2>5, <2>6, ColumnTypes
  <2>8. rep * BlockLen + dp(f) = at(rep)
    BY <1>5, <2>1 DEF BlockLen
  <2>. HIDE DEF at
  <2>. QED  BY <2>6, <2>7, <2>8 DEF ColumnsOf
<1>9. ASSUME NEW c \in ColumnsOf(f) PROVE \E rep \in 0..(Reps - 1) : c = at(rep)
  <2> DEFINE i == c - def.acc + 1
  <2>1. c \in Column /\ Field(c) = f
    BY DEF ColumnsOf
  <2>2. c \in Int /\ i \in 1..Len(Line) /\ Line[i] = f
    BY <2>1, ColumnTypes
  <2>3. CASE i <= Behind
    <3>1. i \in 1..Behind
      BY <1>1, <2>2, <2>3, ColumnTypes
    <3>2. Line[i] = def.block[((i - 1) % 12) + 1]
      <4>. HIDE DEF i
      <4>. QED  BY <1>6, <3>1 DEF Laid
    <3>3. ((i - 1) % 12) + 1 \in 1..12
      <4>1. \A j \in Nat \ {0} : ((j - 1) % 12) + 1 \in 1..12
        OBVIOUS
      <4>2. i \in Nat \ {0}
        BY <1>1, <3>1
      <4>. HIDE DEF i
      <4>. QED  BY <4>1, <4>2
    <3>4. ((i - 1) % 12) + 1 = b
      <4>. HIDE DEF i
      <4>. QED  BY <1>4, <2>2, <3>2, <3>3
    <3> DEFINE rep == (i - 1) \div 12
    <3>5. rep \in 0..(Blocks - 1) /\ i = 12 * rep + b
      <4>1. \A j \in Nat \ {0} : \A n \in Nat : (j <= 12 * n /\ ((j - 1) % 12) + 1 = b)
               => (j - 1) \div 12 \in 0..(n - 1) /\ j = 12 * ((j - 1) \div 12) + b
        OBVIOUS
      <4>2. i \in Nat \ {0} /\ i <= 12 * Blocks
        BY <1>1, <1>7, <3>1
      <4>. HIDE DEF i
      <4>. QED  BY <1>1, <3>4, <4>1, <4>2
    <3>6. c = at(rep)
      <4> DEFINE a == def.acc
      <4>1. c - a + 1 = 12 * rep + b /\ c \in Int /\ a \in Int /\ rep \in Int /\ b \in Int
        BY <1>1, <2>2, <3>5
      <4>2. at(rep) = a + 12 * rep + b - 1
        OBVIOUS
      <4>. HIDE DEF rep, a, at
      <4>. QED  BY <4>1, <4>2
    <3>. HIDE DEF rep, at
    <3>. QED  BY <1>7, <3>5, <3>6
  <2>4. CASE ~ (i <= Behind)
    <3>1. PICK k \in 1..Len(def.tail) : \E r \in 1..Len(Part_(k)) : i = Behind + o[k - 1] + r
      <4>. HIDE DEF i
      <4>. QED  BY <1>6, <2>2, <2>4 DEF Laid
    <3>2. PICK r \in 1..Len(Part_(k)) : i = Behind + o[k - 1] + r
      BY <3>1
    <3>3. Part_(k)[r] = f
      <4>1. Line[Behind + o[k - 1] + r] = Part_(k)[r]
        BY <1>6 DEF Laid
      <4>. QED  BY <2>2, <3>2, <4>1
    <3>4. Part_(k)[r] \in TailFields \cup {Reserved}
      <4>1. def.tail[k] \in TailFields \cup {Reserved}
        BY SentTypes, ElementOfSeq
      <4>2. Part_(k) \in Seq(TailFields \cup {Reserved})
        BY <4>1, TailParts DEF Part_
      <4>. QED  BY <4>2, ElementOfSeq
    <3>. QED  BY <1>3, <3>3, <3>4
  <2>. QED  BY <2>3, <2>4
<1>10. Columns(f) = ReadBlock(f)
  BY DEF Columns
<1>. HIDE DEF at
<1>11. ReadBlock(f) = UNION {Get(rep * BlockLen + dp(f)) : rep \in 0..(Reps - 1)}
  BY DEF ReadBlock
<1>12. \A c : c \in ReadBlock(f) <=> \E rep \in 0..(Reps - 1) : c = at(rep)
  BY <1>8, <1>11
<1>13. \A c : c \in ColumnsOf(f) <=> \E rep \in 0..(Reps - 1) : c = at(rep)
  BY <1>8, <1>9
<1>14. \A c : c \in ReadBlock(f) <=> c \in ColumnsOf(f)
  BY <1>12, <1>13
<1>15. ReadBlock(f) = ColumnsOf(f)
  BY <1>14
<1>. QED  BY <1>10, <1>15

-----------------------------------------------------------------------------
(* The fields behind the blocks.                                           *)

(* The column of devices.yml, corrected by the blocks and by the parts     *)
(* before it, is the field's.                                              *)
LEMMA Corrected ==
  ASSUME Sent, num > 0, NEW k \in 1..Len(def.tail), def.tail[k] \in TailFields
  PROVE  /\ behind \in Int /\ dp(def.tail[k]) \in Int /\ dp(def.tail[k]) > 0
         /\ Shift(k - 1) \in Int
         /\ ColumnAt(k) \in Int
         /\ ColumnAt(k) = behind + dp(def.tail[k]) + Shift(k - 1)
<1> DEFINE a == def.acc
           h == Shift(k - 1)
           d == dp(def.tail[k])
<1>1. /\ Blocks = num /\ num \in Nat \ {0} /\ a \in Nat \ {0} /\ k \in Int
      /\ k - 1 \in 0..Len(def.tail)
  BY SentTypes
<1>2. h \in Int
  <2>1. \A f \in Special : Extra(f, k - 1) \in Int
    BY Extras DEF Special, TailFields
  <2> DEFINE a1 == Extra("adid", k - 1)  a2 == Extra("adty", k - 1)  a3 == Extra("adda", k - 1)
             a4 == Extra("da", k - 1)    a5 == Extra("xyz", k - 1)   a6 == Extra("ios", k - 1)
  <2>2. a1 \in Int /\ a2 \in Int /\ a3 \in Int /\ a4 \in Int /\ a5 \in Int /\ a6 \in Int
    BY <2>1 DEF Special
  <2>3. h = a1 + a2 + a3 + a4 + a5 + a6
    BY DEF Shift
  <2>. HIDE DEF a1, a2, a3, a4, a5, a6, h
  <2>. QED  BY <2>2, <2>3
<1>3. d = a + 12 + k - 1 /\ d > 0
  BY ColumnInEntry
<1>4. behind = (num - 1) * 12 /\ Behind = 12 * num
  BY <1>1 DEF behind, Behind, BlockLen
<1>5. ColumnAt(k) = a + Behind + (k - 1) + h
  BY DEF ColumnAt
<1>. HIDE DEF a, h, d
<1>6. behind \in Int /\ d \in Int /\ ColumnAt(k) \in Int /\ ColumnAt(k) = behind + d + h
  BY <1>1, <1>2, <1>3, <1>4, <1>5
<1>. QED  BY <1>2, <1>3, <1>6 DEF a, h, d

(* The parts a complete line has.                                          *)
LEMMA Present ==
  ASSUME Sent, Complete
  PROVE  /\ ac100present /\ canpresent
         /\ xyzpresent <=> Has(def, "dgn")
         /\ ~Has(def, "anum") => onewire = 1
<1>1. InLayout(def) /\ erim \subseteq {p \in Part : HasPart(def, p)}
      /\ \A p \in Part : HasPart(def, p) => p \in erim
  BY SentTypes DEF Sent, Complete
<1>2. /\ def.erim => Has(def, "anum") /\ Has(def, "can")
      /\ Has(def, "dgn") => def.erim
  BY <1>1 DEF InLayout
<1>3. /\ Has(def, "anum") => "ac100" \in erim
      /\ Has(def, "can") => "can" \in erim
      /\ Has(def, "dgn") <=> "xyz" \in erim
  BY <1>1 DEF HasPart, Part
<1>4. ~Has(def, "anum") => onewire = 1
  BY DEF Sent
<1>. QED  BY <1>2, <1>3, <1>4 DEF ac100present, canpresent, xyzpresent

(* The values handle_report() decides by.                                  *)
LEMMA UartRead ==
  ASSUME Sent, Complete, num > 0, Has(def, "uart") \/ NotUart \notin twos
  PROVE  /\ anum = IF Has(def, "anum") THEN onewire ELSE 0
         /\ ac100number = onewire
         /\ AnyValue(Get(behind + dp("uart"))) = 2 <=> Has(def, "anum")
<1>1. /\ onewire \in Nat \ {0} /\ DOMAIN def.tail = 1..Len(def.tail)
      /\ Has(def, "uart") <=> Has(def, "anum")
  BY SentTypes, Whole
<1>2. ac100present
  BY Present
<1>3. CASE Has(def, "anum")
  <2>1. PICK k \in 1..Len(def.tail) : def.tail[k] = "uart"
    BY <1>1, <1>3 DEF Has
  <2>2. PICK l \in 1..Len(def.tail) : def.tail[l] = "anum"
    BY <1>1, <1>3 DEF Has
  <2>3. /\ "uart" \in TailFields \ Special /\ "anum" \in TailFields \ Special
        /\ Place("uart") = 0 /\ Place("anum") = 0
    BY DEF TailFields, Special, Place
  <2>4. Shift(k - 1) = 0 /\ Shift(l - 1) = 0
    BY <2>1, <2>2, <2>3, Shifts
  <2>5. behind + dp("uart") = ColumnAt(k)
    BY <2>1, <2>3, <2>4, Corrected
  <2>6. behind + dp("anum") = ColumnAt(l)
    BY <2>2, <2>3, <2>4, Corrected
  <2>7. /\ Get(ColumnAt(k)) = {ColumnAt(k)} /\ Field(ColumnAt(k)) = "uart"
        /\ Get(ColumnAt(l)) = {ColumnAt(l)} /\ Field(ColumnAt(l)) = "anum"
    BY <2>1, <2>2, <2>3, OneColumn
  <2>8. AnyValue(Get(ColumnAt(k))) = 2
    BY <2>7 DEF AnyValue, Value
  <2>9. AnyValue(Get(ColumnAt(l))) = onewire
    BY <2>7 DEF AnyValue, Value
  <2>10. anum = onewire
    BY <1>2, <2>5, <2>6, <2>8, <2>9 DEF anum
  <2>. QED  BY <1>1, <1>3, <2>5, <2>8, <2>10 DEF ac100number
<1>4. CASE ~Has(def, "anum")
  <2>1. dp("uart") = -1 /\ NotUart \notin twos
    BY <1>1, <1>4, NotInEntry
  <2> DEFINE c == behind + dp("uart")
  <2>2. num \in Nat \ {0} /\ Blocks = num /\ def.acc \in Nat \ {0}
    BY SentTypes
  <2>3. c = (num - 1) * 12 - 1 /\ Behind = num * 12 /\ c \in Int /\ c = NotUart
    BY <2>1, <2>2 DEF behind, Behind, BlockLen, NotUart
  <2>4. Get(c) \in {{}, {c}}
    BY DEF Get
  <2>5. ASSUME c \in Column PROVE Field(c) \in BlockFields \cup {"odometer", Reserved}
    <3> DEFINE i == c - def.acc + 1
    <3>1. i \in 1..Len(Line) /\ Field(c) = Line[i]
      BY <2>5, ColumnTypes
    <3>2. i \in 1..Behind
      <4> DEFINE a == def.acc
      <4>1. i = c - a + 1 /\ a \in Nat \ {0} /\ i \in Nat \ {0}
        BY <2>2, <3>1, ColumnTypes
      <4>. HIDE DEF i, a, c
      <4>. QED  BY <2>2, <2>3, <4>1
    <3>3. PICK o \in [0..Len(def.tail) -> Nat] : Laid(o)
      BY LineLaid
    <3>4. Line[i] = def.block[((i - 1) % 12) + 1]
      <4>. HIDE DEF i
      <4>. QED  BY <3>2, <3>3 DEF Laid
    <3>5. ((i - 1) % 12) + 1 \in 1..12
      <4>1. \A j \in Nat \ {0} : ((j - 1) % 12) + 1 \in 1..12
        OBVIOUS
      <4>2. i \in Nat \ {0}
        BY <2>2, <2>3, <3>2
      <4>. HIDE DEF i
      <4>. QED  BY <4>1, <4>2
    <3>6. \A j \in 1..12 : def.block[j] \in BlockFields \cup {"odometer", Reserved}
      BY SentTypes, ElementOfSeq
    <3>. HIDE DEF i
    <3>. QED  BY <3>1, <3>4, <3>5, <3>6
  <2>6. Value(c) = 0
    <3>1. Field(c) = "head" \/ Field(c) \in BlockFields \cup {"odometer", Reserved}
      BY <2>5 DEF Field
    <3>. HIDE DEF c
    <3>2. Field(c) \notin {"uart", "anum", "dgn"}
      BY <3>1 DEF BlockFields, Reserved
    <3>. QED  BY <2>1, <2>3, <3>2 DEF Value
  <2>7. AnyValue(Get(c)) # 2
    <3>. HIDE DEF c
    <3>. QED  BY <2>1, <2>4, <2>6 DEF AnyValue
  <2>8. anum = 0
    BY <2>7 DEF anum
  <2>. QED  BY <1>4, <2>7, <2>8, Present DEF ac100number
<1>. QED  BY <1>3, <1>4

LEMMA DgnRead ==
  ASSUME Sent, Complete, num > 0, onewire = 1 \/ ~Has(def, "dgn")
  PROVE  /\ xyzcount = IF Has(def, "dgn") THEN dgn ELSE 0
         /\ xyznumber = IF Has(def, "dgn") THEN dgn ELSE 1
         /\ \A k \in 1..Len(def.tail) : def.tail[k] = "dgn" =>
              behind + dp("dgn") = ColumnAt(k) /\ Get(ColumnAt(k)) = {ColumnAt(k)}
<1>1. dgn \in Nat \ {0} /\ DOMAIN def.tail = 1..Len(def.tail)
  BY SentTypes
<1>2. ASSUME NEW k \in 1..Len(def.tail), def.tail[k] = "dgn"
      PROVE  /\ behind + dp("dgn") = ColumnAt(k) /\ Get(ColumnAt(k)) = {ColumnAt(k)}
             /\ Value(ColumnAt(k)) = dgn
  <2>1. "dgn" \in TailFields \ Special
    BY DEF TailFields, Special
  <2>2. Has(def, "dgn")
    BY <1>1, <1>2 DEF Has
  <2>3. Shift(k - 1) = 0
    BY <1>2, <2>2, Shifts DEF OneWireShift
  <2>4. behind + dp("dgn") = ColumnAt(k)
    BY <1>2, <2>1, <2>3, Corrected
  <2>5. Get(ColumnAt(k)) = {ColumnAt(k)} /\ Field(ColumnAt(k)) = "dgn"
    BY <1>2, <2>1, OneColumn
  <2>. QED  BY <2>4, <2>5 DEF Value
<1>3. xyzcount = IF Has(def, "dgn") THEN dgn ELSE 0
  <2>1. CASE Has(def, "dgn")
    <3>1. PICK k \in 1..Len(def.tail) : def.tail[k] = "dgn"
      BY <1>1, <2>1 DEF Has
    <3>2. /\ behind + dp("dgn") = ColumnAt(k) /\ Get(ColumnAt(k)) = {ColumnAt(k)}
          /\ Value(ColumnAt(k)) = dgn
      BY <1>2, <3>1
    <3>3. AnyValue({ColumnAt(k)}) = dgn
      BY <3>2 DEF AnyValue
    <3>4. AnyValue(Get(behind + dp("dgn"))) = dgn
      BY <3>2, <3>3
    <3>. QED  BY <2>1, <3>4, Present DEF xyzcount
  <2>2. CASE ~Has(def, "dgn")
    BY <2>2, Present DEF xyzcount
  <2>. QED  BY <2>1, <2>2
<1>. QED  BY <1>1, <1>2, <1>3 DEF xyznumber
(* The fields q stand n times for the k-th field of the entry, and f is    *)
(* the one behind j of them and nowhere else.                              *)
Repeats(k, W, n, q, j, f) ==
  /\ Len(Part_(k)) = W * n
  /\ \A r \in 1..Len(Part_(k)) : Part_(k)[r] = q[((r - 1) % W) + 1]
  /\ j \in 0..(W - 1)
  /\ \A i \in 1..W : q[i] = f <=> i = j + 1
  /\ \A l \in 1..Len(def.tail) : l # k => \A r \in 1..Len(Part_(l)) : Part_(l)[r] # f

(* The columns of f are every W from the one behind j.                     *)
Every(k, W, n, j, f) ==
  /\ \A c : c \in ColumnsOf(f) <=> \E a \in 0..(n - 1) : c = ColumnAt(k) + W * a + j
  /\ \A a \in 0..(n - 1) : Get(ColumnAt(k) + W * a + j) = {ColumnAt(k) + W * a + j}

LEMMA RepeatedColumns ==
  ASSUME Sent, Complete, NEW k \in 1..Len(def.tail), NEW W \in {2, 3}, NEW n \in Nat \ {0},
         NEW q, NEW j, NEW f \in TailFields, Has(def, f), Repeats(k, W, n, q, j, f)
  PROVE  Every(k, W, n, j, f)
<1>0. /\ Len(Part_(k)) = W * n
      /\ \A r \in 1..Len(Part_(k)) : Part_(k)[r] = q[((r - 1) % W) + 1]
      /\ j \in 0..(W - 1)
      /\ \A i \in 1..W : q[i] = f <=> i = j + 1
      /\ \A l \in 1..Len(def.tail) : l # k => \A r \in 1..Len(Part_(l)) : Part_(l)[r] # f
  BY DEF Repeats
<1>a. j \in 0..(W - 1)
  BY <1>0
<1>1. ColumnAt(k) \in Int
  <2>1. k - 1 \in 0..Len(def.tail) /\ def.acc \in Int /\ Behind \in Int /\ k \in Int
    BY SentTypes
  <2>2. Shift(k - 1) \in Int
    BY <2>1, LineLaid, Offsets
  <2>. QED  BY <2>1, <2>2 DEF ColumnAt
<1>2. W = 2 \/ W = 3
  OBVIOUS
<1>3. ASSUME NEW a \in 0..(n - 1)
      PROVE  /\ ColumnAt(k) + W * a + j \in ColumnsOf(f)
             /\ Get(ColumnAt(k) + W * a + j) = {ColumnAt(k) + W * a + j}
  <2> DEFINE r == W * a + j + 1
  <2>1. r \in 1..(W * n) /\ ((r - 1) % W) + 1 = j + 1
    <3>1. r - 1 = W * a + j
      BY <1>a, <1>2
    <3>2. CASE W = 2
      BY <1>a, <3>1, <3>2
    <3>3. CASE W = 3
      <4>1. \A x \in Nat : (3 * x) % 3 = 0 /\ (3 * x + 1) % 3 = 1 /\ (3 * x + 2) % 3 = 2
        OBVIOUS
      <4>2. j = 0 \/ j = 1 \/ j = 2
        BY <1>a, <3>3
      <4>3. a \in Nat /\ (3 * a + j) % 3 = j
        <5>1. a \in Nat
          OBVIOUS
        <5>2. (3 * a) % 3 = 0 /\ (3 * a + 1) % 3 = 1 /\ (3 * a + 2) % 3 = 2 /\ 3 * a + 0 = 3 * a
          BY <4>1, <5>1
        <5>. HIDE DEF r
        <5>3. CASE j = 0
          BY <5>1, <5>2, <5>3
        <5>4. CASE j = 1
          BY <5>1, <5>2, <5>4
        <5>5. CASE j = 2
          BY <5>1, <5>2, <5>5
        <5>. QED  BY <4>2, <5>3, <5>4, <5>5
      <4>4. r - 1 = 3 * a + j /\ r = 3 * a + j + 1
        BY <3>1, <3>3
      <4>5. r \in 1..(3 * n)
        BY <1>a, <4>2, <4>4
      <4>. HIDE DEF r
      <4>. QED  BY <3>3, <4>3, <4>4, <4>5
    <3>. QED  BY <1>2, <3>2, <3>3
  <2>2. r \in 1..Len(Part_(k))
    BY <1>0, <2>1
  <2>3. j + 1 \in 1..W
    BY <1>a, <1>2
  <2>4. ColumnAt(k) + (r - 1) = ColumnAt(k) + W * a + j
    BY <1>a, <1>1, <1>2
  <2>. HIDE DEF r
  <2>5. Part_(k)[r] = f
    BY <1>0, <2>1, <2>2, <2>3
  <2>6. ColumnAt(k) + (r - 1) \in Column /\ Field(ColumnAt(k) + (r - 1)) = f
    BY <2>2, <2>5, InLine
  <2>. QED  BY <2>4, <2>6, ColumnTypes DEF ColumnsOf
<1>4. ASSUME NEW c \in ColumnsOf(f)
      PROVE  \E a \in 0..(n - 1) : c = ColumnAt(k) + W * a + j
  <2>1. c \in Column /\ Field(c) = f
    BY DEF ColumnsOf
  <2>2. PICK l \in 1..Len(def.tail) : \E r \in 1..Len(Part_(l)) :
               c = ColumnAt(l) + (r - 1) /\ Part_(l)[r] = f
    BY <2>1, OnlyInLine
  <2>3. l = k
    BY <1>0, <2>2
  <2>4. PICK r \in 1..Len(Part_(k)) : c = ColumnAt(k) + (r - 1) /\ Part_(k)[r] = f
    BY <2>2, <2>3
  <2>5. r \in 1..(W * n) /\ q[((r - 1) % W) + 1] = f
    BY <1>0, <2>4
  <2>6. r \in Nat \ {0} /\ r <= W * n
    BY <1>2, <2>5
  <2>7. \A m \in Nat \ {0} : ((m - 1) % 2) + 1 \in 1..2 /\ ((m - 1) % 3) + 1 \in 1..3
    OBVIOUS
  <2>8. ((r - 1) % W) + 1 \in 1..W
    BY <1>2, <2>6, <2>7
  <2>9. ((r - 1) % W) + 1 = j + 1
    BY <1>0, <2>5, <2>8
  <2> DEFINE a == (r - 1) \div W
  <2>10. a \in 0..(n - 1) /\ r - 1 = W * a + j
    <3>1. CASE W = 2
      BY <1>a, <2>6, <2>9, <3>1
    <3>2. CASE W = 3
      BY <1>a, <2>6, <2>9, <3>2
    <3>. QED  BY <1>2, <3>1, <3>2
  <2>11. c = ColumnAt(k) + W * a + j
    <3>1. \A x, y, z, v \in Int : v = y + z => x + v = x + y + z
      OBVIOUS
    <3>2. W * a \in Int /\ j \in Int /\ r - 1 \in Int
      BY <1>a, <1>2, <2>6, <2>10
    <3>. HIDE DEF a
    <3>. QED  BY <1>1, <2>4, <2>10, <3>1, <3>2
  <2>. HIDE DEF a
  <2>. QED  BY <2>10, <2>11
<1>. QED  BY <1>3, <1>4 DEF Every

(* Which fields stand where for an entry's field.                          *)
LEMMA PartFields ==
  ASSUME Sent, Complete, NEW l \in 1..Len(def.tail), NEW r \in 1..Len(Part_(l))
  PROVE  /\ Part_(l)[r] \in {"adid", "adty", "adda"} => def.tail[l] = "adid"
         /\ Part_(l)[r] \in {"da", "xyz"} => def.tail[l] = "da"
         /\ Part_(l)[r] = "ios" => def.tail[l] = "ios"
<1>1. \A j \in Int : <<"adid", "adty", "adda">>[(j % 3) + 1] \in {"adid", "adty", "adda"}
                     /\ <<"da", "xyz">>[(j % 2) + 1] \in {"da", "xyz"}
  <2>1. \A j \in Int : (j % 3) + 1 \in {1, 2, 3} /\ (j % 2) + 1 \in {1, 2}
    OBVIOUS
  <2>2. \A j \in {1, 2, 3} : <<"adid", "adty", "adda">>[j] \in {"adid", "adty", "adda"}
    OBVIOUS
  <2>3. \A j \in {1, 2} : <<"da", "xyz">>[j] \in {"da", "xyz"}
    OBVIOUS
  <2>. QED  BY <2>1, <2>2, <2>3
<1>2. r - 1 \in Int
  OBVIOUS
<1>3. \/ def.tail[l] = "adid" /\ Part_(l)[r] \in {"adid", "adty", "adda"}
      \/ def.tail[l] = "da" /\ Part_(l)[r] \in {"da", "xyz"}
      \/ def.tail[l] \notin (Special \ {"ios"}) /\ Part_(l)[r] = def.tail[l]
  BY <1>1, <1>2, Widths
<1>. QED  BY <1>3 DEF Special

(* The repeated 1-wire devices.                                            *)
LEMMA OneWireColumns ==
  ASSUME Sent, Complete, num > 0, Has(def, "uart") \/ NotUart \notin twos,
         NEW f \in {"adid", "adty", "adda"}, Has(def, f)
  PROVE  OneWire(f) = ColumnsOf(f)
<1>1. /\ onewire \in Nat \ {0} /\ DOMAIN def.tail = 1..Len(def.tail) /\ Len(def.tail) \in Nat
      /\ InLayout(def) /\ Once(def.tail)
  BY SentTypes DEF InLayout
<1>2. Has(def, "anum") /\ Has(def, "adid") /\ anum = onewire
  BY Whole, UartRead
<1>3. PICK k \in 1..Len(def.tail) : def.tail[k] = "adid"
  BY <1>1, <1>2 DEF Has
<1>4. /\ k + 1 \in 1..Len(def.tail) /\ def.tail[k + 1] = "adty"
      /\ k + 2 \in 1..Len(def.tail) /\ def.tail[k + 2] = "adda"
  <2>1. Follows(def.tail, "adid", "adty") /\ Follows(def.tail, "adty", "adda")
    BY <1>1 DEF InLayout
  <2>2. k + 1 \in 1..Len(def.tail) /\ def.tail[k + 1] = "adty"
    BY <1>1, <1>3, <2>1 DEF Follows
  <2>3. (k + 1) + 1 \in 1..Len(def.tail) /\ def.tail[(k + 1) + 1] = "adda"
    BY <1>1, <2>1, <2>2 DEF Follows
  <2>4. (k + 1) + 1 = k + 2
    OBVIOUS
  <2>. QED  BY <2>2, <2>3, <2>4
<1> DEFINE q == <<"adid", "adty", "adda">>
           j == IF f = "adid" THEN 0 ELSE IF f = "adty" THEN 1 ELSE 2
<1>5. f \in TailFields /\ "adid" \in TailFields /\ "adty" \in TailFields /\ "adda" \in TailFields
  BY DEF TailFields
<1>6. j \in 0..(3 - 1) /\ \A i \in 1..3 : q[i] = f <=> i = j + 1
  <2>1. \A i \in 1..3 : i = 1 \/ i = 2 \/ i = 3
    OBVIOUS
  <2>. QED  BY <2>1
<1>7. /\ behind \in Int /\ dp("adid") \in Int /\ ColumnAt(k) = behind + dp("adid")
      /\ ColumnAt(k) \in Int
  <2>1. Shift(k - 1) = 0
    BY <1>3, Shifts
  <2>. QED  BY <1>3, <1>5, <2>1, Corrected
<1>8. dp(f) = dp("adid") + j
  <2>1. /\ dp("adid") = def.acc + 12 + k - 1 /\ dp("adty") = def.acc + 12 + (k + 1) - 1
        /\ dp("adda") = def.acc + 12 + (k + 2) - 1
    BY <1>3, <1>4, <1>5, ColumnInEntry
  <2>2. def.acc \in Int /\ k \in Int
    BY SentTypes
  <2>3. CASE f = "adid"
    BY <1>7, <2>3
  <2>4. CASE f = "adty"
    BY <2>1, <2>2, <2>4
  <2>5. CASE f = "adda"
    BY <2>1, <2>2, <2>5
  <2>. QED  BY <2>3, <2>4, <2>5
<1>9. /\ Len(Part_(k)) = 3 * onewire
      /\ \A r \in 1..Len(Part_(k)) : Part_(k)[r] = q[((r - 1) % 3) + 1]
  BY <1>3, Widths DEF Width, Special
<1>10. \A l \in 1..Len(def.tail) : l # k => \A r \in 1..Len(Part_(l)) : Part_(l)[r] # f
  <2>1. \A l \in 1..Len(def.tail) : def.tail[l] = "adid" => l = k
    BY <1>1, <1>3 DEF Once, Reserved
  <2>. QED  BY <2>1, PartFields
<1>. HIDE DEF q, j
<1>11. Every(k, 3, onewire, j, f)
  <2>1. Repeats(k, 3, onewire, q, j, f)
    BY <1>6, <1>9, <1>10 DEF Repeats
  <2>2. 3 \in {2, 3}
    OBVIOUS
  <2>. QED  BY <1>1, <1>5, <2>1, <2>2, RepeatedColumns
<1>12. \A a \in 0..(onewire - 1) :
         Get(behind + a * 3 + dp(f)) = {ColumnAt(k) + 3 * a + j}
  <2>1. ASSUME NEW a \in 0..(onewire - 1)
        PROVE  behind + a * 3 + dp(f) = ColumnAt(k) + 3 * a + j
    BY <1>1, <1>6, <1>7, <1>8
  <2>. QED  BY <1>11, <2>1 DEF Every
<1>13. \A c : c \in OneWire(f) <=> \E a \in 0..(onewire - 1) : c = ColumnAt(k) + 3 * a + j
  BY <1>2, <1>12 DEF OneWire
<1>14. \A c : c \in OneWire(f) <=> c \in ColumnsOf(f)
  BY <1>11, <1>13 DEF Every
<1>. QED  BY <1>14

(* The repeated accelerometer data.                                        *)
LEMMA XyzColumns ==
  ASSUME Sent, Complete, num > 0, onewire = 1, NEW f \in {"da", "xyz"}, Has(def, f)
  PROVE  Xyz(f) = ColumnsOf(f)
<1>1. /\ dgn \in Nat \ {0} /\ DOMAIN def.tail = 1..Len(def.tail) /\ Len(def.tail) \in Nat
      /\ InLayout(def) /\ Once(def.tail)
  BY SentTypes DEF InLayout
<1>2. Has(def, "dgn") /\ Has(def, "da") /\ xyzcount = dgn
  BY Whole, DgnRead
<1>3. PICK k \in 1..Len(def.tail) : def.tail[k] = "da"
  BY <1>1, <1>2 DEF Has
<1>4. k + 1 \in 1..Len(def.tail) /\ def.tail[k + 1] = "xyz"
  <2>1. Follows(def.tail, "da", "xyz")
    BY <1>1 DEF InLayout
  <2>. QED  BY <1>1, <1>3, <2>1 DEF Follows
<1> DEFINE q == <<"da", "xyz">>
           j == IF f = "da" THEN 0 ELSE 1
<1>5. f \in TailFields /\ "da" \in TailFields /\ "xyz" \in TailFields
  BY DEF TailFields
<1>6. j \in 0..(2 - 1) /\ \A i \in 1..2 : q[i] = f <=> i = j + 1
  <2>1. \A i \in 1..2 : i = 1 \/ i = 2
    OBVIOUS
  <2>. QED  BY <2>1
<1>7. /\ behind \in Int /\ dp("da") \in Int /\ ColumnAt(k) = behind + dp("da")
      /\ ColumnAt(k) \in Int
  <2>1. Shift(k - 1) = 0
    BY <1>3, Shifts DEF OneWireShift
  <2>. QED  BY <1>3, <1>5, <2>1, Corrected
<1>8. dp(f) = dp("da") + j
  <2>1. dp("da") = def.acc + 12 + k - 1 /\ dp("xyz") = def.acc + 12 + (k + 1) - 1
    BY <1>3, <1>4, <1>5, ColumnInEntry
  <2>2. def.acc \in Int /\ k \in Int
    BY SentTypes
  <2>3. CASE f = "da"
    BY <1>7, <2>3
  <2>4. CASE f = "xyz"
    BY <2>1, <2>2, <2>4
  <2>. QED  BY <2>3, <2>4
<1>9. /\ Len(Part_(k)) = 2 * dgn
      /\ \A r \in 1..Len(Part_(k)) : Part_(k)[r] = q[((r - 1) % 2) + 1]
  BY <1>3, Widths DEF Width, Special
<1>10. \A l \in 1..Len(def.tail) : l # k => \A r \in 1..Len(Part_(l)) : Part_(l)[r] # f
  <2>1. \A l \in 1..Len(def.tail) : def.tail[l] = "da" => l = k
    BY <1>1, <1>3 DEF Once, Reserved
  <2>. QED  BY <2>1, PartFields
<1>. HIDE DEF q, j
<1>11. Every(k, 2, dgn, j, f)
  <2>1. Repeats(k, 2, dgn, q, j, f)
    BY <1>6, <1>9, <1>10 DEF Repeats
  <2>2. 2 \in {2, 3}
    OBVIOUS
  <2>. QED  BY <1>1, <1>5, <2>1, <2>2, RepeatedColumns
<1>12. \A x \in 0..(dgn - 1) : Get(behind + x * 2 + dp(f)) = {ColumnAt(k) + 2 * x + j}
  <2>1. ASSUME NEW x \in 0..(dgn - 1)
        PROVE  behind + x * 2 + dp(f) = ColumnAt(k) + 2 * x + j
    BY <1>1, <1>6, <1>7, <1>8
  <2>. QED  BY <1>11, <2>1 DEF Every
<1>13. \A c : c \in Xyz(f) <=> \E x \in 0..(dgn - 1) : c = ColumnAt(k) + 2 * x + j
  BY <1>2, <1>12 DEF Xyz
<1>14. \A c : c \in Xyz(f) <=> c \in ColumnsOf(f)
  BY <1>11, <1>13 DEF Every
<1>. QED  BY <1>14

(* All of them.                                                            *)
LEMMA BehindColumns ==
  ASSUME Sent, Complete, num > 0, Has(def, "uart") \/ NotUart \notin twos,
         NEW f \in TailFields, Has(def, f),
         num = 1 \/ f \notin Unshifted,
         ~Has(def, "anum") \/ f # "ios",
         onewire = 1 \/ f \notin {"dgn", "da", "xyz"},
         onewire = 1 \/ ~Has(def, "dgn") \/ f \notin {"sent", "count"}
  PROVE  Columns(f) = ColumnsOf(f)
<1>1. /\ onewire \in Nat \ {0} /\ dgn \in Nat \ {0} /\ DOMAIN def.tail = 1..Len(def.tail)
      /\ iospresent \in BOOLEAN
  BY SentTypes
<1>2. PICK k \in 1..Len(def.tail) : def.tail[k] = f
  BY <1>1 DEF Has
<1>3. f \notin BlockFields
  BY DEF TailFields, BlockFields
<1>4. /\ f \in Always => Columns(f) = ReadAlways(f)
      /\ f \notin Always => Columns(f) = ReadBehind(f)
  BY <1>3 DEF Columns
<1>5. /\ behind \in Int /\ dp(f) \in Int /\ dp(f) > 0 /\ Shift(k - 1) \in Int
      /\ ColumnAt(k) = behind + dp(f) + Shift(k - 1)
  BY <1>2, Corrected
<1>6. f \notin Special => ColumnsOf(f) = {ColumnAt(k)} /\ Get(ColumnAt(k)) = {ColumnAt(k)}
  BY <1>2, OneColumn DEF Special
<1>7. CASE f \in {"odometer", "rpm", "fcon", "flvl", "batt", "devs"}
  <2>1. f \notin Always /\ f \notin Special /\ Place(f) = 0
    BY <1>7 DEF Always, Special, Place
  <2>2. behind + dp(f) = ColumnAt(k)
    <3>1. Shift(k - 1) = 0
      BY <1>2, <2>1, Shifts
    <3>. QED  BY <1>5, <3>1
  <2>3. ReadBehind(f) = Guarded(f, behind + dp(f))
    BY <1>7 DEF ReadBehind
  <2>4. Guarded(f, ColumnAt(k)) = ColumnsOf(f)
    BY <1>5, <1>6, <2>1 DEF Guarded
  <2>. QED  BY <1>4, <2>1, <2>2, <2>3, <2>4
<1>8. CASE f \in {"uart", "anum"}
  <2>1. f \in Always /\ f \notin Special /\ Place(f) = 0
    BY <1>8 DEF Always, Special, Place
  <2>2. behind + dp(f) = ColumnAt(k)
    <3>1. Shift(k - 1) = 0
      BY <1>2, <2>1, Shifts
    <3>. QED  BY <1>5, <3>1
  <2>3. ReadAlways(f) = Get(behind + dp(f))
    <3>1. CASE f = "uart"
      BY <3>1 DEF ReadAlways
    <3>2. CASE f = "anum"
      <4>1. AnyValue(Get(behind + dp("uart"))) = 2 /\ ac100present
        BY <3>2, UartRead, Present
      <4>. QED  BY <3>2, <4>1 DEF ReadAlways
    <3>. QED  BY <1>8, <3>1, <3>2
  <2>. QED  BY <1>4, <1>6, <2>1, <2>2, <2>3
<1>9. CASE f \in {"adid", "adty", "adda"}
  <2>1. f \in Always /\ ReadAlways(f) = OneWire(f)
    BY <1>9 DEF Always, ReadAlways
  <2>. QED  BY <1>4, <1>9, <2>1, OneWireColumns
<1>10. CASE f = "can"
  <2>1. f \in Always /\ f \notin Special
    BY <1>10 DEF Always, Special
  <2>2. Shift(k - 1) = OneWireShift
    BY <1>2, <1>10, Shifts
  <2>3. (IF ac100present THEN (ac100number - 1) * 3 ELSE 0) = OneWireShift
    <3>1. (onewire - 1) * 3 = 3 * onewire - 3 /\ (1 - 1) * 3 = 0
      BY <1>1
    <3>. QED  BY <3>1, Present, UartRead DEF OneWireShift
  <2>4. ReadAlways(f) = Guarded(f, behind + dp(f) + OneWireShift)
    <3>1. canpresent
      BY Present
    <3>. QED  BY <1>10, <2>3, <3>1 DEF ReadAlways
  <2>5. Guarded(f, ColumnAt(k)) = ColumnsOf(f)
    BY <1>5, <1>6, <2>1 DEF Guarded
  <2>. QED  BY <1>4, <1>5, <2>1, <2>2, <2>4, <2>5
<1>11. CASE f = "dgn"
  <2>1. f \in Always /\ f \notin Special /\ Has(def, "dgn")
    BY <1>11 DEF Always, Special
  <2>2. behind + dp("dgn") = ColumnAt(k)
    BY <1>2, <1>11, DgnRead
  <2>3. ReadAlways(f) = Get(behind + dp("dgn"))
    <3>1. xyzpresent
      BY <2>1, Present
    <3>. QED  BY <1>11, <3>1 DEF ReadAlways
  <2>. QED  BY <1>4, <1>6, <2>1, <2>2, <2>3
<1>12. CASE f \in {"da", "xyz"}
  <2>1. f \in Always /\ ReadAlways(f) = Xyz(f) /\ onewire = 1
    BY <1>12 DEF Always, ReadAlways
  <2>. QED  BY <1>4, <1>12, <2>1, XyzColumns
<1>13. CASE f \in {"sent", "count"}
  <2>1. f \notin Always /\ f \notin Special
    BY <1>13 DEF Always, Special
  <2>2. Shift(k - 1) = OneWireShift + XyzShift + IosShift
    BY <1>2, <1>13, Shifts
  <2>3. /\ ac100present /\ canpresent /\ ac100number = onewire
        /\ xyzpresent <=> Has(def, "dgn")
        /\ Has(def, "dgn") => xyznumber = dgn
        /\ ~Has(def, "anum") => onewire = 1
    BY <1>13, Present, UartRead, DgnRead
  <2>4. OneWireShift \in Int /\ XyzShift \in Int /\ IosShift \in Int
    BY <1>1 DEF OneWireShift, XyzShift, IosShift
  <2>5. (ac100number - 1) * 3 = OneWireShift
    BY <1>1, <2>3 DEF OneWireShift
  <2>6. (IF xyzpresent THEN (xyznumber - 1) * 2 ELSE 0) = XyzShift
    <3>1. (dgn - 1) * 2 = 2 * dgn - 2
      BY <1>1
    <3>. QED  BY <2>3, <3>1 DEF XyzShift
  <2>7. sentShift = behind + IosShift + OneWireShift + 0 + XyzShift
    BY <2>3, <2>5, <2>6 DEF sentShift, IosShift
  <2>8. dp(f) + sentShift = ColumnAt(k)
    <3> DEFINE d == dp(f)
               h == Shift(k - 1)
    <3>1. d \in Int /\ h = OneWireShift + XyzShift + IosShift /\ ColumnAt(k) = behind + d + h
      BY <1>5, <2>2
    <3>2. SUFFICES d + sentShift = ColumnAt(k)
      OBVIOUS
    <3>. HIDE DEF d, h
    <3>. QED  BY <1>5, <2>4, <2>7, <3>1
  <2>9. ReadBehind(f) = Guarded(f, dp(f) + sentShift)
    BY <1>13 DEF ReadBehind
  <2>10. Guarded(f, ColumnAt(k)) = ColumnsOf(f)
    BY <1>5, <1>6, <2>1 DEF Guarded
  <2>. QED  BY <1>4, <2>1, <2>8, <2>9, <2>10
<1>14. CASE f \in {"hmc", "aiv", "din", "dout"}
  <2>1. f \notin Always /\ f \notin Special /\ Place(f) = 0
    BY <1>14 DEF Always, Special, Place
  <2>2. dp(f) = ColumnAt(k)
    <3>1. behind = 0
      BY <1>14 DEF behind, BlockLen, Unshifted
    <3>. QED  BY <1>2, <1>5, <2>1, <3>1, Shifts
  <2>3. ReadBehind(f) = Guarded(f, dp(f))
    BY <1>14 DEF ReadBehind
  <2>4. Guarded(f, ColumnAt(k)) = ColumnsOf(f)
    BY <1>5, <1>6, <2>1 DEF Guarded
  <2>. QED  BY <1>4, <2>1, <2>2, <2>3, <2>4
<1>15. CASE f = "ios" /\ iospresent
  <2>1. f \notin Always /\ f \notin (Special \ {"ios"})
    BY <1>15 DEF Always
  <2>2. dp(f) = ColumnAt(k)
    <3>1. behind = 0
      BY <1>15 DEF behind, BlockLen, Unshifted
    <3>2. Shift(k - 1) = 0
      BY <1>2, <1>15, Shifts
    <3>. QED  BY <1>5, <3>1, <3>2
  <2>3. ReadBehind(f) = Guarded(f, dp(f))
    BY <1>15 DEF ReadBehind
  <2>4. ColumnsOf(f) = {ColumnAt(k)} /\ Get(ColumnAt(k)) = {ColumnAt(k)}
    BY <1>2, <1>15, <2>1, OneColumn
  <2>5. Guarded(f, ColumnAt(k)) = ColumnsOf(f)
    BY <1>5, <2>4 DEF Guarded
  <2>. QED  BY <1>4, <2>1, <2>2, <2>3, <2>5
<1>16. CASE f = "ios" /\ ~iospresent
  <2>1. Columns(f) = {}
    BY <1>4, <1>16 DEF Always, ReadBehind
  <2>2. ASSUME NEW c \in ColumnsOf(f) PROVE FALSE
    <3>1. c \in Column /\ Field(c) = f
      BY DEF ColumnsOf
    <3>2. PICK l \in 1..Len(def.tail) : \E r \in 1..Len(Part_(l)) : Part_(l)[r] = f
      BY <3>1, OnlyInLine
    <3>3. PICK r \in 1..Len(Part_(l)) : Part_(l)[r] = f
      BY <3>2
    <3>4. def.tail[l] = f
      BY <1>16, <3>3, PartFields
    <3>5. Len(Part_(l)) = 0
      BY <1>16, <3>4, Widths DEF Width
    <3>. QED  BY <3>3, <3>5
  <2>. QED  BY <2>1, <2>2
<1>. QED  BY <1>1, <1>7, <1>8, <1>9, <1>10, <1>11, <1>12, <1>13, <1>14, <1>15, <1>16
          DEF TailFields

-----------------------------------------------------------------------------
(* The invariant.                                                          *)

(* What is read is of the line alone.                                      *)
LEMMA ReadOfLine ==
  ASSUME UNCHANGED <<def, num, erim, iospresent, onewire, dgn, twos>>
  PROVE  \A f : Columns(f)' = Columns(f)
<1>1. \A f : dp(f)' = dp(f)
  BY DEF dp, SelectInSeq
<1>2. behind' = behind /\ ac100present' = ac100present /\ canpresent' = canpresent
      /\ xyzpresent' = xyzpresent /\ Reps' = Reps /\ Blocks' = Blocks
  BY DEF behind, ac100present, canpresent, xyzpresent, Reps, Blocks
<1>3. Line' = Line
  <2>1. \A f : TailPart(f)' = TailPart(f)
    BY DEF TailPart
  <2>2. [k \in DOMAIN def.tail |-> TailPart(def.tail[k])]'
          = [k \in DOMAIN def.tail |-> TailPart(def.tail[k])]
    BY <2>1
  <2>. QED  BY <1>2, <2>2 DEF Line
<1>4. Column' = Column
  BY <1>3 DEF Column
<1>5. \A k : Field(k)' = Field(k) /\ Get(k)' = Get(k)
  BY <1>3, <1>4 DEF Field, Get
<1>6. \A k : Value(k)' = Value(k)
  BY <1>5 DEF Value
<1>7. \A K : AnyValue(K)' = AnyValue(K)
  BY <1>6 DEF AnyValue
<1>8. anum' = anum
  BY <1>1, <1>2, <1>5, <1>7 DEF anum
<1>9. ac100number' = ac100number
  BY <1>8 DEF ac100number
<1>10. xyzcount' = xyzcount
  BY <1>1, <1>2, <1>5, <1>7 DEF xyzcount
<1>11. xyznumber' = xyznumber
  BY <1>10 DEF xyznumber
<1>12. sentShift' = sentShift
  BY <1>2, <1>9, <1>11 DEF sentShift
<1>13. \A f, k : Guarded(f, k)' = Guarded(f, k)
  BY <1>1, <1>5 DEF Guarded
<1>14. \A f : OneWire(f)' = OneWire(f) /\ Xyz(f)' = Xyz(f) /\ ReadBlock(f)' = ReadBlock(f)
  BY <1>1, <1>2, <1>5, <1>8, <1>10 DEF OneWire, Xyz, ReadBlock
<1>15. \A f : ReadAlways(f)' = ReadAlways(f)
  BY <1>1, <1>2, <1>5, <1>7, <1>9, <1>13, <1>14 DEF ReadAlways
<1>16. \A f : ReadBehind(f)' = ReadBehind(f)
  BY <1>1, <1>2, <1>12, <1>13 DEF ReadBehind
<1>. QED  BY <1>14, <1>15, <1>16 DEF Columns

(* The line is one that a tracker can send, and what is kept of it is what *)
(* the definitions that stand for handle_report() say (tline.c:671-1203);  *)
(* the theorems below say that these are the right columns.                *)
LEMMA Invariant ==
  Spec => []IInv
<1>1. Init => IInv
  BY DEF Init, IInv
<1>2. IInv /\ [Next]_vars => IInv'
  <2> SUFFICES ASSUME IInv, [Next]_vars PROVE IInv'
    OBVIOUS
  <2>1. CASE Receive
    <3>1. phase' = "line"
      BY <2>1 DEF Receive
    <3>2. Sent'
      <4>1. twos' \subseteq Nat
        BY <2>1, FieldColumnsAssumption DEF Receive
      <4>. QED  BY <2>1, <4>1 DEF Receive, Sent
    <3>. QED  BY <3>1, <3>2 DEF IInv
  <2>2. CASE Read
    <3>1. /\ phase = "line" /\ phase' = "read"
          /\ UNCHANGED <<def, num, erim, iospresent, onewire, dgn, twos>>
          /\ cols' = [f \in BlockFields \cup TailFields |-> Columns(f)]
      BY <2>2 DEF Read
    <3>2. Sent'
      <4>1. Sent
        BY <3>1 DEF IInv
      <4>. QED  BY <3>1, <4>1 DEF Sent, Has, HasPart
    <3>3. \A f : Columns(f)' = Columns(f)
      BY <3>1, ReadOfLine
    <3>. QED  BY <3>1, <3>2, <3>3 DEF IInv
  <2>3. CASE Finish
    BY <2>3 DEF Finish, IInv
  <2>4. CASE UNCHANGED vars
    <3>1. UNCHANGED <<phase, cols>> /\ UNCHANGED <<def, num, erim, iospresent, onewire, dgn, twos>>
      BY <2>4 DEF vars
    <3>2. Sent' <=> Sent
      BY <3>1 DEF Sent, Has, HasPart
    <3>3. \A f : Columns(f)' = Columns(f)
      BY <3>1, ReadOfLine
    <3>. QED  BY <3>1, <3>2, <3>3 DEF IInv
  <2>. QED  BY <2>1, <2>2, <2>3, <2>4 DEF Next
<1>. QED  BY <1>1, <1>2, PTL DEF Spec

(* For every entry that keeps to the layout and any number of positions,   *)
(* the fields of a position are read from their own column of every block  *)
(* of the line and from nowhere else (tline.c:946-1203).                   *)
THEOREM Positions ==
  Spec => []PositionsFromBlocks
<1>1. IInv => PositionsFromBlocks
  <2> SUFFICES ASSUME IInv, Done, NEW f \in BlockFields PROVE cols[f] = ColumnsOf(f)
    BY DEF PositionsFromBlocks
  <2>1. Sent /\ cols[f] = Columns(f)
    BY DEF IInv, Done
  <2>. QED  BY <2>1, BlockColumns
<1>. QED  BY <1>1, Invariant, PTL

(* For every entry that keeps to the layout, the fields behind the blocks  *)
(* of a line with all its optional parts are read from their own columns,  *)
(* whatever the numbers of positions, 1-wire devices and sets of           *)
(* accelerometer data and the values in the other columns, but where       *)
(* BehindBlocksFound says: among others, if the entry has no uart, lines   *)
(* with a 2 in the one column that is taken for it (tline.c:671-937).      *)
THEOREM BehindBlocks ==
  Spec => []BehindBlocksFound
<1>1. IInv => BehindBlocksFound
  <2> SUFFICES ASSUME IInv, Done, num > 0, Complete, Has(def, "uart") \/ NotUart \notin twos,
                      NEW f \in TailFields, Has(def, f),
                      num = 1 \/ f \notin Unshifted,
                      ~Has(def, "anum") \/ f # "ios",
                      onewire = 1 \/ f \notin {"dgn", "da", "xyz"},
                      onewire = 1 \/ ~Has(def, "dgn") \/ f \notin {"sent", "count"}
               PROVE  cols[f] = ColumnsOf(f)
    BY DEF BehindBlocksFound
  <2>1. Sent /\ cols[f] = Columns(f)
    BY DEF IInv, Done
  <2>. QED  BY <2>1, BehindColumns
<1>. QED  BY <1>1, Invariant, PTL

=============================================================================
