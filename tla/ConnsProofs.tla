----------------------------- MODULE ConnsProofs -----------------------------
(***************************************************************************)
(* Proofs about Conns, for every set of trackers, sockets and addresses    *)
(* and every bound; Conns implements Presence.                             *)
(***************************************************************************)
EXTENDS ConnsPresence, FiniteSetTheorems, SequenceTheorems, WellFoundedInduction, TLAPS

-----------------------------------------------------------------------------
(* The operators on buffers.                                               *)

(* A record found in a buffer ends at a position of the buffer.            *)
LEMMA FirstEndInBuffer ==
  ASSUME NEW S, NEW s \in Seq(S), HasRecord(s)
  PROVE  /\ FirstEnd(s) \in 1..Len(s)
         /\ s[FirstEnd(s)] = End
         /\ \A m \in 1..(FirstEnd(s) - 1) : s[m] # End
<1> DEFINE E == {n \in DOMAIN s : s[n] = End}
<1>1. E # {} /\ E \subseteq Nat
  BY DEF HasRecord
<1>2. PICK n \in E : \A m \in E : ~ (<<m, n>> \in OpToRel(<, Nat))
  BY <1>1, NatLessThanWellFounded, WFMin
<1>3. \A m \in E : ~ (m < n)
  BY <1>1, <1>2 DEF OpToRel
<1>4. s[n] = End /\ \A m \in 1..(n-1) : s[m] # End
  BY <1>1, <1>3
<1>. QED  BY <1>4 DEF FirstEnd

(* What recv() takes and what it leaves make up what was there.            *)
LEMMA SplitAt ==
  ASSUME NEW S, NEW s \in Seq(S), NEW n \in 1..Len(s)
  PROVE  /\ SubSeq(s, 1, n) \in Seq(S)
         /\ SubSeq(s, n + 1, Len(s)) \in Seq(S)
         /\ s = SubSeq(s, 1, n) \o SubSeq(s, n + 1, Len(s))
<1>1. Len(s) \in Nat
  OBVIOUS
<1>2. SubSeq(s, 1, n) \o SubSeq(s, n + 1, Len(s)) = SubSeq(s, 1, Len(s))
  BY <1>1, ConcatAdjacentSubSeq
<1>. QED  BY <1>1, <1>2, SubSeqFull

(* Text and Rest split a buffer at the end of its first record.            *)
LEMMA TextAndRest ==
  ASSUME NEW S, NEW s \in Seq(S), HasRecord(s)
  PROVE  /\ Text(s) \in Seq(S)
         /\ Rest(s) \in Seq(S)
         /\ s = Text(s) \o Rest(s)
BY FirstEndInBuffer, SplitAt DEF Text, Rest

(* The records of a tracker carry its IMEI.                                *)
LEMMA OwnReport ==
  ASSUME NEW i \in Imei, NEW t \in Seq(Own(i))
  PROVE  /\ t \in Seq(Token)
         /\ ReportImei(t) \in {i, None}
         /\ \A v : Locates(t, v) => ReportImei(t) = i
         /\ Kindof(t) = "resp" => ReportImei(t) = i
<1>1. Own(i) \subseteq Token
  BY DEF Own, Token
<1>2. t \in Seq(Token)
  BY <1>1, SeqMonotonic
<1>3. CASE Len(t) = 2
  <2>1. t[1] \in Own(i)
    BY <1>3
  <2>2. CASE t[1] = End
    BY <2>2, <1>2, <1>3 DEF End, Kindof, ReportImei, Locates
  <2>3. CASE \E k \in Kind : t[1] = Body(i, k)
    BY <2>3, <1>2, <1>3 DEF Body, Kind, Kindof, ReportImei, Locates
  <2>. QED  BY <2>1, <2>2, <2>3 DEF Own
<1>4. CASE Len(t) # 2
  BY <1>2, <1>4 DEF Kindof, ReportImei, Locates
<1>. QED  BY <1>3, <1>4

(* Concatenation, by its laws alone.                                       *)
Bytes == Seq(Token)
Cat(s, t) == s \o t

LEMMA CatInBytes ==
  ASSUME NEW s \in Bytes, NEW t \in Bytes
  PROVE  Cat(s, t) \in Bytes
BY ConcatProperties DEF Bytes, Cat

LEMMA CatAssociative ==
  ASSUME NEW s \in Bytes, NEW t \in Bytes, NEW r \in Bytes
  PROVE  Cat(Cat(s, t), r) = Cat(s, Cat(t, r))
BY ConcatAssociative DEF Bytes, Cat

LEMMA CatOfOne ==
  ASSUME NEW s \in Bytes, NEW e \in Token
  PROVE  <<e>> \in Bytes /\ Cat(s, <<e>>) = Append(s, e)
BY AppendIsConcat DEF Bytes, Cat

(* A byte that joins the last of three parts joins the whole.              *)
LEMMA AppendOfConcat ==
  ASSUME NEW s \in Bytes, NEW t \in Bytes, NEW r \in Bytes, NEW e \in Token
  PROVE  Append(s \o t \o r, e) = s \o t \o Append(r, e)
<1>1. Cat(Cat(Cat(s, t), r), <<e>>) = Cat(Cat(s, t), Cat(r, <<e>>))
  BY CatInBytes, CatAssociative, CatOfOne
<1>2. Append(Cat(Cat(s, t), r), e) = Cat(Cat(s, t), Append(r, e))
  BY <1>1, CatInBytes, CatOfOne
<1>. QED  BY <1>2 DEF Cat

(* Bytes that move from the head of a part to the end of the one before it *)
(* leave the whole as it was.                                              *)
LEMMA ConcatRegroup ==
  ASSUME NEW s \in Bytes, NEW t \in Bytes, NEW r \in Bytes, NEW q \in Bytes
  PROVE  Cat(Cat(s, t), Cat(r, q)) = Cat(Cat(s, Cat(t, r)), q)
BY CatInBytes, CatAssociative

-----------------------------------------------------------------------------
(* Every action preserves the invariant, conjunct by conjunct.             *)

LEMMA SendStep ==
  ASSUME IInv, NEW f \in Fd, Send(f)
  PROVE  IInv'
<1>0. PICK t \in Own(who[f]) : /\ wire' = [wire EXCEPT ![f] = Append(@, t)]
                               /\ sent' = [sent EXCEPT ![f] = Append(@, t)]
  BY ConnsAssumption DEF Send, IInv, KernelAgrees, Own
<1>a. f \in known /\ who[f] \in Imei
  BY DEF Send, IInv, KernelAgrees
<1>b. t \in Token
  BY <1>a DEF Own, Token
<1>c. /\ wire \in [Fd -> Seq(Token)] /\ sent \in [Fd -> Seq(Token)]
      /\ mb \in [Fd -> Seq(Token)] /\ done \in [Fd -> Seq(Token)]
  BY DEF IInv, TypeOK
<1>d. UNCHANGED <<peer, who, pc, todo, canRead, active, sock, userData, sendBuf, closeNow,
                  sendAndClose, quiet, known, imei, conn, mb, valid, done, last>>
  BY DEF Send, loopVars, ncVars, coVars
<1>1. TypeOK'
  <2>1. wire' \in [Fd -> Seq(Token)] /\ sent' \in [Fd -> Seq(Token)]
    BY <1>0, <1>b, <1>c, AppendProperties
  <2>. QED  BY <1>d, <2>1 DEF IInv, TypeOK
<1>2. Phases'
  BY DEF IInv, Send, Phases, TypeOK, vars, peerVars, loopVars, ncVars, coVars, obsVars
<1>3. ConnsBySockExact'
  BY DEF IInv, Send, ConnsBySockExact, TypeOK, vars, peerVars, loopVars, ncVars, coVars, obsVars
<1>4. KernelAgrees'
  BY <1>0, <1>a, <1>c, <1>d DEF IInv, KernelAgrees
<1>5. StreamIntact'
  <2>1. PICK c \in active : sock[c] = f
    BY <1>a DEF IInv, ConnsBySockExact
  <2>2. sent[f] = done[f] \o mb[f] \o wire[f]
    BY <2>1 DEF IInv, StreamIntact
  <2>3. PICK s \in Bytes, m \in Bytes, w \in Bytes : s = done[f] /\ m = mb[f] /\ w = wire[f]
    BY <1>c DEF Bytes
  <2>4. Append(s \o m \o w, t) = s \o m \o Append(w, t)
    BY <1>b, AppendOfConcat
  <2>5. sent'[f] = done'[f] \o mb'[f] \o wire'[f]
    BY <1>0, <1>c, <1>d, <2>2, <2>3, <2>4
  <2>6. \A g \in Fd \ {f} : sent'[g] = sent[g] /\ wire'[g] = wire[g]
    BY <1>0, <1>c
  <2>7. \A d \in active : sock[d] \in Fd
    BY DEF IInv, ConnsBySockExact, TypeOK
  <2>. QED  BY <1>d, <2>5, <2>6, <2>7 DEF IInv, StreamIntact
<1>6. OwnRecords'
  <2>1. Append(wire[f], t) \in Seq(Own(who[f]))
    BY <1>a, AppendProperties DEF IInv, OwnRecords
  <2>2. wire'[f] = Append(wire[f], t) /\ \A g \in Fd \ {f} : wire'[g] = wire[g]
    BY <1>0, <1>c
  <2>3. known \subseteq Fd
    BY DEF IInv, TypeOK
  <2>. QED  BY <1>d, <2>1, <2>2, <2>3 DEF IInv, OwnRecords
<1>7. LocatedIsConnected'
  BY DEF IInv, Send, LocatedIsConnected, Identified, vars, peerVars, loopVars, ncVars, coVars, obsVars
<1>8. QuietFlagged'
  BY DEF IInv, Send, QuietFlagged, TypeOK, ConnsBySockExact, vars, peerVars, loopVars, ncVars, coVars, obsVars
<1>. QED  BY <1>1, <1>2, <1>3, <1>4, <1>5, <1>6, <1>7, <1>8 DEF IInv

LEMMA DisconnectStep ==
  ASSUME IInv, NEW f \in Fd, Disconnect(f)
  PROVE  IInv'
<1>. USE ConnsAssumption DEF IInv, Disconnect, vars, peerVars, loopVars, ncVars, coVars, obsVars
<1>1. TypeOK'
  <2>1. peer' = [peer EXCEPT ![f] = "fin"] \/ peer' = [peer EXCEPT ![f] = "rst"]
    OBVIOUS
  <2>2. peer \in [Fd -> {"none", "up", "fin", "rst"}]
    BY DEF TypeOK
  <2>3. peer' \in [Fd -> {"none", "up", "fin", "rst"}]
    BY <2>1, <2>2
  <2>. QED  BY <2>3 DEF TypeOK
<1>2. Phases'
  BY DEF Phases, TypeOK
<1>3. ConnsBySockExact'
  BY DEF ConnsBySockExact, TypeOK
<1>4. KernelAgrees'
  BY DEF KernelAgrees, TypeOK, ConnsBySockExact
<1>5. StreamIntact'
  BY DEF StreamIntact, TypeOK, ConnsBySockExact
<1>6. OwnRecords'
  BY DEF OwnRecords, TypeOK, ConnsBySockExact
<1>7. LocatedIsConnected'
  BY DEF LocatedIsConnected, Identified
<1>8. QuietFlagged'
  BY DEF QuietFlagged, TypeOK, ConnsBySockExact
<1>. QED  BY <1>1, <1>2, <1>3, <1>4, <1>5, <1>6, <1>7, <1>8 DEF IInv

LEMMA SelectStep ==
  ASSUME IInv, Select
  PROVE  IInv'
<1>. USE ConnsAssumption DEF IInv, Select, vars, peerVars, loopVars, ncVars, coVars, obsVars
<1>1. TypeOK'
  BY DEF TypeOK, Min2
<1>2. Phases'
  BY DEF Phases, TypeOK, Min2
<1>3. ConnsBySockExact'
  BY DEF ConnsBySockExact, TypeOK, Min2
<1>4. KernelAgrees'
  BY DEF KernelAgrees, TypeOK, ConnsBySockExact, Min2
<1>5. StreamIntact'
  BY DEF StreamIntact, TypeOK, ConnsBySockExact, Min2
<1>6. OwnRecords'
  BY DEF OwnRecords, TypeOK, ConnsBySockExact, Min2
<1>7. LocatedIsConnected'
  BY DEF LocatedIsConnected, Identified, Min2
<1>8. QuietFlagged'
  BY DEF QuietFlagged, TypeOK, ConnsBySockExact, Min2
<1>. QED  BY <1>1, <1>2, <1>3, <1>4, <1>5, <1>6, <1>7, <1>8 DEF IInv

LEMMA ReadBytesStep ==
  ASSUME IInv, NEW c \in Nc, ReadBytes(c)
  PROVE  IInv'
<1>. DEFINE f == sock[c]
<1>z. c \in active /\ f \in known /\ f \in Fd
  BY DEF ReadBytes, IInv, TypeOK, ConnsBySockExact
<1>0. PICK n \in 1..Len(wire[f]) :
        /\ wire' = [wire EXCEPT ![f] = SubSeq(wire[f], n + 1, Len(wire[f]))]
        /\ mb' = [mb EXCEPT ![f] = mb[f] \o SubSeq(wire[f], 1, n)]
  BY <1>z DEF ReadBytes, IInv, TypeOK
<1>. DEFINE got == SubSeq(wire[f], 1, n)
            left == SubSeq(wire[f], n + 1, Len(wire[f]))
<1>a. c \in active /\ f \in known /\ f \in Fd
  BY <1>z
<1>c. /\ wire \in [Fd -> Seq(Token)] /\ mb \in [Fd -> Seq(Token)]
      /\ mb[f] \in Seq(Token) /\ done[f] \in Seq(Token)
      /\ mb[f] \in Seq(Own(who[f])) /\ wire[f] \in Seq(Own(who[f]))
  BY <1>a DEF IInv, TypeOK, OwnRecords
<1>b. /\ got \in Seq(Token) /\ left \in Seq(Token)
      /\ got \in Seq(Own(who[f])) /\ left \in Seq(Own(who[f]))
      /\ wire[f] = got \o left
  BY <1>0, <1>a, <1>c, SplitAt
<1>d. wire' = [wire EXCEPT ![f] = left] /\ mb' = [mb EXCEPT ![f] = mb[f] \o got]
  BY <1>0
<1>e. UNCHANGED <<peer, who, pc, todo, active, sock, userData, sendBuf, closeNow,
                  sendAndClose, known, imei, conn, valid, sent, done, last>>
  BY DEF ReadBytes, obsVars
<1>. HIDE DEF f, got, left
<1>1. TypeOK'
  <2>1. mb[f] \o got \in Seq(Token)
    BY <1>b, <1>c, ConcatProperties
  <2>2. wire' \in [Fd -> Seq(Token)] /\ mb' \in [Fd -> Seq(Token)]
    BY <1>a, <1>b, <1>c, <1>d, <2>1
  <2>3. quiet' \in [Nc -> 0..(Idle + 1)] /\ canRead' \subseteq todo
    BY ConnsAssumption DEF ReadBytes, IInv, TypeOK
  <2>. QED  BY <1>e, <2>2, <2>3 DEF IInv, TypeOK
<1>2. Phases'
  BY <1>e DEF IInv, Phases
<1>3. ConnsBySockExact'
  BY <1>e DEF IInv, ConnsBySockExact
<1>4. KernelAgrees'
  BY <1>a, <1>c, <1>d, <1>e DEF IInv, KernelAgrees
<1>5. StreamIntact'
  <2>1. sent[f] = done[f] \o mb[f] \o wire[f]
    BY <1>a DEF IInv, StreamIntact, f
  <2>a. PICK s \in Bytes, m \in Bytes, r \in Bytes, w \in Bytes :
             s = done[f] /\ m = mb[f] /\ r = got /\ w = left
    BY <1>b, <1>c DEF Bytes
  <2>b. Cat(Cat(s, m), Cat(r, w)) = Cat(Cat(s, Cat(m, r)), w)
    BY ConcatRegroup
  <2>2. done[f] \o mb[f] \o (got \o left) = done[f] \o (mb[f] \o got) \o left
    BY <2>a, <2>b DEF Cat
  <2>3. wire'[f] = left /\ mb'[f] = mb[f] \o got
    BY <1>a, <1>c, <1>d
  <2>4. sent'[f] = done'[f] \o mb'[f] \o wire'[f]
    BY <1>b, <1>e, <2>1, <2>2, <2>3
  <2>5. \A g \in Fd \ {f} : mb'[g] = mb[g] /\ wire'[g] = wire[g]
    BY <1>c, <1>d
  <2>6. \A d \in active : sock[d] \in Fd
    BY DEF IInv, ConnsBySockExact, TypeOK
  <2>. QED  BY <1>e, <2>4, <2>5, <2>6 DEF IInv, StreamIntact
<1>6. OwnRecords'
  <2>1. mb[f] \o got \in Seq(Own(who[f]))
    BY <1>b, <1>c, ConcatProperties
  <2>. QED  BY <1>a, <1>b, <1>c, <1>d, <1>e, <2>1 DEF IInv, TypeOK, OwnRecords
<1>7. LocatedIsConnected'
  BY <1>e DEF IInv, LocatedIsConnected, Identified
<1>8. QuietFlagged'
  BY <1>a, ConnsAssumption DEF ReadBytes, IInv, QuietFlagged, TypeOK
<1>. QED  BY <1>1, <1>2, <1>3, <1>4, <1>5, <1>6, <1>7, <1>8 DEF IInv

LEMMA ReadEofStep ==
  ASSUME IInv, NEW c \in Nc, ReadEof(c)
  PROVE  IInv'
<1>. USE ConnsAssumption DEF IInv, ReadEof, vars, peerVars, loopVars, ncVars, coVars, obsVars
<1>1. TypeOK'
  BY DEF TypeOK
<1>2. Phases'
  BY DEF Phases, TypeOK
<1>3. ConnsBySockExact'
  BY DEF ConnsBySockExact, TypeOK
<1>4. KernelAgrees'
  BY DEF KernelAgrees, TypeOK, ConnsBySockExact
<1>5. StreamIntact'
  BY DEF StreamIntact, TypeOK, ConnsBySockExact
<1>6. OwnRecords'
  BY DEF OwnRecords, TypeOK, ConnsBySockExact
<1>7. LocatedIsConnected'
  BY DEF LocatedIsConnected, Identified
<1>8. QuietFlagged'
  BY DEF QuietFlagged, TypeOK, ConnsBySockExact
<1>. QED  BY <1>1, <1>2, <1>3, <1>4, <1>5, <1>6, <1>7, <1>8 DEF IInv

LEMMA ReadErrorStep ==
  ASSUME IInv, NEW c \in Nc, ReadError(c)
  PROVE  IInv'
<1>. USE ConnsAssumption DEF IInv, ReadError, vars, peerVars, loopVars, ncVars, coVars, obsVars
<1>1. TypeOK'
  BY DEF TypeOK
<1>2. Phases'
  BY DEF Phases, TypeOK
<1>3. ConnsBySockExact'
  BY DEF ConnsBySockExact, TypeOK
<1>4. KernelAgrees'
  BY DEF KernelAgrees, TypeOK, ConnsBySockExact
<1>5. StreamIntact'
  BY DEF StreamIntact, TypeOK, ConnsBySockExact
<1>6. OwnRecords'
  BY DEF OwnRecords, TypeOK, ConnsBySockExact
<1>7. LocatedIsConnected'
  BY DEF LocatedIsConnected, Identified
<1>8. QuietFlagged'
  BY DEF QuietFlagged, TypeOK, ConnsBySockExact
<1>. QED  BY <1>1, <1>2, <1>3, <1>4, <1>5, <1>6, <1>7, <1>8 DEF IInv

LEMMA SkipStep ==
  ASSUME IInv, NEW c \in Nc, Skip(c)
  PROVE  IInv'
<1>. USE ConnsAssumption DEF IInv, Skip, vars, peerVars, loopVars, ncVars, coVars, obsVars
<1>1. TypeOK'
  BY DEF TypeOK
<1>2. Phases'
  BY DEF Phases, TypeOK
<1>3. ConnsBySockExact'
  BY DEF ConnsBySockExact, TypeOK
<1>4. KernelAgrees'
  BY DEF KernelAgrees, TypeOK, ConnsBySockExact
<1>5. StreamIntact'
  BY DEF StreamIntact, TypeOK, ConnsBySockExact
<1>6. OwnRecords'
  BY DEF OwnRecords, TypeOK, ConnsBySockExact
<1>7. LocatedIsConnected'
  BY DEF LocatedIsConnected, Identified
<1>8. QuietFlagged'
  BY DEF QuietFlagged, TypeOK, ConnsBySockExact
<1>. QED  BY <1>1, <1>2, <1>3, <1>4, <1>5, <1>6, <1>7, <1>8 DEF IInv

LEMMA PollNothingStep ==
  ASSUME IInv, NEW c \in Nc, PollNothing(c)
  PROVE  IInv'
<1>. USE ConnsAssumption DEF IInv, PollNothing, vars, peerVars, loopVars, ncVars, coVars, obsVars
<1>1. TypeOK'
  BY DEF TypeOK, Pending, TooQuiet, Written
<1>2. Phases'
  BY DEF Phases, TypeOK, Pending, TooQuiet, Written
<1>3. ConnsBySockExact'
  BY DEF ConnsBySockExact, TypeOK, Pending, TooQuiet, Written
<1>4. KernelAgrees'
  BY DEF KernelAgrees, TypeOK, ConnsBySockExact, Pending, TooQuiet, Written
<1>5. StreamIntact'
  BY DEF StreamIntact, TypeOK, ConnsBySockExact, Pending, TooQuiet, Written
<1>6. OwnRecords'
  BY DEF OwnRecords, TypeOK, ConnsBySockExact, Pending, TooQuiet, Written
<1>7. LocatedIsConnected'
  BY DEF LocatedIsConnected, Identified, Pending, TooQuiet, Written
<1>8. QuietFlagged'
  <2>1. \A d \in Nc \ {c} : closeNow'[d] = closeNow[d]
    BY DEF TypeOK
  <2>2. c \in active /\ sock[c] \in known
    BY DEF TypeOK, ConnsBySockExact
  <2>3. quiet[c] > Idle => closeNow'[c]
    <3>1. PICK w \in Written(c) : closeNow' = [closeNow EXCEPT ![c] = w = "error" \/ TooQuiet(c)]
      OBVIOUS
    <3>2. closeNow'[c] = (w = "error" \/ TooQuiet(c))
      BY <3>1, Zenon DEF TypeOK
    <3>. QED  BY <2>2, <3>2 DEF TooQuiet
  <2>. QED  BY <2>1, <2>2, <2>3 DEF QuietFlagged, TypeOK
<1>. QED  BY <1>1, <1>2, <1>3, <1>4, <1>5, <1>6, <1>7, <1>8 DEF IInv

LEMMA PollRecordStep ==
  ASSUME IInv, NEW c \in Nc, PollRecord(c)
  PROVE  IInv'
<1>. DEFINE f == sock[c]
            t == Text(mb[f])
            r == Rest(mb[f])
            i == ReportImei(t)
<1>a. c \in active /\ f \in known /\ f \in Fd /\ userData[c] = f
  BY DEF PollRecord, IInv, TypeOK, ConnsBySockExact
<1>b. HasRecord(mb[f]) /\ mb[f] \in Seq(Token) /\ mb[f] \in Seq(Own(who[f]))
  BY <1>a DEF PollRecord, Pending, IInv, TypeOK, OwnRecords
<1>c. /\ t \in Seq(Token) /\ r \in Seq(Token)
      /\ t \in Seq(Own(who[f])) /\ r \in Seq(Own(who[f]))
      /\ mb[f] = t \o r
  BY <1>b, TextAndRest
<1>d. who[f] \in Imei
  BY <1>a DEF IInv, KernelAgrees
<1>e. /\ i \in {who[f], None}
      /\ Locates(t, valid) => i = who[f]
      /\ Kindof(t) = "resp" => i = who[f]
  BY <1>c, <1>d, OwnReport
<1>f. /\ mb' = [mb EXCEPT ![f] = r]
      /\ done' = [done EXCEPT ![f] = @ \o t]
      /\ imei' = [g \in Fd |-> IF g = f /\ imei[g] = None THEN i ELSE imei[g]]
      /\ last' = [j \in Imei |-> IF Locates(t, valid) /\ j = i THEN "loc" ELSE last[j]]
      /\ valid' = IF Kindof(t) = "resp" THEN valid \cup {i} ELSE valid
  BY <1>a DEF PollRecord
<1>g. /\ sendBuf' \in [Nc -> BOOLEAN]
      /\ closeNow' \in [Nc -> BOOLEAN]
      /\ TooQuiet(c) => closeNow'[c]
      /\ \A d \in Nc \ {c} : closeNow'[d] = closeNow[d]
  <2>1. PICK w \in Written(c) :
          /\ sendBuf' = [sendBuf EXCEPT ![c] = (@ /\ w # "all") \/ Responds(t)]
          /\ closeNow' = [closeNow EXCEPT ![c] = w = "error" \/ TooQuiet(c)]
    BY DEF PollRecord
  <2>2. sendBuf \in [Nc -> BOOLEAN] /\ closeNow \in [Nc -> BOOLEAN] /\ Responds(t) \in BOOLEAN
    BY DEF IInv, TypeOK, Responds
  <2>3. (w = "error" \/ TooQuiet(c)) \in BOOLEAN /\ ((sendBuf[c] /\ w # "all") \/ Responds(t)) \in BOOLEAN
    OBVIOUS
  <2>4. closeNow' \in [Nc -> BOOLEAN] /\ sendBuf' \in [Nc -> BOOLEAN]
    BY <2>1, <2>2, <2>3, Zenon
  <2>5. closeNow'[c] = (w = "error" \/ TooQuiet(c))
    BY <2>1, <2>2, Zenon
  <2>6. \A d \in Nc \ {c} : closeNow'[d] = closeNow[d]
    BY <2>1, <2>2
  <2>. QED  BY <2>4, <2>5, <2>6
<1>h. /\ quiet' \in [Nc -> 0..(Idle + 1)]
      /\ quiet'[c] = 0 \/ quiet'[c] = quiet[c]
      /\ \A d \in Nc \ {c} : quiet'[d] = quiet[d]
  BY ConnsAssumption DEF PollRecord, IInv, TypeOK
<1>i. /\ UNCHANGED <<peer, who, wire, pc, canRead, active, sock, userData, sendAndClose,
                     known, conn, sent>>
      /\ todo' = todo \ {c} /\ c \in todo \ canRead /\ pc = "handle"
  BY DEF PollRecord, peerVars
<1>j. /\ mb \in [Fd -> Seq(Token)] /\ done \in [Fd -> Seq(Token)] /\ done[f] \in Seq(Token)
      /\ imei \in [Fd -> Imei \cup {None}]
  BY <1>a DEF IInv, TypeOK
<1>. HIDE DEF f, t, r, i
<1>1. TypeOK'
  <2>1. mb' \in [Fd -> Seq(Token)]
    BY <1>c, <1>f, <1>j
  <2>2. done' \in [Fd -> Seq(Token)]
    <3>1. done[f] \o t \in Seq(Token)
      BY <1>c, <1>j, ConcatProperties
    <3>. QED  BY <1>f, <1>j, <3>1
  <2>3. imei' \in [Fd -> Imei \cup {None}]
    BY <1>d, <1>e, <1>f, <1>j DEF IInv, TypeOK
  <2>4. last' \in [Imei -> {"none", "loc", "lwt"}]
    BY <1>f DEF IInv, TypeOK
  <2>5. valid' \subseteq Imei
    BY <1>d, <1>e, <1>f, <1>j DEF IInv, TypeOK
  <2>. QED  BY <1>g, <1>h, <1>i, <2>1, <2>2, <2>3, <2>4, <2>5 DEF IInv, TypeOK
<1>2. Phases'
  BY DEF IInv, PollRecord, Phases, TypeOK, vars, peerVars, loopVars, ncVars, coVars, obsVars
<1>3. ConnsBySockExact'
  BY DEF IInv, PollRecord, ConnsBySockExact, TypeOK, vars, peerVars, loopVars, ncVars, coVars, obsVars
<1>4. KernelAgrees'
  BY <1>a, <1>f, <1>i, <1>j DEF IInv, KernelAgrees
<1>5. StreamIntact'
  <2>1. sent[f] = done[f] \o (t \o r) \o wire[f]
    BY <1>a, <1>c DEF IInv, StreamIntact, f
  <2>a. PICK s \in Bytes, x \in Bytes, y \in Bytes : s = done[f] /\ x = t /\ y = r
    BY <1>c, <1>j DEF Bytes
  <2>b. (s \o x) \o y = s \o (x \o y)
    BY CatAssociative DEF Cat
  <2>3. (done[f] \o t) \o r = done[f] \o (t \o r)
    BY <2>a, <2>b
  <2>4. sent[f] = done'[f] \o mb'[f] \o wire[f]
    BY <1>a, <1>f, <1>j, <2>1, <2>3
  <2>5. \A g \in Fd \ {f} : mb'[g] = mb[g] /\ done'[g] = done[g]
    BY <1>f, <1>j
  <2>6. \A d \in active : sock[d] \in Fd
    BY DEF IInv, ConnsBySockExact, TypeOK
  <2>. QED  BY <1>i, <2>4, <2>5, <2>6 DEF IInv, StreamIntact
<1>6. OwnRecords'
  BY <1>a, <1>c, <1>e, <1>f, <1>i, <1>j DEF IInv, OwnRecords, TypeOK
<1>7. LocatedIsConnected'
  <2>1. imei'[f] \in Imei \/ i = None
    BY <1>a, <1>d, <1>e, <1>f DEF IInv, OwnRecords
  <2>2. Locates(t, valid) => imei'[f] = i /\ i \in Imei
    BY <1>a, <1>d, <1>e, <1>f DEF IInv, OwnRecords
  <2>3. Identified \subseteq Identified'
    BY <1>a, <1>f, <1>i, <1>j DEF Identified, IInv, TypeOK
  <2>4. Locates(t, valid) => i \in Identified'
    BY <1>a, <1>i, <2>2, ConnsAssumption DEF Identified
  <2>. QED  BY <1>f, <2>3, <2>4 DEF IInv, LocatedIsConnected
<1>8. QuietFlagged'
  BY <1>a, <1>g, <1>h, <1>i, ConnsAssumption DEF IInv, QuietFlagged, TooQuiet, TypeOK, f
<1>. QED  BY <1>1, <1>2, <1>3, <1>4, <1>5, <1>6, <1>7, <1>8 DEF IInv

LEMMA AcceptStep ==
  ASSUME IInv, NEW c \in Nc, NEW f \in Fd, NEW i \in Imei, Accept(c, f, i)
  PROVE  IInv'
<1>a. /\ pc = "handle" /\ todo = {} /\ c \notin active /\ peer[f] = "none" /\ f \notin known
  BY DEF Accept, IInv, KernelAgrees
<1>b. /\ imei' = [imei EXCEPT ![f] = None]
      /\ conn' = [conn EXCEPT ![f] = c]
      /\ mb' = [mb EXCEPT ![f] = <<>>]
      /\ known' = known \cup {f}
      /\ active' = active \cup {c}
      /\ sock' = [sock EXCEPT ![c] = f]
      /\ userData' = [userData EXCEPT ![c] = f]
      /\ pc' = "sweep"
  BY <1>a DEF Accept
<1>c. peer' = [peer EXCEPT ![f] = "up"] /\ who' = [who EXCEPT ![f] = i]
  BY DEF Accept
<1>d. UNCHANGED <<wire, todo, canRead, sendBuf, closeNow, sendAndClose, quiet,
                  valid, sent, done, last>>
  BY DEF Accept, obsVars
<1>e. /\ known \subseteq Fd /\ active \subseteq Nc
      /\ sock \in [Nc -> Fd \cup {None}] /\ userData \in [Nc -> Fd \cup {None}]
      /\ conn \in [Fd -> Nc \cup {None}] /\ imei \in [Fd -> Imei \cup {None}]
      /\ peer \in [Fd -> {"none", "up", "fin", "rst"}] /\ who \in [Fd -> Imei \cup {None}]
      /\ mb \in [Fd -> Seq(Token)]
  BY DEF IInv, TypeOK
<1>f. wire[f] = <<>> /\ sent[f] = <<>> /\ done[f] = <<>>
  BY <1>a DEF IInv, KernelAgrees
<1>g. \A d \in active : sock[d] \in known /\ sock[d] # f
  BY <1>a DEF IInv, ConnsBySockExact
<1>1. TypeOK'
  <2>1. mb' \in [Fd -> Seq(Token)]
    <3>1. <<>> \in Seq(Token)
      BY EmptySeq
    <3>. QED  BY <1>b, <1>e, <3>1
  <2>2. /\ sock' \in [Nc -> Fd \cup {None}] /\ userData' \in [Nc -> Fd \cup {None}]
        /\ conn' \in [Fd -> Nc \cup {None}] /\ imei' \in [Fd -> Imei \cup {None}]
    BY <1>b, <1>e
  <2>3. peer' \in [Fd -> {"none", "up", "fin", "rst"}] /\ who' \in [Fd -> Imei \cup {None}]
    BY <1>c, <1>e
  <2>4. active' \subseteq Nc /\ known' \subseteq Fd /\ todo' \subseteq active' /\ pc' = "sweep"
    BY <1>a, <1>b, <1>d, <1>e
  <2>. QED  BY <1>d, <2>1, <2>2, <2>3, <2>4 DEF IInv, TypeOK
<1>2. Phases'
  BY <1>a, <1>d DEF Phases
<1>3. ConnsBySockExact'
  <2>1. sock'[c] = f /\ userData'[c] = f /\ conn'[f] = c
    BY <1>b, <1>e
  <2>2. \A d \in active : sock'[d] = sock[d] /\ userData'[d] = userData[d]
    BY <1>a, <1>b, <1>e
  <2>3. \A g \in known : conn'[g] = conn[g]
    BY <1>a, <1>b, <1>e
  <2>4. \A d \in active' : userData'[d] = sock'[d] /\ conn'[sock'[d]] = d
    BY <1>b, <1>g, <2>1, <2>2, <2>3 DEF IInv, ConnsBySockExact
  <2>5. known' = {sock'[d] : d \in active'}
    <3>1. \A g \in known' : \E d \in active' : g = sock'[d]
      BY <1>b, <2>1, <2>2 DEF IInv, ConnsBySockExact
    <3>2. \A d \in active' : sock'[d] \in known'
      BY <1>b, <1>g, <2>1, <2>2
    <3>. QED  BY <3>1, <3>2
  <2>. QED  BY <2>4, <2>5 DEF ConnsBySockExact
<1>4. KernelAgrees'
  <2>1. peer'[f] = "up" /\ who'[f] \in Imei /\ f \in known'
    BY <1>b, <1>c, <1>e
  <2>2. \A g \in Fd \ {f} : peer'[g] = peer[g] /\ who'[g] = who[g] /\ (g \in known' <=> g \in known)
    BY <1>b, <1>c, <1>e
  <2>. QED  BY <1>d, <2>1, <2>2 DEF IInv, KernelAgrees
<1>5. StreamIntact'
  <2>1. \A d \in active : sock'[d] = sock[d]
    BY <1>a, <1>b, <1>e
  <2>2. \A g \in known : mb'[g] = mb[g]
    BY <1>a, <1>b, <1>e
  <2>3. \A d \in active : sent'[sock'[d]] = done'[sock'[d]] \o mb'[sock'[d]] \o wire'[sock'[d]]
    BY <1>d, <1>g, <2>1, <2>2 DEF IInv, StreamIntact
  <2>4. sock'[c] = f /\ sent'[f] = <<>> /\ done'[f] = <<>> /\ mb'[f] = <<>> /\ wire'[f] = <<>>
    BY <1>b, <1>d, <1>e, <1>f
  <2>5. <<>> = <<>> \o <<>> \o <<>>
    OBVIOUS
  <2>6. sent'[sock'[c]] = done'[sock'[c]] \o mb'[sock'[c]] \o wire'[sock'[c]]
    BY <2>4, <2>5
  <2>. QED  BY <1>b, <2>3, <2>6 DEF StreamIntact
<1>6. OwnRecords'
  <2>1. \A g \in known : mb'[g] = mb[g] /\ imei'[g] = imei[g] /\ who'[g] = who[g]
    BY <1>a, <1>b, <1>c, <1>e
  <2>2. mb'[f] = <<>> /\ imei'[f] = None /\ wire'[f] = <<>>
    BY <1>b, <1>d, <1>e, <1>f
  <2>3. \A S : <<>> \in Seq(S)
    BY EmptySeq
  <2>. QED  BY <1>b, <1>d, <2>1, <2>2, <2>3 DEF IInv, OwnRecords
<1>7. LocatedIsConnected'
  <2>1. \A g \in known : imei'[g] = imei[g] /\ g \in known'
    BY <1>a, <1>b, <1>e
  <2>2. Identified \subseteq Identified'
    BY <2>1 DEF Identified
  <2>. QED  BY <1>d, <2>2 DEF IInv, LocatedIsConnected
<1>8. QuietFlagged'
  <2>1. quiet[c] = 0 /\ ~(quiet[c] > Idle)
    BY <1>a, ConnsAssumption DEF IInv, QuietFlagged
  <2>. QED  BY <1>a, <1>b, <1>d, <2>1 DEF IInv, QuietFlagged
<1>. QED  BY <1>1, <1>2, <1>3, <1>4, <1>5, <1>6, <1>7, <1>8 DEF IInv

LEMMA NoAcceptStep ==
  ASSUME IInv, NoAccept
  PROVE  IInv'
<1>. USE ConnsAssumption DEF IInv, NoAccept, vars, peerVars, loopVars, ncVars, coVars, obsVars
<1>1. TypeOK'
  BY DEF TypeOK
<1>2. Phases'
  BY DEF Phases, TypeOK
<1>3. ConnsBySockExact'
  BY DEF ConnsBySockExact, TypeOK
<1>4. KernelAgrees'
  BY DEF KernelAgrees, TypeOK, ConnsBySockExact
<1>5. StreamIntact'
  BY DEF StreamIntact, TypeOK, ConnsBySockExact
<1>6. OwnRecords'
  BY DEF OwnRecords, TypeOK, ConnsBySockExact
<1>7. LocatedIsConnected'
  BY DEF LocatedIsConnected, Identified
<1>8. QuietFlagged'
  BY DEF QuietFlagged, TypeOK, ConnsBySockExact
<1>. QED  BY <1>1, <1>2, <1>3, <1>4, <1>5, <1>6, <1>7, <1>8 DEF IInv

LEMMA CloseStep ==
  ASSUME IInv, NEW c \in Nc, Close(c)
  PROVE  IInv'
<1>. DEFINE f == sock[c]
<1>a. c \in active /\ f \in known /\ f \in Fd /\ userData[c] = f /\ pc = "sweep"
  BY DEF Close, Sweeping, Closable, IInv, TypeOK, ConnsBySockExact
<1>b. /\ known' = known \ {f}
      /\ active' = active \ {c}
      /\ imei' = [g \in Fd |-> IF g = f THEN None ELSE imei[g]]
      /\ conn' = [g \in Fd |-> IF g = f THEN None ELSE conn[g]]
      /\ mb' = [g \in Fd |-> IF g = f THEN <<>> ELSE mb[g]]
  BY <1>a DEF Close, delete_conn
<1>c. last' = [j \in Imei |-> IF imei[f] = j /\ LwtDue(j) THEN "lwt" ELSE last[j]]
  BY <1>a, ConnsAssumption DEF Close
<1>d. /\ sock' = [sock EXCEPT ![c] = None]
      /\ userData' = [userData EXCEPT ![c] = None]
      /\ sendBuf' = [sendBuf EXCEPT ![c] = FALSE]
      /\ closeNow' = [closeNow EXCEPT ![c] = FALSE]
      /\ sendAndClose' = [sendAndClose EXCEPT ![c] = FALSE]
      /\ quiet' = [quiet EXCEPT ![c] = 0]
  BY DEF Close
<1>e. /\ peer' = [peer EXCEPT ![f] = "none"]
      /\ who' = [who EXCEPT ![f] = None]
      /\ wire' = [wire EXCEPT ![f] = <<>>]
      /\ sent' = [sent EXCEPT ![f] = <<>>]
      /\ done' = [done EXCEPT ![f] = <<>>]
  BY DEF Close
<1>f. UNCHANGED <<pc, todo, canRead, valid>>
  BY DEF Close, loopVars
<1>g. todo = {} /\ canRead = {}
  BY <1>a DEF IInv, Phases, TypeOK
<1>h. \A d \in active \ {c} : sock[d] \in known \ {f}
  BY <1>a DEF IInv, ConnsBySockExact
<1>i. /\ known \subseteq Fd /\ active \subseteq Nc
      /\ sock \in [Nc -> Fd \cup {None}] /\ userData \in [Nc -> Fd \cup {None}]
      /\ conn \in [Fd -> Nc \cup {None}] /\ imei \in [Fd -> Imei \cup {None}]
  BY DEF IInv, TypeOK
<1>j. /\ peer \in [Fd -> {"none", "up", "fin", "rst"}] /\ who \in [Fd -> Imei \cup {None}]
      /\ wire \in [Fd -> Seq(Token)] /\ sent \in [Fd -> Seq(Token)]
      /\ done \in [Fd -> Seq(Token)] /\ mb \in [Fd -> Seq(Token)]
  BY DEF IInv, TypeOK
<1>. HIDE DEF f
<1>1. TypeOK'
  <2>1. peer' \in [Fd -> {"none", "up", "fin", "rst"}] /\ who' \in [Fd -> Imei \cup {None}]
    BY <1>e, <1>j
  <2>2. /\ wire' \in [Fd -> Seq(Token)] /\ sent' \in [Fd -> Seq(Token)]
        /\ done' \in [Fd -> Seq(Token)] /\ mb' \in [Fd -> Seq(Token)]
    <3>1. <<>> \in Seq(Token)
      BY EmptySeq
    <3>2. wire' \in [Fd -> Seq(Token)]
      BY <3>1, <1>e, <1>j
    <3>3. sent' \in [Fd -> Seq(Token)]
      BY <3>1, <1>e, <1>j
    <3>4. done' \in [Fd -> Seq(Token)]
      BY <3>1, <1>e, <1>j
    <3>5. mb' \in [Fd -> Seq(Token)]
      BY <3>1, <1>b, <1>j
    <3>. QED  BY <3>2, <3>3, <3>4, <3>5
  <2>3. /\ sock' \in [Nc -> Fd \cup {None}] /\ userData' \in [Nc -> Fd \cup {None}]
        /\ conn' \in [Fd -> Nc \cup {None}] /\ imei' \in [Fd -> Imei \cup {None}]
    BY <1>b, <1>d, <1>i
  <2>4. /\ sendBuf' \in [Nc -> BOOLEAN] /\ closeNow' \in [Nc -> BOOLEAN]
        /\ sendAndClose' \in [Nc -> BOOLEAN] /\ quiet' \in [Nc -> 0..(Idle + 1)]
    BY <1>d, ConnsAssumption DEF IInv, TypeOK
  <2>5. last' \in [Imei -> {"none", "loc", "lwt"}]
    BY <1>c DEF IInv, TypeOK
  <2>6. active' \subseteq Nc /\ todo' \subseteq active' /\ canRead' \subseteq todo' /\ known' \subseteq Fd
    BY <1>b, <1>f, <1>g, <1>i
  <2>7. pc' \in {"select", "handle", "sweep", "mqtt"} /\ valid' \subseteq Imei
    BY <1>f DEF IInv, TypeOK
  <2>. QED  BY <2>1, <2>2, <2>3, <2>4, <2>5, <2>6, <2>7 DEF TypeOK
<1>2. Phases'
  BY <1>f, <1>g DEF Phases
<1>3. ConnsBySockExact'
  <2>1. \A d \in active' : sock'[d] = sock[d] /\ userData'[d] = userData[d] /\ sock[d] \in known'
    BY <1>b, <1>d, <1>h, <1>i
  <2>2. \A g \in known' : \E d \in active' : g = sock[d]
    BY <1>b DEF IInv, ConnsBySockExact, f
  <2>3. \A d \in active' : userData'[d] = sock'[d] /\ conn'[sock'[d]] = d
    BY <2>1, <1>b, <1>h, <1>i DEF IInv, ConnsBySockExact
  <2>4. known' = {sock'[d] : d \in active'}
    BY <2>1, <2>2
  <2>. QED  BY <2>3, <2>4 DEF ConnsBySockExact
<1>4. KernelAgrees'
  BY <1>a, <1>b, <1>e, <1>j DEF IInv, KernelAgrees
<1>5. StreamIntact'
  <2>1. \A d \in active' : sock'[d] = sock[d] /\ sock[d] \in Fd \ {f} /\ d \in active
    BY <1>b, <1>d, <1>h, <1>i
  <2>2. \A g \in Fd \ {f} : sent'[g] = sent[g] /\ done'[g] = done[g]
    BY <1>e, <1>j
  <2>3. \A g \in Fd \ {f} : wire'[g] = wire[g] /\ mb'[g] = mb[g]
    <3>1. \A g \in Fd \ {f} : wire'[g] = wire[g]
      BY <1>e, <1>j
    <3>2. \A g \in Fd \ {f} : mb'[g] = mb[g]
      BY <1>b
    <3>. QED  BY <3>1, <3>2
  <2>. SUFFICES ASSUME NEW d \in active'
                PROVE  sent'[sock'[d]] = done'[sock'[d]] \o mb'[sock'[d]] \o wire'[sock'[d]]
    BY DEF StreamIntact
  <2>4. PICK g \in Fd \ {f} : g = sock'[d] /\ g = sock[d]
    BY <2>1
  <2>5. sent[g] = done[g] \o mb[g] \o wire[g]
    BY <2>1, <2>4 DEF IInv, StreamIntact
  <2>6. sent'[g] = sent[g] /\ done'[g] = done[g] /\ mb'[g] = mb[g] /\ wire'[g] = wire[g]
    BY <2>2, <2>3
  <2>. QED  BY <2>4, <2>5, <2>6
<1>6. OwnRecords'
  <2>1. \A g \in Fd \ {f} : /\ who'[g] = who[g] /\ imei'[g] = imei[g]
                             /\ mb'[g] = mb[g] /\ wire'[g] = wire[g]
    BY <1>b, <1>e, <1>j
  <2>. QED  BY <1>b, <1>i, <2>1 DEF IInv, OwnRecords
<1>7. LocatedIsConnected'
  <2>. SUFFICES ASSUME NEW j \in Imei \ {TestImei}, last'[j] = "loc"
                PROVE  j \in Identified'
    BY DEF LocatedIsConnected
  <2>1. last[j] = "loc" /\ ~(imei[f] = j /\ LwtDue(j))
    BY <1>c
  <2>2. PICK g \in known : imei[g] = j
    BY <2>1 DEF IInv, LocatedIsConnected, Identified
  <2>3. CASE g # f
    BY <1>b, <1>i, <2>2, <2>3, ConnsAssumption DEF Identified
  <2>4. CASE g = f
    <3>1. ~ (count_conns(j) < 2)
      BY <2>1, <2>2, <2>4, ConnsAssumption DEF LwtDue
    <3>2. {h \in known : imei[h] = j} # {f}
      BY <3>1, FS_Singleton DEF count_conns
    <3>3. PICK h \in known : imei[h] = j /\ h # f
      BY <2>2, <2>4, <3>2
    <3>. QED  BY <1>b, <1>i, <3>3, ConnsAssumption DEF Identified
  <2>. QED  BY <2>3, <2>4
<1>8. QuietFlagged'
  <2>1. \A d \in Nc \ {c} : quiet'[d] = quiet[d] /\ closeNow'[d] = closeNow[d]
    BY <1>d DEF IInv, TypeOK
  <2>2. quiet'[c] = 0
    BY <1>d, <1>a, <1>i DEF IInv, TypeOK
  <2>. QED  BY <1>b, <1>f, <1>g, <1>i, <2>1, <2>2, ConnsAssumption DEF IInv, QuietFlagged
<1>. QED  BY <1>1, <1>2, <1>3, <1>4, <1>5, <1>6, <1>7, <1>8 DEF IInv

LEMMA SweepDoneStep ==
  ASSUME IInv, SweepDone
  PROVE  IInv'
<1>. USE ConnsAssumption DEF IInv, SweepDone, vars, peerVars, loopVars, ncVars, coVars, obsVars
<1>1. TypeOK'
  BY DEF TypeOK, Sweeping, Closable
<1>2. Phases'
  BY DEF Phases, TypeOK, Sweeping, Closable
<1>3. ConnsBySockExact'
  BY DEF ConnsBySockExact, TypeOK, Sweeping, Closable
<1>4. KernelAgrees'
  BY DEF KernelAgrees, TypeOK, ConnsBySockExact, Sweeping, Closable
<1>5. StreamIntact'
  BY DEF StreamIntact, TypeOK, ConnsBySockExact, Sweeping, Closable
<1>6. OwnRecords'
  BY DEF OwnRecords, TypeOK, ConnsBySockExact, Sweeping, Closable
<1>7. LocatedIsConnected'
  BY DEF LocatedIsConnected, Identified, Sweeping, Closable
<1>8. QuietFlagged'
  BY DEF QuietFlagged, TypeOK, ConnsBySockExact, Sweeping, Closable
<1>. QED  BY <1>1, <1>2, <1>3, <1>4, <1>5, <1>6, <1>7, <1>8 DEF IInv

LEMMA CommandStep ==
  ASSUME IInv, NEW c \in Nc, Command(c)
  PROVE  IInv'
<1>. USE ConnsAssumption DEF IInv, Command, vars, peerVars, loopVars, ncVars, coVars, obsVars
<1>1. TypeOK'
  BY DEF TypeOK
<1>2. Phases'
  BY DEF Phases, TypeOK
<1>3. ConnsBySockExact'
  BY DEF ConnsBySockExact, TypeOK
<1>4. KernelAgrees'
  BY DEF KernelAgrees, TypeOK, ConnsBySockExact
<1>5. StreamIntact'
  BY DEF StreamIntact, TypeOK, ConnsBySockExact
<1>6. OwnRecords'
  BY DEF OwnRecords, TypeOK, ConnsBySockExact
<1>7. LocatedIsConnected'
  BY DEF LocatedIsConnected, Identified
<1>8. QuietFlagged'
  BY DEF QuietFlagged, TypeOK, ConnsBySockExact
<1>. QED  BY <1>1, <1>2, <1>3, <1>4, <1>5, <1>6, <1>7, <1>8 DEF IInv

LEMMA NoCommandStep ==
  ASSUME IInv, NoCommand
  PROVE  IInv'
<1>. USE ConnsAssumption DEF IInv, NoCommand, vars, peerVars, loopVars, ncVars, coVars, obsVars
<1>1. TypeOK'
  BY DEF TypeOK
<1>2. Phases'
  BY DEF Phases, TypeOK
<1>3. ConnsBySockExact'
  BY DEF ConnsBySockExact, TypeOK
<1>4. KernelAgrees'
  BY DEF KernelAgrees, TypeOK, ConnsBySockExact
<1>5. StreamIntact'
  BY DEF StreamIntact, TypeOK, ConnsBySockExact
<1>6. OwnRecords'
  BY DEF OwnRecords, TypeOK, ConnsBySockExact
<1>7. LocatedIsConnected'
  BY DEF LocatedIsConnected, Identified
<1>8. QuietFlagged'
  BY DEF QuietFlagged, TypeOK, ConnsBySockExact
<1>. QED  BY <1>1, <1>2, <1>3, <1>4, <1>5, <1>6, <1>7, <1>8 DEF IInv

-----------------------------------------------------------------------------
(* The invariant holds of every behaviour.                                 *)

LEMMA InitIInv ==
  ASSUME Init
  PROVE  IInv
<1>1. \A S : <<>> \in Seq(S)
  BY EmptySeq
<1>2. TypeOK
  BY <1>1, ConnsAssumption DEF Init, TypeOK
<1>3. Phases /\ ConnsBySockExact /\ StreamIntact /\ OwnRecords
  BY DEF Init, Phases, ConnsBySockExact, StreamIntact, OwnRecords
<1>4. KernelAgrees
  BY DEF Init, KernelAgrees
<1>5. LocatedIsConnected
  BY DEF Init, LocatedIsConnected
<1>6. QuietFlagged
  BY ConnsAssumption DEF Init, QuietFlagged
<1>. QED  BY <1>2, <1>3, <1>4, <1>5, <1>6 DEF IInv

LEMMA StutterStep ==
  ASSUME IInv, UNCHANGED vars
  PROVE  IInv'
<1>1. UNCHANGED <<peer, who, wire, pc, todo, canRead, active, sock, userData, sendBuf, closeNow,
                  sendAndClose, quiet, known, imei, conn, mb, valid, sent, done, last>>
  BY DEF vars, peerVars, loopVars, ncVars, coVars, obsVars
<1>2. TypeOK' /\ Phases' /\ ConnsBySockExact'
  BY <1>1 DEF IInv, TypeOK, Phases, ConnsBySockExact
<1>3. KernelAgrees' /\ OwnRecords' /\ QuietFlagged'
  BY <1>1 DEF IInv, KernelAgrees, OwnRecords, QuietFlagged
<1>4. StreamIntact'
  BY <1>1 DEF IInv, StreamIntact
<1>5. LocatedIsConnected'
  BY <1>1 DEF IInv, LocatedIsConnected, Identified
<1>. QED  BY <1>2, <1>3, <1>4, <1>5 DEF IInv

LEMMA NextIInv ==
  ASSUME IInv, [Next]_vars
  PROVE  IInv'
<1>1. CASE Tracker
  BY <1>1, SendStep, DisconnectStep DEF Tracker
<1>2. ASSUME NEW c \in Nc, ReadBytes(c) \/ ReadEof(c) \/ ReadError(c)
      PROVE  IInv'
  BY <1>2, ReadBytesStep, ReadEofStep, ReadErrorStep
<1>3. ASSUME NEW c \in Nc, Skip(c) \/ PollNothing(c) \/ PollRecord(c)
      PROVE  IInv'
  BY <1>3, SkipStep, PollNothingStep, PollRecordStep
<1>4. ASSUME NEW c \in Nc, NEW f \in Fd, NEW i \in Imei, Accept(c, f, i)
      PROVE  IInv'
  BY <1>4, AcceptStep
<1>5. ASSUME NEW c \in Nc, Close(c) \/ Command(c)
      PROVE  IInv'
  BY <1>5, CloseStep, CommandStep
<1>6. CASE Select \/ NoAccept \/ SweepDone \/ NoCommand
  BY <1>6, SelectStep, NoAcceptStep, SweepDoneStep, NoCommandStep
<1>7. CASE UNCHANGED vars
  BY <1>7, StutterStep
<1>. QED  BY <1>1, <1>2, <1>3, <1>4, <1>5, <1>6, <1>7 DEF Next, Round

(* The inductive invariant: every disjunct of Next keeps every conjunct.   *)
THEOREM Invariant == Spec => []IInv
<1>1. Init => IInv
  BY InitIInv
<1>2. IInv /\ [Next]_vars => IInv'
  BY NextIInv
<1>. QED  BY <1>1, <1>2, PTL DEF Spec

(* Type correctness of the connection core.                                *)
THEOREM TypeCorrect == Spec => []TypeOK
<1>1. IInv => TypeOK
  BY DEF IInv
<1>. QED  BY <1>1, Invariant, PTL

(* However sockets and addresses are reused, conns_by_sock holds exactly   *)
(* the open connections, each under its own socket and with its own        *)
(* mg_connection: the assertion in MG_EV_RECV never fails.                 *)
THEOREM SocketTable == Spec => []ConnsBySockExact
<1>1. IInv => ConnsBySockExact
  BY DEF IInv
<1>. QED  BY <1>1, Invariant, PTL

(* No byte of an open connection is lost, doubled or reordered between     *)
(* recv() and process(), wherever the reads cut the records.               *)
THEOREM Streams == Spec => []StreamIntact
<1>1. IInv => StreamIntact
  BY DEF IInv
<1>. QED  BY <1>1, Invariant, PTL

(* A tracker whose topic last carried a location is connected: the closing *)
(* of its last connection, in whatever order connections come and go, is   *)
(* followed by the pseudo-LWT in the same step.                            *)
THEOREM Located == Spec => []LocatedIsConnected
<1>1. IInv => LocatedIsConnected
  BY DEF IInv
<1>. QED  BY <1>1, Invariant, PTL

(* Every sweep closes what has been without traffic for more than Idle.    *)
THEOREM IdleClosed == Spec => []IdleConnsClosed
<1>1. IInv => IdleConnsClosed
  <2>1. SUFFICES ASSUME IInv, pc = "mqtt", NEW c \in active, ~(quiet[c] <= Idle)
                 PROVE  FALSE
    BY DEF IdleConnsClosed
  <2>2. quiet[c] \in Nat /\ Idle \in Nat
    BY <2>1, ConnsAssumption DEF IInv, TypeOK
  <2>3. quiet[c] > Idle
    BY <2>1, <2>2
  <2>. QED  BY <2>1, <2>3 DEF IInv, QuietFlagged
<1>. QED  BY <1>1, Invariant, PTL

-----------------------------------------------------------------------------
(* Recognition.  That the first record in a buffer is a whole one follows  *)
(* from StreamIntact, as records are sent one behind the other.            *)
Recognition == WholeRecords /\ RecognisedByFirstRecord

(* Where bytes are in a stream of three parts.                             *)
LEMMA InStream ==
  ASSUME NEW s \in Bytes, NEW t \in Bytes, NEW r \in Bytes, NEW m \in 1..Len(t)
  PROVE  Len(s) + m \in DOMAIN (s \o t \o r) /\ (s \o t \o r)[Len(s) + m] = t[m]
<1>1. Len(s) \in Nat /\ Len(t) \in Nat /\ Len(r) \in Nat
  BY DEF Bytes
<1>2. /\ s \o t \in Seq(Token) /\ Len(s \o t) = Len(s) + Len(t)
      /\ (s \o t)[Len(s) + m] = t[m]
  BY <1>1, ConcatProperties DEF Bytes
<1>3. /\ s \o t \o r \in Seq(Token) /\ Len(s \o t \o r) = Len(s) + Len(t) + Len(r)
      /\ (s \o t \o r)[Len(s) + m] = (s \o t)[Len(s) + m]
  BY <1>1, <1>2, ConcatProperties DEF Bytes
<1>4. DOMAIN (s \o t \o r) = 1..(Len(s) + Len(t) + Len(r))
  BY <1>3, LenProperties
<1>. QED  BY <1>1, <1>2, <1>3, <1>4

(* What MG_EV_POLL takes out of a buffer is one body and its End.          *)
LEMMA OneRecord ==
  ASSUME IInv, WholeRecords, NEW f \in known, HasRecord(mb[f])
  PROVE  /\ Text(mb[f]) \in Seq(Token) /\ Len(Text(mb[f])) = 2
         /\ \E k \in Kind : Text(mb[f])[1] = Body(who[f], k)
         /\ Text(mb[f])[2] = End
<1>1. f \in Fd /\ who[f] \in Imei /\ mb[f] \in Seq(Own(who[f]))
  BY DEF IInv, TypeOK, KernelAgrees, OwnRecords
<1>2. PICK s \in Bytes, x \in Bytes, y \in Bytes :
        s = done[f] /\ x = mb[f] /\ y = wire[f] /\ sent[f] = s \o x \o y
  <2>1. PICK c \in active : sock[c] = f
    BY DEF IInv, ConnsBySockExact
  <2>2. sent[f] = done[f] \o mb[f] \o wire[f]
    BY <2>1 DEF IInv, StreamIntact
  <2>3. done[f] \in Bytes /\ mb[f] \in Bytes /\ wire[f] \in Bytes
    BY <1>1 DEF IInv, TypeOK, Bytes
  <2>. QED  BY <2>2, <2>3
<1>3. PICK d \in Nat : d = Len(s) /\ d % 2 = 0
  <2>1. Len(s) \in Nat
    BY DEF Bytes
  <2>2. Len(s) % 2 = 0
    BY <1>1, <1>2 DEF WholeRecords
  <2>. QED  BY <2>1, <2>2
<1>4. \A m \in 1..Len(x) : x[m] = End <=> (d + m) % 2 = 0
  <2>1. ASSUME NEW m \in 1..Len(x) PROVE x[m] = End <=> (d + m) % 2 = 0
    <3>1. d + m \in DOMAIN sent[f] /\ sent[f][d + m] = x[m]
      <4>1. Len(s) + m \in DOMAIN (s \o x \o y) /\ (s \o x \o y)[Len(s) + m] = x[m]
        BY InStream
      <4>. QED  BY <1>2, <1>3, <4>1
    <3>. QED  BY <1>1, <3>1 DEF WholeRecords
  <2>. QED  BY <2>1
<1>5. PICK e \in 1..Len(x) : e = FirstEnd(x) /\ x[e] = End /\ \A m \in 1..(e - 1) : x[m] # End
  BY <1>2, FirstEndInBuffer DEF Bytes
<1>6. Len(x) \in Nat
  BY DEF Bytes
<1>7. e = 2
  <2>1. e # 1
    BY <1>3, <1>4, <1>5
  <2>2. ~(e > 2)
    <3>1. SUFFICES ASSUME e > 2 PROVE FALSE
      OBVIOUS
    <3>2. 2 \in 1..Len(x) /\ 2 \in 1..(e - 1) /\ (d + 2) % 2 = 0
      BY <1>3, <1>5, <1>6, <3>1
    <3>. QED  BY <1>4, <1>5, <3>2
  <2>. QED  BY <1>6, <2>1, <2>2
<1>8. /\ Text(x) \in Seq(Token) /\ Len(Text(x)) = 2
      /\ Text(x)[1] = x[1] /\ Text(x)[2] = x[2]
  <2>1. \A k \in 1..2 : x[k] \in Token
    BY <1>5, <1>6, <1>7 DEF Bytes
  <2>. QED  BY <1>5, <1>7, <2>1, SubSeqProperties DEF Text
<1>9. x[1] \in Own(who[f]) /\ x[1] # End
  BY <1>1, <1>2, <1>5, <1>6, <1>7
<1>. QED  BY <1>2, <1>5, <1>7, <1>8, <1>9 DEF Own

LEMMA SendRecognition ==
  ASSUME IInv, Recognition, NEW f \in Fd, Send(f)
  PROVE  Recognition'
<1>1. PICK t \in Token : /\ sent' = [sent EXCEPT ![f] = Append(@, t)]
                         /\ t = End <=> (sent[f] # <<>> /\ sent[f][Len(sent[f])] # End)
  <2>1. who[f] \in Imei
    BY DEF Send, IInv, KernelAgrees
  <2>2. \A k \in Kinds : Body(who[f], k) \in Token /\ Body(who[f], k) # End
    BY <2>1, ConnsAssumption DEF Token, Body, End, Kind
  <2>3. End \in Token
    BY DEF Token
  <2>. QED  BY <2>2, <2>3 DEF Send
<1>2. UNCHANGED <<known, imei, who, done>>
  BY DEF Send, coVars
<1>3. sent \in [Fd -> Seq(Token)]
  BY DEF IInv, TypeOK
<1>4. PICK l \in Nat : l = Len(sent[f]) /\ DOMAIN sent[f] = 1..l
  BY <1>3, LenProperties
<1>5. /\ sent'[f] = Append(sent[f], t) /\ DOMAIN sent'[f] = 1..(l + 1)
      /\ \A n \in 1..l : sent'[f][n] = sent[f][n]
      /\ sent'[f][l + 1] = t
  <2>1. sent'[f] = Append(sent[f], t) /\ sent[f] \in Seq(Token)
    BY <1>1, <1>3
  <2>2. Append(sent[f], t) \in Seq(Token) /\ Len(Append(sent[f], t)) = l + 1
    BY <1>4, <2>1, AppendProperties
  <2>. QED  BY <1>4, <2>1, <2>2, AppendProperties, LenProperties
<1>6. t = End <=> (l + 1) % 2 = 0
  <2>1. CASE l = 0
    BY <1>1, <1>3, <1>4, <2>1
  <2>2. CASE l # 0
    <3>1. l \in DOMAIN sent[f] /\ sent[f] # <<>>
      BY <1>4, <2>2
    <3>2. sent[f][l] = End <=> l % 2 = 0
      BY <3>1 DEF Recognition, WholeRecords
    <3>3. l % 2 = 0 <=> ~((l + 1) % 2 = 0)
      OBVIOUS
    <3>. QED  BY <1>1, <1>4, <3>1, <3>2, <3>3
  <2>. QED  BY <2>1, <2>2
<1>7. WholeRecords'
  <2>1. \A n \in DOMAIN sent'[f] : sent'[f][n] = End <=> n % 2 = 0
    <3>1. \A n \in 1..l : sent[f][n] = End <=> n % 2 = 0
      BY <1>4 DEF Recognition, WholeRecords
    <3>2. \A n \in 1..(l + 1) : n \in 1..l \/ n = l + 1
      OBVIOUS
    <3>. QED  BY <1>5, <1>6, <3>1, <3>2
  <2>2. \A g \in Fd \ {f} : sent'[g] = sent[g]
    BY <1>1, <1>3
  <2>. QED  BY <1>2, <2>1, <2>2 DEF Recognition, WholeRecords
<1>8. RecognisedByFirstRecord'
  BY <1>2 DEF Recognition, RecognisedByFirstRecord
<1>. QED  BY <1>7, <1>8 DEF Recognition

LEMMA PollRecordRecognition ==
  ASSUME IInv, Recognition, NEW c \in Nc, PollRecord(c)
  PROVE  Recognition'
<1>1. PICK f \in known : /\ f = sock[c] /\ f \in Fd /\ HasRecord(mb[f])
                         /\ userData[c] = f /\ who[f] \in Imei
  BY DEF PollRecord, Pending, IInv, TypeOK, ConnsBySockExact, KernelAgrees
<1>2. PICK t \in Seq(Token), k \in Kind :
        t = Text(mb[f]) /\ Len(t) = 2 /\ t[1] = Body(who[f], k) /\ t[2] = End
  BY <1>1, OneRecord DEF Recognition
<1>3. ReportImei(t) = IF k \in {"resp", "ack", "hbd"} THEN who[f] ELSE None
  BY <1>2 DEF ReportImei, Kindof, Body
<1>4. /\ imei' = [g \in Fd |-> IF g = f /\ imei[g] = None THEN ReportImei(t) ELSE imei[g]]
      /\ done' = [done EXCEPT ![f] = @ \o t]
      /\ UNCHANGED <<who, sent, known>>
  BY <1>1, <1>2 DEF PollRecord, peerVars
<1>5. done \in [Fd -> Seq(Token)] /\ imei \in [Fd -> Imei \cup {None}] /\ known \subseteq Fd
  BY DEF IInv, TypeOK
<1>6. PICK d \in Nat : d = Len(done[f]) /\ DOMAIN done[f] = 1..d
  BY <1>5, LenProperties
<1>7. /\ done'[f] = done[f] \o t /\ Len(done'[f]) = d + 2 /\ DOMAIN done'[f] = 1..(d + 2)
      /\ \A n \in 1..d : done'[f][n] = done[f][n]
      /\ done'[f][d + 1] = t[1] /\ done'[f][d + 2] = t[2]
      /\ \A g \in Fd \ {f} : done'[g] = done[g] /\ imei'[g] = imei[g]
  <2>1. done'[f] = done[f] \o t /\ \A g \in Fd \ {f} : done'[g] = done[g] /\ imei'[g] = imei[g]
    BY <1>4, <1>5
  <2>2. /\ done[f] \o t \in Seq(Token) /\ Len(done[f] \o t) = d + 2
        /\ \A n \in 1..(d + 2) : (done[f] \o t)[n] = IF n <= d THEN done[f][n] ELSE t[n - d]
    <3>1. done[f] \in Seq(Token) /\ Len(done[f]) = d /\ Len(t) = 2
      BY <1>1, <1>2, <1>5, <1>6
    <3>2. /\ done[f] \o t \in Seq(Token)
          /\ Len(done[f] \o t) = Len(done[f]) + Len(t)
          /\ \A i \in 1 .. Len(done[f]) + Len(t) :
               (done[f] \o t)[i] = IF i <= Len(done[f]) THEN done[f][i] ELSE t[i - Len(done[f])]
      BY <3>1, ConcatProperties
    <3>. QED  BY <3>1, <3>2
  <2>3. DOMAIN (done[f] \o t) = 1..(d + 2)
    BY <2>2, LenProperties
  <2>4. /\ \A n \in 1..d : n \in 1..(d + 2) /\ n <= d
        /\ d + 1 \in 1..(d + 2) /\ ~(d + 1 <= d) /\ (d + 1) - d = 1
        /\ d + 2 \in 1..(d + 2) /\ ~(d + 2 <= d) /\ (d + 2) - d = 2
    OBVIOUS
  <2>5. /\ \A n \in 1..d : (done[f] \o t)[n] = done[f][n]
        /\ (done[f] \o t)[d + 1] = t[1] /\ (done[f] \o t)[d + 2] = t[2]
    BY <2>2, <2>4
  <2>. QED  BY <2>1, <2>2, <2>3, <2>5
<1>8. WholeRecords'
  <2>1. Len(done'[f]) % 2 = 0
    <3>1. d % 2 = 0
      BY <1>1, <1>6 DEF Recognition, WholeRecords
    <3>. QED  BY <1>7, <3>1
  <2>. QED  BY <1>4, <1>7, <2>1 DEF Recognition, WholeRecords
<1>9. RecognisedByFirstRecord'
  <2> DEFINE Named(n, s) == s[n].kind \in {"resp", "ack", "hbd"}
  <2>1. (\E n \in DOMAIN done'[f] : Named(n, done'[f]))
        <=> (\E n \in DOMAIN done[f] : Named(n, done[f])) \/ k \in {"resp", "ack", "hbd"}
    <3>1. Named(d + 1, done'[f]) <=> k \in {"resp", "ack", "hbd"}
      BY <1>2, <1>7 DEF Body
    <3>2. ~Named(d + 2, done'[f])
      BY <1>2, <1>7 DEF End
    <3>3. \A n \in 1..d : Named(n, done'[f]) <=> Named(n, done[f])
      BY <1>7
    <3>4. \A n \in 1..(d + 2) : n \in 1..d \/ n = d + 1 \/ n = d + 2
      OBVIOUS
    <3>5. d + 1 \in 1..(d + 2) /\ \A n \in 1..d : n \in 1..(d + 2)
      OBVIOUS
    <3>. HIDE DEF Named
    <3>. QED  BY <1>6, <1>7, <3>1, <3>2, <3>3, <3>4, <3>5
  <2>2. imei'[f] = IF imei[f] = None THEN ReportImei(t) ELSE imei[f]
    BY <1>1, <1>4
  <2>3. imei[f] = IF \E n \in DOMAIN done[f] : Named(n, done[f]) THEN who[f] ELSE None
    BY <1>1 DEF Recognition, RecognisedByFirstRecord
  <2>4. imei'[f] = IF \E n \in DOMAIN done'[f] : Named(n, done'[f]) THEN who[f] ELSE None
    <3>. HIDE DEF Named
    <3>. QED  BY <1>1, <1>3, <2>1, <2>2, <2>3, ConnsAssumption
  <2>. QED  BY <1>4, <1>5, <1>7, <2>4 DEF Recognition, RecognisedByFirstRecord
<1>. QED  BY <1>8, <1>9 DEF Recognition

LEMMA AcceptRecognition ==
  ASSUME IInv, Recognition, NEW c \in Nc, NEW f \in Fd, NEW i \in Imei, Accept(c, f, i)
  PROVE  Recognition'
<1>1. f \notin known /\ done[f] = <<>>
  BY DEF Accept, IInv, KernelAgrees
<1>2. /\ known' = known \cup {f} /\ imei' = [imei EXCEPT ![f] = None]
      /\ who' = [who EXCEPT ![f] = i] /\ UNCHANGED <<sent, done>>
  BY <1>1 DEF Accept, obsVars
<1>3. imei \in [Fd -> Imei \cup {None}] /\ who \in [Fd -> Imei \cup {None}] /\ known \subseteq Fd
  BY DEF IInv, TypeOK
<1>4. imei'[f] = None /\ DOMAIN done'[f] = {}
  BY <1>1, <1>2, <1>3
<1>5. \A g \in known : imei'[g] = imei[g] /\ who'[g] = who[g] /\ done'[g] = done[g]
  BY <1>1, <1>2, <1>3
<1>6. RecognisedByFirstRecord'
  BY <1>2, <1>4, <1>5 DEF Recognition, RecognisedByFirstRecord
<1>. QED  BY <1>2, <1>6 DEF Recognition, WholeRecords

LEMMA CloseRecognition ==
  ASSUME IInv, Recognition, NEW c \in Nc, Close(c)
  PROVE  Recognition'
<1>1. PICK f \in known : f = sock[c] /\ f \in Fd /\ userData[c] = f
  BY DEF Close, Closable, IInv, TypeOK, ConnsBySockExact
<1>2. /\ known' = known \ {f}
      /\ imei' = [g \in Fd |-> IF g = f THEN None ELSE imei[g]]
      /\ who' = [who EXCEPT ![f] = None]
      /\ sent' = [sent EXCEPT ![f] = <<>>] /\ done' = [done EXCEPT ![f] = <<>>]
  BY <1>1 DEF Close, delete_conn
<1>3. /\ sent \in [Fd -> Seq(Token)] /\ done \in [Fd -> Seq(Token)]
      /\ who \in [Fd -> Imei \cup {None}] /\ known \subseteq Fd
  BY DEF IInv, TypeOK
<1>4. /\ sent'[f] = <<>> /\ done'[f] = <<>>
      /\ \A g \in Fd \ {f} : /\ sent'[g] = sent[g] /\ done'[g] = done[g]
                             /\ imei'[g] = imei[g] /\ who'[g] = who[g]
  BY <1>1, <1>2, <1>3
<1>5. DOMAIN <<>> = {} /\ Len(<<>>) = 0
  BY EmptySeq
<1>6. WholeRecords'
  <2>1. (\A n \in DOMAIN sent'[f] : sent'[f][n] = End <=> n % 2 = 0) /\ Len(done'[f]) = 0
    BY <1>4, <1>5
  <2>2. 0 % 2 = 0
    OBVIOUS
  <2>3. ASSUME NEW g \in Fd
        PROVE  /\ \A n \in DOMAIN sent'[g] : sent'[g][n] = End <=> n % 2 = 0
               /\ Len(done'[g]) % 2 = 0
    <3>1. CASE g = f
      BY <2>1, <2>2, <3>1
    <3>2. CASE g # f
      BY <1>4, <3>2 DEF Recognition, WholeRecords
    <3>. QED  BY <3>1, <3>2
  <2>. QED  BY <2>3 DEF WholeRecords
<1>7. RecognisedByFirstRecord'
  BY <1>1, <1>2, <1>3, <1>4 DEF Recognition, RecognisedByFirstRecord
<1>. QED  BY <1>6, <1>7 DEF Recognition

(* A connection is recognised by the first record with an IMEI on it and   *)
(* keeps its tracker's IMEI (qtripp.c:309-315), however TCP cut the        *)
(* records and whichever numbers were in use before.                       *)
THEOREM Recognised == Spec => []RecognisedByFirstRecord
<1>1. Init => Recognition
  <2>1. DOMAIN <<>> = {} /\ Len(<<>>) = 0
    BY EmptySeq
  <2>. QED  BY <2>1 DEF Init, Recognition, WholeRecords, RecognisedByFirstRecord
<1>2. IInv /\ Recognition /\ [Next]_vars => Recognition'
  <2> SUFFICES ASSUME IInv, Recognition, [Next]_vars PROVE Recognition'
    OBVIOUS
  <2>1. CASE UNCHANGED <<known, imei, who, sent, done>>
    BY <2>1 DEF Recognition, WholeRecords, RecognisedByFirstRecord
  <2>2. ASSUME NEW f \in Fd, Send(f) PROVE Recognition'
    BY <2>2, SendRecognition
  <2>3. ASSUME NEW c \in Nc, PollRecord(c) PROVE Recognition'
    BY <2>3, PollRecordRecognition
  <2>4. ASSUME NEW c \in Nc, NEW f \in Fd, NEW i \in Imei, Accept(c, f, i) PROVE Recognition'
    BY <2>4, AcceptRecognition
  <2>5. ASSUME NEW c \in Nc, Close(c) PROVE Recognition'
    BY <2>5, CloseRecognition
  <2>6. CASE \/ Select \/ NoAccept \/ SweepDone \/ NoCommand \/ UNCHANGED vars
             \/ \E f \in Fd : Disconnect(f)
             \/ \E c \in Nc : \/ ReadBytes(c) \/ ReadEof(c) \/ ReadError(c)
                              \/ Skip(c) \/ PollNothing(c) \/ Command(c)
    <3>1. UNCHANGED <<known, imei, who, sent, done>>
      BY <2>6 DEF Select, NoAccept, SweepDone, NoCommand, Disconnect, ReadBytes, ReadEof, ReadError,
                  Skip, PollNothing, Command, vars, peerVars, coVars, obsVars
    <3>. QED  BY <2>1, <3>1
  <2>. QED  BY <2>2, <2>3, <2>4, <2>5, <2>6 DEF Next, Tracker, Round
<1>3. Recognition => RecognisedByFirstRecord
  BY DEF Recognition
<1>. QED  BY <1>1, <1>2, <1>3, Invariant, PTL DEF Spec

-----------------------------------------------------------------------------
(* Conns implements Presence: processing a record is Heard or a stutter,   *)
(* closing a connection is Gone or a stutter, and nothing else shows.      *)

(* A record with an IMEI is Heard of its tracker; another one stutters.    *)
LEMMA PollRecordHeard ==
  ASSUME IInv, NEW c \in Nc, PollRecord(c)
  PROVE  P!Next \/ UNCHANGED <<Identified, last>>
<1>. DEFINE f == sock[c]
            t == Text(mb[f])
            i == ReportImei(t)
<1>a. c \in active /\ f \in known /\ f \in Fd /\ userData[c] = f
  BY DEF PollRecord, IInv, TypeOK, ConnsBySockExact
<1>b. HasRecord(mb[f]) /\ mb[f] \in Seq(Own(who[f]))
  BY <1>a DEF PollRecord, Pending, IInv, OwnRecords
<1>c. t \in Seq(Own(who[f]))
  BY <1>b, TextAndRest
<1>d. who[f] \in Imei /\ imei[f] \in {None, who[f]}
  BY <1>a DEF IInv, KernelAgrees, OwnRecords
<1>e. i \in {who[f], None} /\ (Locates(t, valid) => i = who[f])
  BY <1>c, <1>d, OwnReport
<1>f. /\ imei' = [g \in Fd |-> IF g = f /\ imei[g] = None THEN i ELSE imei[g]]
      /\ last' = [j \in Imei |-> IF Locates(t, valid) /\ j = i THEN "loc" ELSE last[j]]
      /\ known' = known
  BY <1>a DEF PollRecord
<1>g. known \subseteq Fd /\ last \in [Imei -> {"none", "loc", "lwt"}]
  BY DEF IInv, TypeOK
<1>. HIDE DEF f, t, i
<1>1. CASE i = None
  <2>1. last' = last
    BY <1>1, <1>d, <1>e, <1>f, <1>g, ConnsAssumption
  <2>2. \A g \in known : imei'[g] = imei[g]
    BY <1>1, <1>f, <1>g
  <2>3. Identified' = Identified
    BY <1>f, <2>2 DEF Identified
  <2>. QED  BY <2>1, <2>3
<1>2. CASE i # None
  <2>1. i = who[f] /\ i \in Imei
    BY <1>2, <1>d, <1>e
  <2>2. imei'[f] = i /\ \A g \in known \ {f} : imei'[g] = imei[g]
    BY <1>a, <1>d, <1>f, <1>g, <2>1
  <2>3. Identified' = Identified \cup {i}
    <3>1. \A k : k \in Identified' => k \in Identified \cup {i}
      BY <1>f, <2>2 DEF Identified
    <3>2. i \in Identified'
      BY <1>2, <1>a, <1>f, <2>2 DEF Identified
    <3>3. \A k \in Identified : k \in Identified'
      <4>. SUFFICES ASSUME NEW g \in known, imei[g] # None
                    PROVE  imei[g] \in Identified'
        BY DEF Identified
      <4>1. CASE g = f
        BY <4>1, <1>d, <2>1, <3>2
      <4>2. CASE g # f
        BY <4>2, <1>f, <2>2 DEF Identified
      <4>. QED  BY <4>1, <4>2
    <3>. QED  BY <3>1, <3>2, <3>3
  <2>4. last' \in {last, [last EXCEPT ![i] = "loc"]}
    <3>1. CASE Locates(t, valid)
      BY <3>1, <1>f, <1>g, <2>1
    <3>2. CASE ~Locates(t, valid)
      BY <3>2, <1>f, <1>g
    <3>. QED  BY <3>1, <3>2
  <2>5. P!Heard(i)
    BY <2>3, <2>4 DEF P!Heard
  <2>. QED  BY <2>1, <2>5 DEF P!Next
<1>. QED  BY <1>1, <1>2

(* Closing the last recognised connection of a tracker is Gone; closing    *)
(* another one stutters.                                                   *)
LEMMA CloseGone ==
  ASSUME IInv, NEW c \in Nc, Close(c)
  PROVE  P!Next \/ UNCHANGED <<Identified, last>>
<1>. DEFINE f == sock[c]
            j == imei[f]
<1>a. c \in active /\ f \in known /\ f \in Fd /\ userData[c] = f
  BY DEF Close, Sweeping, Closable, IInv, TypeOK, ConnsBySockExact
<1>b. /\ known' = known \ {f}
      /\ imei' = [g \in Fd |-> IF g = f THEN None ELSE imei[g]]
  BY <1>a DEF Close, delete_conn
<1>c. last' = [k \in Imei |-> IF imei[f] = k /\ LwtDue(k) THEN "lwt" ELSE last[k]]
  BY <1>a, ConnsAssumption DEF Close
<1>d. /\ known \subseteq Fd /\ imei \in [Fd -> Imei \cup {None}] /\ j \in Imei \cup {None}
      /\ last \in [Imei -> {"none", "loc", "lwt"}]
  BY <1>a DEF IInv, TypeOK
<1>e. Identified' = {imei[g] : g \in known \ {f}} \ {None}
  BY <1>b, <1>d DEF Identified
<1>. DEFINE others == {h \in known : imei[h] = j} \ {f}
<1>1. CASE j = None
  <2>1. last' = last
    BY <1>1, <1>c, <1>d, ConnsAssumption
  <2>2. Identified' = Identified
    BY <1>1, <1>e DEF Identified
  <2>. QED  BY <2>1, <2>2
<1>2. CASE j \in Imei /\ others # {}
  <2>1. PICK h \in known : imei[h] = j /\ h # f
    BY <1>2
  <2>2. Identified' = Identified
    BY <1>e, <2>1 DEF Identified
  <2>3. ~LwtDue(j)
    <3>1. {f, h} \subseteq {g \in known : imei[g] = j}
      BY <1>a, <2>1
    <3>2. IsFiniteSet({g \in known : imei[g] = j})
      BY <1>d, FS_Subset, ConnsAssumption
    <3>3. Cardinality({f, h}) = 2
      <4>1. IsFiniteSet({f}) /\ Cardinality({f}) = 1 /\ h \notin {f}
        BY <2>1, FS_Singleton
      <4>2. Cardinality({f} \cup {h}) = 2
        BY <4>1, FS_AddElement
      <4>3. {f} \cup {h} = {f, h}
        OBVIOUS
      <4>. QED  BY <4>2, <4>3
    <3>4. count_conns(j) \in Nat /\ 2 <= count_conns(j)
      BY <3>1, <3>2, <3>3, FS_Subset, FS_CardinalityType DEF count_conns
    <3>. QED  BY <3>4 DEF LwtDue
  <2>. QED  BY <1>c, <1>d, <2>2, <2>3
<1>3. CASE j \in Imei /\ others = {}
  <2>1. {h \in known : imei[h] = j} = {f}
    BY <1>3, <1>a
  <2>2. count_conns(j) = 1
    BY <2>1, FS_Singleton DEF count_conns
  <2>3. LwtDue(j) <=> j # TestImei
    BY <1>3, <2>2, ConnsAssumption DEF LwtDue
  <2>4. last' = IF j = TestImei THEN last ELSE [last EXCEPT ![j] = "lwt"]
    BY <1>3, <1>c, <1>d, <2>3
  <2>5. j \in Identified /\ Identified' = Identified \ {j}
    BY <1>3, <1>a, <1>e, <2>1, ConnsAssumption DEF Identified
  <2>6. P!Gone(j)
    BY <2>4, <2>5 DEF P!Gone
  <2>. QED  BY <1>3, <2>6 DEF P!Next
<1>. QED  BY <1>1, <1>2, <1>3, <1>d

(* A new connection is not recognised yet.                                 *)
LEMMA AcceptStutters ==
  ASSUME IInv, NEW c \in Nc, NEW f \in Fd, NEW i \in Imei, Accept(c, f, i)
  PROVE  UNCHANGED <<Identified, last>>
<1>1. f \notin known
  BY DEF Accept, IInv, KernelAgrees
<1>2. known \subseteq Fd /\ imei \in [Fd -> Imei \cup {None}]
  BY DEF IInv, TypeOK
<1>3. imei' = [imei EXCEPT ![f] = None] /\ known' = known \cup {f} /\ last' = last
  BY <1>1 DEF Accept
<1>4. imei'[f] = None /\ \A g \in known : imei'[g] = imei[g]
  BY <1>1, <1>2, <1>3
<1>. QED  BY <1>3, <1>4 DEF Identified

(* No other action is seen by a subscriber.                                *)
LEMMA OthersStutter ==
  ASSUME UNCHANGED <<known, imei, last>>
  PROVE  UNCHANGED <<Identified, last>>
BY DEF Identified

LEMMA StepRefines ==
  ASSUME IInv, [Next]_vars
  PROVE  [P!Next]_<<Identified, last>>
<1>1. CASE Tracker
  BY <1>1, OthersStutter DEF Tracker, Send, Disconnect, coVars
<1>2. ASSUME NEW c \in Nc, ReadBytes(c) \/ ReadEof(c) \/ ReadError(c)
      PROVE  UNCHANGED <<Identified, last>>
  BY <1>2, OthersStutter DEF ReadBytes, ReadEof, ReadError, coVars
<1>3. ASSUME NEW c \in Nc, Skip(c) \/ PollNothing(c) \/ Command(c)
      PROVE  UNCHANGED <<Identified, last>>
  BY <1>3, OthersStutter DEF Skip, PollNothing, Command, coVars
<1>4. CASE Select \/ NoAccept \/ SweepDone \/ NoCommand \/ UNCHANGED vars
  BY <1>4, OthersStutter DEF Select, NoAccept, SweepDone, NoCommand, vars, coVars
<1>5. ASSUME NEW c \in Nc, PollRecord(c) \/ Close(c)
      PROVE  P!Next \/ UNCHANGED <<Identified, last>>
  BY <1>5, PollRecordHeard, CloseGone
<1>. QED  BY <1>1, <1>2, <1>3, <1>4, <1>5, AcceptStutters DEF Next, Round

(* For every set of trackers, sockets and addresses, what is published on  *)
(* the trackers' topics is a behaviour of Presence.                        *)
THEOREM Refinement == Spec => ImplementsPresence
<1>1. Init => P!Init
  BY DEF Init, P!Init, Identified
<1>2. IInv /\ [Next]_vars => [P!Next]_<<Identified, last>>
  BY StepRefines
<1>. QED  BY <1>1, <1>2, Invariant, PTL DEF Spec, P!Spec, ImplementsPresence
=============================================================================
