---------------------------- MODULE ReportsProofs ----------------------------
(***************************************************************************)
(* Proofs about Reports, for every set of trackers, subtypes, positions,   *)
(* times and courses and any number of sub-reports.                        *)
(***************************************************************************)
EXTENDS Reports, TLAPS

(* The fix of the sub-report the loop is at.                               *)
LEMMA FixType ==
  ASSUME TypeOK, LoopState, pc = "loop"
  PROVE  fix \in Fix \cup {None}
<1>1. fixes \in [1..MaxNum -> Fix \cup {None}] /\ rep + 1 \in 1..MaxNum
  BY ReportsAssumption DEF TypeOK, LoopState, Fixes
<1>. QED  BY <1>1 DEF fix

(* A usable fix has a position and a time.                                 *)
LEMMA UsableFix ==
  ASSUME TypeOK, LoopState, pc = "loop", Usable(fix)
  PROVE  fix.pos \in Pos /\ fix.tst \in Time /\ fix.cog \in Cog \cup {None}
<1>1. fix \in Fix
  BY FixType DEF Usable
<1>2. fix.tst # None
  BY DEF Usable
<1>. QED  BY <1>1, <1>2 DEF Fix

(* What a turn of the loop does to the loop itself.                        *)
LEMMA AdvanceType ==
  ASSUME TypeOK, LoopState, pc = "loop", Advance
  PROVE  /\ pc' \in {"line", "loop"} /\ imei' \in Imei \cup {None}
         /\ fixes' \in Fixes \cup {None} /\ nreports' \in 0..MaxNum
         /\ rep' \in 0..(MaxNum - 1)
         /\ ret' \in Imei \cup {None} /\ response' \in {None, "*PONG", "+SACK:GTHBD"}
         /\ (mode' = mode => raw' \in Imei \cup {None, "nothing"})
         /\ pc' = "loop" => imei' = imei /\ fixes' = fixes
<1>1. CASE rep + 1 < nreports
  BY <1>1, ReportsAssumption DEF TypeOK, Advance
<1>2. CASE ~(rep + 1 < nreports)
  BY <1>2, ReportsAssumption DEF TypeOK, LoopState, Advance, Return
<1>. QED  BY <1>1, <1>2

-----------------------------------------------------------------------------
LEMMA InitIInv ==
  ASSUME Init
  PROVE  IInv
<1>1. TypeOK
  BY ReportsAssumption DEF Init, TypeOK
<1>2. LoopState /\ LastPositionPublished
  BY DEF Init, LoopState, LastPositionPublished
<1>. QED  BY <1>1, <1>2 DEF IInv

LEMMA BadLineStep ==
  ASSUME IInv, BadLine
  PROVE  IInv'
<1>1. TypeOK'
  BY DEF IInv, TypeOK, BadLine, Return, lineVars
<1>2. LoopState' /\ LastPositionPublished'
  BY DEF IInv, LoopState, LastPositionPublished, BadLine, Return, lineVars
<1>. QED  BY <1>1, <1>2 DEF IInv

LEMMA IgnoredReportStep ==
  ASSUME IInv, NEW s \in Subtype, IgnoredReport(s)
  PROVE  IInv'
<1>1. TypeOK'
  BY DEF IInv, TypeOK, IgnoredReport, Return, lineVars
<1>2. LoopState' /\ LastPositionPublished'
  BY DEF IInv, LoopState, LastPositionPublished, IgnoredReport, Return, lineVars
<1>. QED  BY <1>1, <1>2 DEF IInv

LEMMA UndefinedReportStep ==
  ASSUME IInv, NEW i \in Imei, NEW s \in Subtype, UndefinedReport(i, s)
  PROVE  IInv'
<1>1. TypeOK'
  BY DEF IInv, TypeOK, UndefinedReport, Return, lineVars
<1>2. LoopState' /\ LastPositionPublished'
  BY DEF IInv, LoopState, LastPositionPublished, UndefinedReport, Return, lineVars
<1>. QED  BY <1>1, <1>2 DEF IInv

(* The entry a report makes sure there is.                                 *)
LEMMA EntryType ==
  ASSUME TypeOK, NEW i \in Imei
  PROVE  /\ ImeiStat(i) \in Stats /\ ImeiStat(i) # None
         /\ imei_stats[i] = None => ~ImeiStat(i).validpos
         /\ imei_stats[i] # None => ImeiStat(i) = imei_stats[i]
<1>1. NewStats \in Stats /\ ~NewStats.validpos
  BY DEF Stats, NewStats
<1>2. None \notin Stats
  BY ReportsAssumption
<1>. QED  BY <1>1, <1>2 DEF TypeOK, ImeiStat

LEMMA AckReportStep ==
  ASSUME IInv, NEW i \in Imei, NEW s \in Subtype, AckReport(i, s)
  PROVE  IInv'
<1>1. CASE s # GTHBD
  <2>1. TypeOK'
    BY <1>1 DEF IInv, TypeOK, AckReport, Return, lineVars
  <2>2. LoopState' /\ LastPositionPublished'
    BY <1>1 DEF IInv, LoopState, LastPositionPublished, AckReport, Return, lineVars
  <2>. QED  BY <2>1, <2>2 DEF IInv
<1>2. CASE s = GTHBD
  <2>. DEFINE is == imei_stats[i]
  <2>1. /\ Return(i, "+SACK:GTHBD") /\ pc = "line"
        /\ imei_stats' = [imei_stats EXCEPT ![i] = ImeiStat(i)]
        /\ published' = IF HasPosition(i) THEN [published EXCEPT ![i] = Ping(is)] ELSE published
        /\ UNCHANGED <<mode, imei, fixes, nreports, rep, last>>
    BY <1>2 DEF AckReport, lineVars
  <2>2. /\ ImeiStat(i) \in Stats /\ ImeiStat(i) # None
        /\ imei_stats[i] = None => ~ImeiStat(i).validpos
        /\ imei_stats[i] # None => ImeiStat(i) = imei_stats[i]
    BY EntryType DEF IInv
  <2>3. /\ imei_stats \in [Imei -> Stats \cup {None}]
        /\ published \in [Imei -> Location \cup {None}]
    BY DEF IInv, TypeOK
  <2>4. imei_stats' \in [Imei -> Stats \cup {None}] /\ imei_stats'[i] = ImeiStat(i)
    BY <2>1, <2>2, <2>3
  <2>5. HasPosition(i) => /\ Ping(is) \in Location /\ Ping(is) # None
                          /\ Ping(is).pos = is.pos /\ Ping(is).tst = is.tst
                          /\ Ping(is).cog = is.cog
    <3>. SUFFICES ASSUME HasPosition(i)
                  PROVE  Ping(is) \in Location
      BY ReportsAssumption DEF Ping
    <3>1. is \in Stats /\ published[i] \in Location
      BY <2>3 DEF HasPosition, IInv, LastPositionPublished
    <3>2. is.pos \in Pos /\ is.tst \in Time
      BY <3>1 DEF HasPosition, IInv, LastPositionPublished, Location
    <3>. QED  BY <3>1, <3>2 DEF Ping, Location, Stats
  <2>6. published' \in [Imei -> Location \cup {None}]
    BY <2>1, <2>3, <2>5
  <2>7. TypeOK'
    BY <2>1, <2>4, <2>6 DEF IInv, TypeOK, Return
  <2>8. LoopState'
    BY <2>1 DEF IInv, LoopState, Return
  <2>9. LastPositionPublished'
    <3>1. \A j \in Imei \ {i} : imei_stats'[j] = imei_stats[j] /\ published'[j] = published[j]
      BY <2>1, <2>3
    <3>2. CASE HasPosition(i)
      <4>1. imei_stats'[i] = is /\ published'[i] = Ping(is) /\ is # None /\ is.validpos
        BY <3>2, <2>1, <2>2, <2>3, <2>4 DEF HasPosition
      <4>. QED  BY <3>1, <3>2, <4>1, <2>5 DEF IInv, LastPositionPublished
    <3>3. CASE ~HasPosition(i)
      <4>1. published'[i] = None /\ ~imei_stats'[i].validpos
        BY <3>3, <2>1, <2>2, <2>4 DEF HasPosition, IInv, LastPositionPublished
      <4>. QED  BY <3>1, <4>1 DEF IInv, LastPositionPublished
    <3>. QED  BY <3>2, <3>3
  <2>. QED  BY <2>7, <2>8, <2>9 DEF IInv
<1>. QED  BY <1>1, <1>2

LEMMA StartReportStep ==
  ASSUME IInv, NEW i \in Imei, NEW s \in Subtype, StartReport(i, s)
  PROVE  IInv'
<1>1. /\ ImeiStat(i) \in Stats /\ ImeiStat(i) # None
      /\ imei_stats[i] = None => ~ImeiStat(i).validpos
      /\ imei_stats[i] # None => ImeiStat(i) = imei_stats[i]
  BY EntryType DEF IInv
<1>2. imei_stats \in [Imei -> Stats \cup {None}]
  BY DEF IInv, TypeOK
<1>3. /\ imei_stats' = [imei_stats EXCEPT ![i] = ImeiStat(i)]
      /\ pc' = "loop" /\ imei' = i /\ fixes' \in Fixes /\ nreports' \in 0..MaxNum
      /\ rep' = 0 /\ last' = None /\ ret' = None /\ response' = None
      /\ UNCHANGED <<mode, published, raw>>
  BY DEF StartReport, imei_incr
<1>4. imei_stats' \in [Imei -> Stats \cup {None}] /\ imei_stats'[i] = ImeiStat(i)
  BY <1>1, <1>2, <1>3
<1>5. TypeOK'
  BY <1>3, <1>4, ReportsAssumption DEF IInv, TypeOK
<1>6. LoopState'
  BY <1>1, <1>3, <1>4 DEF LoopState
<1>7. LastPositionPublished'
  <2>1. \A j \in Imei \ {i} : imei_stats'[j] = imei_stats[j]
    BY <1>2, <1>3
  <2>. QED  BY <1>1, <1>3, <1>4, <2>1 DEF IInv, LastPositionPublished
<1>. QED  BY <1>5, <1>6, <1>7 DEF IInv

LEMMA SkipSubReportStep ==
  ASSUME IInv, SkipSubReport
  PROVE  IInv'
<1>1. /\ pc = "loop" /\ Advance /\ last' \in {None, last}
      /\ pc' = "line" => last' = None
      /\ UNCHANGED <<mode, imei_stats, published>>
  BY DEF SkipSubReport, lastSkipped
<1>2. TypeOK'
  BY <1>1, AdvanceType DEF IInv, TypeOK
<1>3. LoopState'
  BY <1>1, AdvanceType DEF IInv, LoopState
<1>4. LastPositionPublished'
  BY <1>1 DEF IInv, LastPositionPublished
<1>. QED  BY <1>2, <1>3, <1>4 DEF IInv

(* A position is published with what is kept of it.                        *)
LEMMA PublishSubReportEffect ==
  ASSUME IInv, PublishSubReport
  PROVE  /\ pc = "loop" /\ Advance /\ imei \in Imei /\ mode' = mode
         /\ last' = IF pc' = "line" THEN None ELSE fix.pos
         /\ \E c \in Cog : /\ imei_stats' = [imei_stats EXCEPT ![imei] = At(fix, c)]
                          /\ At(fix, c) \in Stats
                          /\ fix.cog \in {None, c}
         /\ \E m \in Location :
              /\ published' = [published EXCEPT ![imei] = m]
              /\ m.t = "t" /\ m.pos = fix.pos /\ m.tst = fix.tst /\ m.cog = fix.cog
              /\ m.meters = IF last = None THEN None ELSE <<last, fix.pos>>
<1>1. /\ pc = "loop" /\ Usable(fix) /\ Advance /\ mode' = mode
      /\ last' = IF pc' = "line" THEN None ELSE fix.pos
  BY DEF PublishSubReport
<1>2. fix.pos \in Pos /\ fix.tst \in Time /\ fix.cog \in Cog \cup {None}
  BY <1>1, UsableFix DEF IInv
<1>3. imei \in Imei
  BY <1>1 DEF IInv, LoopState
<1>4. PICK c \in IF fix.cog = None THEN Cog ELSE {fix.cog} :
         imei_stats' = [imei_stats EXCEPT ![imei] = At(fix, c)]
  BY DEF PublishSubReport, set_last_position
<1>5. c \in Cog /\ fix.cog \in {None, c}
  BY <1>2, <1>4
<1>6. At(fix, c) \in Stats
  BY <1>2, <1>5 DEF At, Stats
<1>. DEFINE m == [t |-> "t", pos |-> fix.pos, tst |-> fix.tst, cog |-> fix.cog,
                  meters |-> IF last = None THEN None ELSE <<last, fix.pos>>]
<1>7. published' = [published EXCEPT ![imei] = m]
  BY DEF PublishSubReport
<1>8. m \in Location
  <2>1. last \in Pos \cup {None}
    BY DEF IInv, TypeOK
  <2>2. (IF last = None THEN None ELSE <<last, fix.pos>>) \in (Pos \X Pos) \cup {None}
    BY <1>2, <2>1
  <2>. QED  BY <1>2, <2>2 DEF Location
<1>. QED  BY <1>1, <1>3, <1>4, <1>5, <1>6, <1>7, <1>8

LEMMA PublishSubReportStep ==
  ASSUME IInv, PublishSubReport
  PROVE  IInv'
<1>1. /\ pc = "loop" /\ Advance /\ imei \in Imei /\ mode' = mode
      /\ last' = IF pc' = "line" THEN None ELSE fix.pos
  BY PublishSubReportEffect
<1>2. PICK c \in Cog : /\ imei_stats' = [imei_stats EXCEPT ![imei] = At(fix, c)]
                       /\ At(fix, c) \in Stats
                       /\ fix.cog \in {None, c}
  BY PublishSubReportEffect
<1>3. PICK m \in Location :
              /\ published' = [published EXCEPT ![imei] = m]
              /\ m.t = "t" /\ m.pos = fix.pos /\ m.tst = fix.tst /\ m.cog = fix.cog
  BY PublishSubReportEffect
<1>4. /\ imei_stats \in [Imei -> Stats \cup {None}]
      /\ published \in [Imei -> Location \cup {None}]
  BY DEF IInv, TypeOK
<1>5. /\ imei_stats' \in [Imei -> Stats \cup {None}] /\ imei_stats'[imei] = At(fix, c)
      /\ published' \in [Imei -> Location \cup {None}] /\ published'[imei] = m
      /\ \A j \in Imei \ {imei} : imei_stats'[j] = imei_stats[j] /\ published'[j] = published[j]
  BY <1>1, <1>2, <1>3, <1>4
<1>6. None \notin Stats /\ None \notin Location
  BY ReportsAssumption
<1>7. m.pos \in Pos
  BY <1>3 DEF Location
<1>8. TypeOK'
  <2>1. last' \in Pos \cup {None}
    BY <1>1, <1>3, <1>7
  <2>. QED  BY <1>1, <1>5, <2>1, AdvanceType DEF IInv, TypeOK
<1>9. LoopState'
  BY <1>1, <1>2, <1>3, <1>5, <1>6, AdvanceType DEF IInv, LoopState
<1>10. LastPositionPublished'
  <2>1. /\ At(fix, c).validpos /\ At(fix, c).pos = fix.pos
        /\ At(fix, c).tst = fix.tst /\ At(fix, c).cog = c
    BY DEF At
  <2>2. PICK e \in Stats : e = At(fix, c)
    BY <1>2
  <2>3. imei_stats'[imei] # None /\ imei_stats'[imei].validpos /\ published'[imei] # None
    BY <2>1, <2>2, <1>5, <1>6
  <2>4. /\ published'[imei].pos = imei_stats'[imei].pos
        /\ published'[imei].tst = imei_stats'[imei].tst
    BY <2>1, <1>3, <1>5
  <2>5. published'[imei].cog \in {None, imei_stats'[imei].cog}
    BY <2>1, <1>2, <1>3, <1>5
  <2>. QED  BY <1>5, <2>3, <2>4, <2>5 DEF IInv, LastPositionPublished
<1>. QED  BY <1>8, <1>9, <1>10 DEF IInv

LEMMA NextIInv ==
  ASSUME IInv, [Next]_vars
  PROVE  IInv'
<1>1. CASE BadLine \/ \E s \in Subtype : IgnoredReport(s)
  BY <1>1, BadLineStep, IgnoredReportStep
<1>2. ASSUME NEW i \in Imei, NEW s \in Subtype,
             AckReport(i, s) \/ UndefinedReport(i, s) \/ StartReport(i, s)
      PROVE  IInv'
  BY <1>2, AckReportStep, UndefinedReportStep, StartReportStep
<1>3. CASE SkipSubReport \/ PublishSubReport
  BY <1>3, SkipSubReportStep, PublishSubReportStep
<1>4. CASE UNCHANGED vars
  <2>1. TypeOK'
    BY <1>4 DEF vars, lineVars, IInv, TypeOK
  <2>2. LoopState' /\ LastPositionPublished'
    BY <1>4 DEF vars, lineVars, IInv, LoopState, LastPositionPublished
  <2>. QED  BY <2>1, <2>2 DEF IInv
<1>. QED  BY <1>1, <1>2, <1>3, <1>4 DEF Next

(* The inductive invariant of the report handler.                          *)
THEOREM Invariant == Spec => []IInv
<1>1. Init => IInv
  BY InitIInv
<1>2. IInv /\ [Next]_vars => IInv'
  BY NextIInv
<1>. QED  BY <1>1, <1>2, PTL DEF Spec

(* What is kept as a tracker's last position is what was last published    *)
(* for it, whatever reports of whatever trackers came before.              *)
THEOREM LastPosition == Spec => []LastPositionPublished
<1>1. IInv => LastPositionPublished
  BY DEF IInv
<1>. QED  BY <1>1, Invariant, PTL

-----------------------------------------------------------------------------
(* The step properties.  Only a heartbeat and a published sub-report change *)
(* what is published.                                                      *)
LEMMA HeartbeatEffect ==
  ASSUME IInv, NEW i \in Imei, NEW s \in Subtype, AckReport(i, s)
  PROVE  \A j \in Imei : RepeatsPosition(j) /\ FromPrevious(j)
<1>1. CASE published' = published
  BY <1>1 DEF RepeatsPosition, FromPrevious
<1>2. CASE published' # published
  <2>1. /\ HasPosition(i)
        /\ published' = [published EXCEPT ![i] = Ping(imei_stats[i])]
    BY <1>2 DEF AckReport
  <2>2. published \in [Imei -> Location \cup {None}]
    BY DEF IInv, TypeOK
  <2>3. /\ published'[i] = Ping(imei_stats[i])
        /\ \A j \in Imei \ {i} : published'[j] = published[j]
    BY <2>1, <2>2
  <2>4. /\ published[i] # None
        /\ published[i].pos = imei_stats[i].pos
    BY <2>1 DEF HasPosition, IInv, LastPositionPublished
  <2>5. /\ Ping(imei_stats[i]).pos = imei_stats[i].pos
        /\ Ping(imei_stats[i]).meters = None
    BY DEF Ping
  <2>. QED  BY <2>3, <2>4, <2>5 DEF RepeatsPosition, FromPrevious
<1>. QED  BY <1>1, <1>2

LEMMA SubReportEffect ==
  ASSUME IInv, PublishSubReport
  PROVE  \A j \in Imei : RepeatsPosition(j) /\ FromPrevious(j)
<1>1. pc = "loop" /\ imei \in Imei
  BY PublishSubReportEffect
<1>2. PICK m \in Location :
              /\ published' = [published EXCEPT ![imei] = m]
              /\ m.t = "t" /\ m.pos = fix.pos
              /\ m.meters = IF last = None THEN None ELSE <<last, fix.pos>>
  BY PublishSubReportEffect
<1>3. published \in [Imei -> Location \cup {None}]
  BY DEF IInv, TypeOK
<1>4. /\ published'[imei] = m
      /\ \A j \in Imei \ {imei} : published'[j] = published[j]
  BY <1>1, <1>2, <1>3
<1>5. last # None => published[imei] # None /\ published[imei].pos = last
  BY <1>1 DEF IInv, LoopState
<1>6. FromPrevious(imei)
  BY <1>2, <1>4, <1>5 DEF FromPrevious
<1>7. RepeatsPosition(imei)
  BY <1>2, <1>4 DEF RepeatsPosition
<1>8. \A j \in Imei \ {imei} : RepeatsPosition(j) /\ FromPrevious(j)
  BY <1>4 DEF RepeatsPosition, FromPrevious
<1>. QED  BY <1>6, <1>7, <1>8

LEMMA StepEffect ==
  ASSUME IInv, [Next]_vars
  PROVE  \A j \in Imei : RepeatsPosition(j) /\ FromPrevious(j)
<1>1. CASE published' = published
  BY <1>1 DEF RepeatsPosition, FromPrevious
<1>2. CASE published' # published
  <2>1. PublishSubReport \/ \E i \in Imei, s \in Subtype : AckReport(i, s)
    BY <1>2 DEF Next, vars, BadLine, IgnoredReport, UndefinedReport, StartReport, SkipSubReport
  <2>. QED  BY <2>1, HeartbeatEffect, SubReportEffect
<1>. QED  BY <1>1, <1>2

(* The state of handle_report() and what it publishes have their types     *)
(* (tline.c:303-640).                                                      *)
THEOREM TypeCorrect == Spec => []TypeOK
BY Invariant, PTL DEF IInv

(* A heartbeat repeats the position last published for its tracker and     *)
(* never invents one (tline.c:486-522).                                    *)
THEOREM Heartbeat == Spec => HeartbeatsRepeatPosition
<1>1. IInv /\ [Next]_vars => [\A i \in Imei : RepeatsPosition(i)]_vars
  BY StepEffect
<1>. QED  BY <1>1, Invariant, PTL DEF Spec, HeartbeatsRepeatPosition

(* A published distance is the one from the location published just before *)
(* it for the same tracker, however many sub-reports were passed over.     *)
THEOREM Distances == Spec => MetersFromPrevious
<1>1. IInv /\ [Next]_vars => [\A i \in Imei : FromPrevious(i)]_vars
  BY StepEffect
<1>. QED  BY <1>1, Invariant, PTL DEF Spec, MetersFromPrevious
=============================================================================
