--------------------------- MODULE CommandsProofs ---------------------------
(***************************************************************************)
(* Proofs about Commands, for every capacity of a bucket and every order   *)
(* in which trackers come, go and come again.                              *)
(***************************************************************************)
EXTENDS Commands, ConnsProofs

-----------------------------------------------------------------------------
(* A bucket and conns_by_sock: what is not freed is of a recognised        *)
(* connection, there is one entry for each, and it has its address.        *)
Agrees(b, kn, im, co) ==
  /\ \A n \in DOMAIN b : ~b[n].freed =>
       b[n].sock \in kn /\ im[b[n].sock] # None /\ b[n].nc = co[b[n].sock]
  /\ \A m, n \in DOMAIN b : (~b[m].freed /\ ~b[n].freed /\ b[m].sock = b[n].sock) => m = n
  /\ \A f \in kn : im[f] # None => \E n \in DOMAIN b : ~b[n].freed /\ b[n].sock = f

Entry == [sock : Fd, nc : Nc, freed : BOOLEAN]

IndexTypes ==
  /\ byImei \in Seq(Entry)
  /\ expansions \in Nat
  /\ latest \in [Imei -> Fd \cup {None}]

NothingFreed == \A n \in DOMAIN byImei : ~byImei[n].freed

(* The first entry of a tracker is of its newest connection, until the     *)
(* bucket has been reversed.                                               *)
NewestFirst ==
  (expansions = 0 /\ NothingFreed) =>
    \A n \in DOMAIN byImei :
      (\A m \in 1..(n - 1) : imei[byImei[m].sock] # imei[byImei[n].sock])
        => byImei[n].sock = latest[imei[byImei[n].sock]]

Index ==
  /\ IndexTypes
  /\ Agrees(byImei, known, imei, conn)
  /\ NewestFirst

CInv == IInv /\ Index /\ CommandsRouted

-----------------------------------------------------------------------------
(* HASH_ADD and HASH_EXPAND_BUCKETS on sequences.                          *)
LEMMA AddedFirst ==
  ASSUME NEW S, NEW s \in Seq(S), NEW e \in S
  PROVE  /\ <<e>> \o s \in Seq(S) /\ DOMAIN (<<e>> \o s) = 1..(Len(s) + 1)
         /\ (<<e>> \o s)[1] = e
         /\ \A n \in 2..(Len(s) + 1) : n - 1 \in DOMAIN s /\ (<<e>> \o s)[n] = s[n - 1]
         /\ \A n \in DOMAIN s : n + 1 \in 2..(Len(s) + 1) /\ (<<e>> \o s)[n + 1] = s[n]
         /\ Len(<<e>> \o s) = Len(s) + 1 /\ Len(s) \in Nat /\ DOMAIN s = 1..Len(s)
<1>1. <<e>> \in Seq(S) /\ Len(<<e>>) = 1 /\ <<e>>[1] = e /\ Len(s) \in Nat
  OBVIOUS
<1>2. /\ <<e>> \o s \in Seq(S) /\ Len(<<e>> \o s) = Len(s) + 1
      /\ \A n \in 1..(1 + Len(s)) : (<<e>> \o s)[n] = IF n <= 1 THEN <<e>>[n] ELSE s[n - 1]
  BY <1>1, ConcatProperties
<1>3. DOMAIN (<<e>> \o s) = 1..(Len(s) + 1) /\ DOMAIN s = 1..Len(s)
  BY <1>2, LenProperties
<1>4. (<<e>> \o s)[1] = e
  BY <1>1, <1>2
<1>5. ASSUME NEW n \in 2..(Len(s) + 1)
      PROVE  n - 1 \in 1..Len(s) /\ (<<e>> \o s)[n] = s[n - 1]
  BY <1>1, <1>2
<1>6. ASSUME NEW n \in 1..Len(s)
      PROVE  n + 1 \in 2..(Len(s) + 1) /\ (<<e>> \o s)[n + 1] = s[n]
  <2>1. n + 1 \in 2..(Len(s) + 1) /\ (n + 1) - 1 = n
    BY <1>1
  <2>. QED  BY <1>5, <2>1
<1>. QED  BY <1>1, <1>2, <1>3, <1>4, <1>5, <1>6

LEMMA ReversedEntries ==
  ASSUME NEW S, NEW b \in Seq(S)
  PROVE  /\ Reversed(b) \in Seq(S) /\ DOMAIN Reversed(b) = DOMAIN b
         /\ \A n \in DOMAIN b : Len(b) + 1 - n \in DOMAIN b /\ Reversed(b)[n] = b[Len(b) + 1 - n]
         /\ \A n \in DOMAIN b : Reversed(b)[Len(b) + 1 - n] = b[n]
<1>1. Len(b) \in Nat /\ DOMAIN b = 1..Len(b) /\ \A n \in DOMAIN b : b[n] \in S
  BY LenProperties, ElementOfSeq
<1>2. \A n \in 1..Len(b) : Len(b) + 1 - n \in 1..Len(b)
                           /\ Len(b) + 1 - (Len(b) + 1 - n) = n
  BY <1>1
<1>3. Reversed(b) = [n \in 1..Len(b) |-> b[Len(b) + 1 - n]]
  BY <1>1 DEF Reversed
<1>4. Reversed(b) \in Seq(S)
  BY <1>1, <1>2, <1>3
<1>. QED  BY <1>1, <1>2, <1>3, <1>4

(* The order of a bucket does not matter to what is in it.                 *)
LEMMA ReversedAgrees ==
  ASSUME NEW b \in Seq(Entry), NEW kn, NEW im, NEW co, Agrees(b, kn, im, co)
  PROVE  Agrees(Reversed(b), kn, im, co)
<1> DEFINE r == Reversed(b)
           at(n) == Len(b) + 1 - n
<1>1. /\ DOMAIN r = DOMAIN b /\ Len(b) \in Nat /\ DOMAIN b = 1..Len(b)
      /\ \A n \in DOMAIN b : at(n) \in DOMAIN b /\ r[n] = b[at(n)] /\ r[at(n)] = b[n]
  BY ReversedEntries, LenProperties
<1>2. \A m, n \in DOMAIN b : at(m) = at(n) => m = n
  BY <1>1
<1>. HIDE DEF r, at
<1>. USE DEF Agrees
<1>3. ASSUME NEW n \in DOMAIN r, ~r[n].freed
      PROVE  r[n].sock \in kn /\ im[r[n].sock] # None /\ r[n].nc = co[r[n].sock]
  <2>1. at(n) \in DOMAIN b /\ r[n] = b[at(n)]
    BY <1>1
  <2>. QED  BY <1>3, <2>1
<1>4. ASSUME NEW m \in DOMAIN r, NEW n \in DOMAIN r,
             ~r[m].freed, ~r[n].freed, r[m].sock = r[n].sock
      PROVE  m = n
  <2>1. /\ at(m) \in DOMAIN b /\ r[m] = b[at(m)]
        /\ at(n) \in DOMAIN b /\ r[n] = b[at(n)]
    BY <1>1
  <2>2. at(m) = at(n)
    BY <1>4, <2>1
  <2>. QED  BY <1>1, <1>2, <2>2
<1>5. ASSUME NEW f \in kn, im[f] # None
      PROVE  \E n \in DOMAIN r : ~r[n].freed /\ r[n].sock = f
  <2>1. PICK n \in DOMAIN b : ~b[n].freed /\ b[n].sock = f
    BY <1>5
  <2>2. at(n) \in DOMAIN r /\ r[at(n)] = b[n]
    BY <1>1
  <2>. QED  BY <2>1, <2>2
<1>6. Agrees(r, kn, im, co)
  BY <1>3, <1>4, <1>5
<1>. QED  BY <1>6 DEF r

-----------------------------------------------------------------------------
(* A step of Commands is one of Conns.                                     *)
LEMMA StepOfConns ==
  ASSUME IInv, [INext]_allVars
  PROVE  [Next]_vars
<1>1. ASSUME NEW c \in Nc, Recognise(c) \/ Forget(c) PROVE Next
  BY <1>1 DEF Recognise, Forget, Next, Round
<1>2. ASSUME NEW i \in Imei, CannotStab(i) \/ WriteToConnection(i) PROVE Next
  <2>1. NoCommand \/ \E c \in active : Command(c)
    BY <1>2 DEF CannotStab, WriteToConnection
  <2>2. active \subseteq Nc
    BY DEF IInv, TypeOK
  <2>. QED  BY <2>1, <2>2 DEF Next, Round
<1>3. CASE NoMessage
  BY <1>3 DEF NoMessage, Next, Round
<1>4. CASE Elsewhere
  <2>1. CASE Tracker \/ Select \/ NoAccept \/ SweepDone
    BY <2>1 DEF Next, Round
  <2>2. ASSUME NEW c \in Nc, \/ ReadBytes(c) \/ ReadEof(c) \/ ReadError(c)
                             \/ Skip(c) \/ PollNothing(c)
        PROVE  Next
    BY <2>2 DEF Next, Round
  <2>3. ASSUME NEW c \in Nc, NEW f \in Fd, NEW i \in Imei, Accept(c, f, i) PROVE Next
    BY <2>3 DEF Next, Round
  <2>. QED  BY <1>4, <2>1, <2>2, <2>3 DEF Elsewhere
<1>5. CASE UNCHANGED allVars
  BY <1>5 DEF allVars
<1>. QED  BY <1>1, <1>2, <1>3, <1>4, <1>5 DEF INext
-----------------------------------------------------------------------------
(* Agreement is kept by a new entry for a connection that had none,        *)
(* wherever the expansion puts it.                                         *)
LEMMA AddedAgrees ==
  ASSUME NEW b \in Seq(Entry), NEW kn, NEW im, NEW im2, NEW co, Agrees(b, kn, im, co),
         NEW e \in Entry, ~e.freed, e.sock \in kn, e.nc = co[e.sock],
         im[e.sock] = None, im2[e.sock] # None,
         \A g \in kn \ {e.sock} : im2[g] = im[g]
  PROVE  Agrees(<<e>> \o b, kn, im2, co)
<1> DEFINE a == <<e>> \o b
<1>1. /\ DOMAIN a = 1..(Len(b) + 1) /\ a[1] = e /\ Len(b) \in Nat
      /\ \A n \in 2..(Len(b) + 1) : n - 1 \in DOMAIN b /\ a[n] = b[n - 1]
      /\ \A n \in DOMAIN b : n + 1 \in 2..(Len(b) + 1) /\ a[n + 1] = b[n]
  BY AddedFirst
<1>2. \A n \in DOMAIN b : ~b[n].freed => b[n].sock \in kn \ {e.sock}
  BY DEF Agrees
<1>. HIDE DEF a
<1>3. ASSUME NEW n \in DOMAIN a, ~a[n].freed
      PROVE  a[n].sock \in kn /\ im2[a[n].sock] # None /\ a[n].nc = co[a[n].sock]
  <2>1. CASE n = 1
    BY <2>1, <1>1
  <2>2. CASE n # 1
    <3>1. n \in 2..(Len(b) + 1)
      BY <1>1, <2>2
    <3>2. n - 1 \in DOMAIN b /\ a[n] = b[n - 1]
      BY <1>1, <3>1
    <3>3. a[n].sock \in kn \ {e.sock} /\ im[a[n].sock] # None /\ a[n].nc = co[a[n].sock]
      BY <1>2, <1>3, <3>2 DEF Agrees
    <3>. QED  BY <3>3
  <2>. QED  BY <2>1, <2>2
<1>4. ASSUME NEW m \in DOMAIN a, NEW n \in DOMAIN a,
             ~a[m].freed, ~a[n].freed, a[m].sock = a[n].sock
      PROVE  m = n
  <2>1. \A k \in DOMAIN a : k = 1 \/ k \in 2..(Len(b) + 1)
    BY <1>1
  <2>2. ASSUME NEW k \in 2..(Len(b) + 1), ~a[k].freed PROVE a[k].sock # e.sock
    BY <1>1, <1>2, <2>2
  <2>3. CASE m = 1 \/ n = 1
    BY <1>1, <1>4, <2>1, <2>2, <2>3
  <2>4. CASE m \in 2..(Len(b) + 1) /\ n \in 2..(Len(b) + 1)
    <3>1. m - 1 \in DOMAIN b /\ a[m] = b[m - 1] /\ n - 1 \in DOMAIN b /\ a[n] = b[n - 1]
      BY <1>1, <2>4
    <3>2. m - 1 = n - 1
      BY <1>4, <3>1 DEF Agrees
    <3>. QED  BY <3>2, <2>4, <1>1
  <2>. QED  BY <2>1, <2>3, <2>4
<1>5. ASSUME NEW f \in kn, im2[f] # None
      PROVE  \E n \in DOMAIN a : ~a[n].freed /\ a[n].sock = f
  <2>1. CASE f = e.sock
    <3>1. 1 \in DOMAIN a
      BY <1>1
    <3>. QED  BY <2>1, <3>1, <1>1
  <2>2. CASE f # e.sock
    <3>1. PICK n \in DOMAIN b : ~b[n].freed /\ b[n].sock = f
      BY <1>5, <2>2 DEF Agrees
    <3>2. n + 1 \in DOMAIN a /\ a[n + 1] = b[n]
      BY <1>1
    <3>. QED  BY <3>1, <3>2
  <2>. QED  BY <2>1, <2>2
<1>6. Agrees(a, kn, im2, co)
  BY <1>3, <1>4, <1>5 DEF Agrees
<1>. QED  BY <1>6 DEF a

(* What PollRecord(c) may do to imei.                                      *)
LEMMA RecognitionStep ==
  ASSUME IInv, NEW c \in Nc, PollRecord(c)
  PROVE  \E u \in known :
           /\ u \in Fd /\ userData[c] = u /\ conn[u] = c
           /\ UNCHANGED <<known, conn, active, sock>>
           /\ imei' \in [Fd -> Imei \cup {None}]
           /\ \A g \in known \ {u} : imei'[g] = imei[g]
           /\ imei' # imei => imei[u] = None /\ imei'[u] \in Imei
<1>1. PICK u \in Fd : u \in known /\ userData[c] = u /\ conn[u] = c
  BY DEF PollRecord, IInv, TypeOK, ConnsBySockExact
<1>2. IInv'
  BY PollRecordStep
<1>3. imei \in [Fd -> Imei \cup {None}] /\ imei' \in [Fd -> Imei \cup {None}] /\ known \subseteq Fd
  BY <1>2 DEF IInv, TypeOK
<1>4. UNCHANGED <<known, conn, active, sock>>
  BY DEF PollRecord
<1>5. PICK i : imei' = [g \in Fd |-> IF g = u /\ imei[g] = None THEN i ELSE imei[g]]
  BY <1>1 DEF PollRecord
<1>6. \A g \in known \ {u} : imei'[g] = imei[g]
  BY <1>3, <1>5
<1>7. ASSUME imei' # imei
      PROVE  imei[u] = None /\ imei'[u] \in Imei
  <2>1. PICK g \in Fd : imei'[g] # imei[g]
    BY <1>3, <1>7
  <2>2. g = u /\ imei[u] = None /\ imei'[u] # None
    BY <1>5, <2>1
  <2>. QED  BY <1>3, <2>2
<1>. QED  BY <1>1, <1>3, <1>4, <1>6, <1>7
-----------------------------------------------------------------------------
(* Every action keeps the index.                                           *)
LEMMA RecogniseIndex ==
  ASSUME IInv, Index, NEW c \in Nc, Recognise(c)
  PROVE  Index'
<1>1. PICK u \in known :
        /\ u \in Fd /\ userData[c] = u /\ conn[u] = c
        /\ UNCHANGED <<known, conn>>
        /\ imei' \in [Fd -> Imei \cup {None}]
        /\ \A g \in known \ {u} : imei'[g] = imei[g]
        /\ imei' # imei => imei[u] = None /\ imei'[u] \in Imei
  BY RecognitionStep DEF Recognise
<1>2. CASE ~Added(c)
  <2>1. UNCHANGED <<byImei, expansions, latest, imei>>
    BY <1>2 DEF Recognise, Added, bucket
  <2>. QED  BY <1>1, <2>1 DEF Index, IndexTypes, NewestFirst, NothingFreed
<1>3. CASE Added(c)
  <2> DEFINE e == [sock |-> u, nc |-> conn[u], freed |-> FALSE]
             b == <<e>> \o byImei
  <2>1. /\ imei[u] = None /\ imei'[u] \in Imei /\ imei'[u] # None
        /\ e \in Entry /\ byImei \in Seq(Entry) /\ expansions \in Nat
        /\ latest \in [Imei -> Fd \cup {None}]
    BY <1>1, <1>3, ConnsAssumption DEF Added, Entry, Index, IndexTypes
  <2>2. /\ \/ byImei' = Reversed(b) /\ expansions' = expansions + 1
           \/ byImei' = b /\ expansions' = expansions
        /\ latest' = [latest EXCEPT ![imei'[u]] = u]
    BY <1>1, <1>3 DEF Recognise, HashAdd
  <2>3. /\ b \in Seq(Entry) /\ DOMAIN b = 1..(Len(byImei) + 1)
        /\ b[1] = e
        /\ \A n \in 2..(Len(byImei) + 1) : n - 1 \in DOMAIN byImei /\ b[n] = byImei[n - 1]
        /\ \A n \in DOMAIN byImei : n + 1 \in 2..(Len(byImei) + 1) /\ b[n + 1] = byImei[n]
        /\ Len(byImei) \in Nat
    BY <2>1, AddedFirst
  <2>4. Agrees(b, known, imei', conn)
    <3>1. Agrees(byImei, known, imei, conn)
      BY DEF Index
    <3>2. ~e.freed /\ e.sock = u /\ e.nc = conn[u]
      OBVIOUS
    <3>. HIDE DEF e
    <3>. QED  BY <1>1, <2>1, <3>1, <3>2, AddedAgrees
  <2>5. e.sock = u /\ ~e.freed
    OBVIOUS
  <2>. HIDE DEF e, b
  <2>6. IndexTypes'
    BY <1>1, <2>1, <2>2, <2>3, ReversedEntries DEF IndexTypes
  <2>7. Agrees(byImei', known', imei', conn')
    BY <1>1, <2>2, <2>3, <2>4, ReversedAgrees
  <2>8. NewestFirst'
    <3>1. SUFFICES ASSUME byImei' = b, expansions = 0, NothingFreed',
                          NEW n \in DOMAIN b,
                          \A m \in 1..(n - 1) : imei'[b[m].sock] # imei'[b[n].sock]
                   PROVE  b[n].sock = latest'[imei'[b[n].sock]]
      BY <2>1, <2>2 DEF NewestFirst
    <3>2. CASE n = 1
      BY <2>1, <2>2, <2>3, <2>5, <3>2
    <3>3. CASE n # 1
      <4>1. n \in 2..(Len(byImei) + 1)
        BY <2>3, <3>3
      <4>2. PICK p \in DOMAIN byImei : p = n - 1 /\ b[n] = byImei[p] /\ p \in Nat
        BY <2>3, <4>1
      <4>3. NothingFreed
        BY <2>3, <3>1 DEF NothingFreed
      <4>4. \A m \in DOMAIN byImei : /\ byImei[m].sock \in known \ {u}
                                     /\ imei'[byImei[m].sock] = imei[byImei[m].sock]
        BY <1>1, <2>1, <4>3 DEF Index, Agrees, NothingFreed
      <4>5. imei'[b[n].sock] # imei'[u]
        <5>1. 1 \in 1..(n - 1)
          BY <2>3, <4>1
        <5>2. imei'[b[1].sock] # imei'[b[n].sock]
          BY <3>1, <5>1
        <5>. QED  BY <2>3, <2>5, <5>2
      <4>6. ASSUME NEW m \in 1..(p - 1)
            PROVE  imei[byImei[m].sock] # imei[byImei[p].sock]
        <5>1. m + 1 \in 1..(n - 1) /\ m \in DOMAIN byImei
          BY <2>1, <2>3, <4>1, <4>2, LenProperties
        <5>2. imei'[b[m + 1].sock] # imei'[b[n].sock]
          BY <3>1, <5>1
        <5>3. b[m + 1] = byImei[m] /\ b[n] = byImei[p]
          BY <2>3, <4>2, <5>1
        <5>. QED  BY <4>2, <4>4, <5>1, <5>2, <5>3
      <4>7. byImei[p].sock = latest[imei[byImei[p].sock]]
        BY <3>1, <4>3, <4>6 DEF Index, NewestFirst
      <4>8. imei[byImei[p].sock] \in Imei
        BY <4>2, <4>3, <4>4 DEF Index, Agrees, NothingFreed, IInv, TypeOK
      <4>. QED  BY <2>1, <2>2, <4>2, <4>4, <4>5, <4>7, <4>8
    <3>. QED  BY <3>2, <3>3
  <2>. QED  BY <2>6, <2>7, <2>8 DEF Index
<1>. QED  BY <1>2, <1>3

LEMMA ForgetIndex ==
  ASSUME IInv, Index, NEW c \in Nc, Forget(c)
  PROVE  Index'
<1>1. PICK u \in known : /\ userData[c] = u /\ u \in Fd
                         /\ known' = known \ {u}
                         /\ imei' = [g \in Fd |-> IF g = u THEN None ELSE imei[g]]
                         /\ conn' = [g \in Fd |-> IF g = u THEN None ELSE conn[g]]
  BY DEF Forget, Close, Closable, delete_conn, IInv, TypeOK, ConnsBySockExact
<1>2. /\ byImei' = [n \in DOMAIN byImei |->
                      IF byImei[n].sock = u THEN [byImei[n] EXCEPT !.freed = TRUE] ELSE byImei[n]]
      /\ UNCHANGED <<expansions, latest>>
  BY <1>1 DEF Forget
<1>3. byImei \in Seq(Entry) /\ known \subseteq Fd
  BY DEF Index, IndexTypes, IInv, TypeOK
<1>4. byImei' \in Seq(Entry) /\ DOMAIN byImei' = DOMAIN byImei
  <2>1. \A n \in DOMAIN byImei : byImei[n] \in Entry
    BY <1>3, ElementOfSeq
  <2>2. Len(byImei) \in Nat /\ DOMAIN byImei = 1..Len(byImei)
    BY <1>3, LenProperties
  <2>3. \A n \in DOMAIN byImei : [byImei[n] EXCEPT !.freed = TRUE] \in Entry
    BY <2>1 DEF Entry
  <2>4. byImei' \in [1..Len(byImei) -> Entry]
    BY <1>2, <2>1, <2>2, <2>3
  <2>. QED  BY <2>2, <2>4
<1>5. \A n \in DOMAIN byImei : ~byImei'[n].freed =>
        byImei[n].sock # u /\ byImei'[n] = byImei[n]
  <2>1. \A n \in DOMAIN byImei : byImei[n] \in Entry
    BY <1>3, ElementOfSeq
  <2>. QED  BY <1>2, <2>1 DEF Entry
<1>6. \A n \in DOMAIN byImei : byImei[n].sock # u => byImei'[n] = byImei[n]
  BY <1>2
<1>7. \A g \in known' : g \in known /\ g # u /\ imei'[g] = imei[g] /\ conn'[g] = conn[g]
  BY <1>1, <1>3
<1>8. IndexTypes'
  BY <1>2, <1>4 DEF Index, IndexTypes
<1>9. Agrees(byImei', known', imei', conn')
  <2>1. Agrees(byImei, known, imei, conn)
    BY DEF Index
  <2>2. \A n \in DOMAIN byImei' : ~byImei'[n].freed =>
          /\ byImei'[n].sock \in known' /\ imei'[byImei'[n].sock] # None
          /\ byImei'[n].nc = conn'[byImei'[n].sock]
    BY <1>1, <1>4, <1>5, <1>7, <2>1 DEF Agrees
  <2>3. \A m, n \in DOMAIN byImei' :
          (~byImei'[m].freed /\ ~byImei'[n].freed /\ byImei'[m].sock = byImei'[n].sock) => m = n
    BY <1>4, <1>5, <2>1 DEF Agrees
  <2>4. \A f \in known' : imei'[f] # None =>
          \E n \in DOMAIN byImei' : ~byImei'[n].freed /\ byImei'[n].sock = f
    BY <1>4, <1>6, <1>7, <2>1 DEF Agrees
  <2>. QED  BY <2>2, <2>3, <2>4 DEF Agrees
<1>10. NewestFirst'
  <2>1. SUFFICES ASSUME expansions = 0, NothingFreed' PROVE NewestFirst'
    BY <1>2 DEF NewestFirst
  <2>2. \A n \in DOMAIN byImei : byImei[n].sock # u /\ byImei'[n] = byImei[n]
    BY <1>4, <1>5, <2>1 DEF NothingFreed
  <2>3. byImei' = byImei
    <3>1. byImei' \in [DOMAIN byImei -> Entry] /\ byImei \in [DOMAIN byImei -> Entry]
      BY <1>3, <1>4, LenProperties
    <3>. QED  BY <2>2, <3>1
  <2>4. NothingFreed
    BY <2>1, <2>3 DEF NothingFreed
  <2>5. \A n \in DOMAIN byImei : imei'[byImei[n].sock] = imei[byImei[n].sock]
    BY <1>1, <1>7, <2>2, <2>4 DEF Index, Agrees, NothingFreed
  <2>6. \A n \in DOMAIN byImei : \A m \in 1..(n - 1) : m \in DOMAIN byImei
    BY <1>3, LenProperties
  <2>. QED  BY <1>2, <2>1, <2>3, <2>4, <2>5, <2>6 DEF Index, NewestFirst
<1>. QED  BY <1>8, <1>9, <1>10 DEF Index

LEMMA AcceptIndex ==
  ASSUME IInv, Index, NEW c \in Nc, NEW f \in Fd, NEW i \in Imei, Accept(c, f, i),
         UNCHANGED indexVars
  PROVE  Index'
<1>1. /\ f \notin known /\ known' = known \cup {f}
      /\ imei' = [imei EXCEPT ![f] = None] /\ conn' = [conn EXCEPT ![f] = c]
      /\ UNCHANGED <<byImei, expansions, latest>>
      /\ imei \in [Fd -> Imei \cup {None}] /\ conn \in [Fd -> Nc \cup {None}] /\ known \subseteq Fd
  BY DEF Accept, IInv, TypeOK, KernelAgrees, indexVars, bucket
<1>2. \A g \in known : g # f /\ imei'[g] = imei[g] /\ conn'[g] = conn[g]
  BY <1>1
<1>3. imei'[f] = None
  BY <1>1
<1>4. IndexTypes'
  BY <1>1 DEF Index, IndexTypes
<1>5. Agrees(byImei', known', imei', conn')
  BY <1>1, <1>2, <1>3 DEF Index, Agrees
<1>6. NewestFirst'
  <2>1. SUFFICES ASSUME NothingFreed PROVE NewestFirst'
    BY <1>1 DEF NewestFirst, NothingFreed
  <2>2. \A n \in DOMAIN byImei : imei'[byImei[n].sock] = imei[byImei[n].sock]
    BY <1>2, <2>1 DEF Index, Agrees, NothingFreed
  <2>3. \A n \in DOMAIN byImei : \A m \in 1..(n - 1) : m \in DOMAIN byImei
    BY LenProperties DEF Index, IndexTypes
  <2>. QED  BY <1>1, <2>1, <2>2, <2>3 DEF Index, NewestFirst, NothingFreed
<1>. QED  BY <1>4, <1>5, <1>6 DEF Index
(* No other action touches the index or what it is compared with.          *)
LEMMA OtherIndex ==
  ASSUME IInv, Index, [INext]_allVars,
         ~\E c \in Nc : \/ Recognise(c) \/ Forget(c)
                        \/ \E f \in Fd, i \in Imei : Accept(c, f, i)
  PROVE  /\ UNCHANGED <<byImei, expansions, latest, known, imei, conn, active, sock>>
         /\ Index'
<1>1. UNCHANGED <<byImei, expansions, latest>>
  BY DEF INext, CannotStab, WriteToConnection, NoMessage, Elsewhere, allVars, indexVars, bucket
<1>2. \/ Tracker \/ Select \/ NoAccept \/ SweepDone \/ NoCommand \/ UNCHANGED vars
      \/ \E c \in Nc : \/ ReadBytes(c) \/ ReadEof(c) \/ ReadError(c)
                       \/ Skip(c) \/ PollNothing(c) \/ Command(c)
  <2>1. active \subseteq Nc
    BY DEF IInv, TypeOK
  <2>. QED  BY <2>1 DEF INext, CannotStab, WriteToConnection, NoMessage, Elsewhere, allVars
<1>3. UNCHANGED <<known, imei, conn, active, sock>>
  <2>1. CASE Tracker \/ Select \/ NoAccept \/ SweepDone \/ NoCommand \/ UNCHANGED vars
    BY <2>1 DEF Tracker, Send, Disconnect, Select, NoAccept, SweepDone, NoCommand,
                vars, ncVars, coVars
  <2>2. ASSUME NEW c \in Nc, \/ ReadBytes(c) \/ ReadEof(c) \/ ReadError(c)
                             \/ Skip(c) \/ PollNothing(c) \/ Command(c)
        PROVE  UNCHANGED <<known, imei, conn, active, sock>>
    BY <2>2 DEF ReadBytes, ReadEof, ReadError, Skip, PollNothing, Command, ncVars, coVars
  <2>. QED  BY <1>2, <2>1, <2>2
<1>. QED  BY <1>1, <1>3 DEF Index, IndexTypes, NewestFirst, NothingFreed

LEMMA NextIndex ==
  ASSUME IInv, Index, [INext]_allVars
  PROVE  Index'
<1>1. ASSUME NEW c \in Nc, NEW f \in Fd, NEW i \in Imei, Accept(c, f, i)
      PROVE  Index'
  <2>1. UNCHANGED indexVars \/ \E d \in Nc : Recognise(d) \/ Forget(d)
    BY DEF INext, CannotStab, WriteToConnection, NoMessage, Elsewhere, allVars
  <2>. QED  BY <1>1, <2>1, AcceptIndex, RecogniseIndex, ForgetIndex
<1>. QED  BY <1>1, RecogniseIndex, ForgetIndex, OtherIndex

-----------------------------------------------------------------------------
(* What the index has is what find_imei() needs.                           *)
LEMMA Lookup ==
  ASSUME IInv, Index, NothingFreed, NEW n \in DOMAIN byImei
  PROVE  LET f == byImei[n].sock IN
           /\ f \in known /\ imei[f] \in Imei /\ byImei[n].nc = conn[f]
           /\ conn[f] \in active /\ sock[conn[f]] = f
<1>1. /\ byImei[n].sock \in known /\ imei[byImei[n].sock] # None
      /\ byImei[n].nc = conn[byImei[n].sock]
  BY DEF Index, Agrees, NothingFreed
<1>2. PICK c \in active : sock[c] = byImei[n].sock /\ conn[sock[c]] = c
  BY <1>1 DEF IInv, ConnsBySockExact
<1>3. imei[byImei[n].sock] \in Imei
  BY <1>1 DEF IInv, TypeOK
<1>. QED  BY <1>1, <1>2, <1>3

LEMMA FoundRouted ==
  ASSUME IInv, Index, NEW i \in Imei, WriteToConnection(i)
  PROVE  CommandsRouted'
<1>1. PICK n \in DOMAIN byImei : Found(n, i) /\ cmd' = [to |-> i, nc |-> byImei[n].nc]
  BY DEF WriteToConnection
<1>2. UNCHANGED <<byImei, expansions, latest, known, imei, conn, active, sock>>
  <2>1. NoCommand \/ \E c \in active : Command(c)
    BY DEF WriteToConnection
  <2>2. UNCHANGED <<known, imei, conn, active, sock>>
    BY <2>1 DEF NoCommand, Command, ncVars, coVars
  <2>. QED  BY <2>2 DEF WriteToConnection, indexVars, bucket
<1>3. SUFFICES ASSUME NothingFreed
               PROVE  /\ i \in Identified /\ byImei[n].nc \in active
                      /\ imei[sock[byImei[n].nc]] = i
                      /\ expansions = 0 => byImei[n].nc = conn[latest[i]]
  BY <1>1, <1>2 DEF CommandsRouted, NothingFreed, Identified
<1>4. imei[byImei[n].sock] = i
  BY <1>1, <1>3 DEF Found, Matches, NothingFreed
<1>5. /\ byImei[n].sock \in known /\ imei[byImei[n].sock] \in Imei
      /\ byImei[n].nc = conn[byImei[n].sock]
      /\ conn[byImei[n].sock] \in active /\ sock[conn[byImei[n].sock]] = byImei[n].sock
  BY <1>3, Lookup
<1>6. i \in Identified
  BY <1>4, <1>5, ConnsAssumption DEF Identified
<1>7. ASSUME expansions = 0 PROVE byImei[n].sock = latest[i]
  <2>1. \A m \in 1..(n - 1) : m \in DOMAIN byImei
    BY LenProperties DEF Index, IndexTypes
  <2>2. \A m \in 1..(n - 1) : imei[byImei[m].sock] # imei[byImei[n].sock]
    BY <1>1, <1>3, <1>4, <2>1 DEF Found, Matches, NothingFreed
  <2>. QED  BY <1>3, <1>4, <1>7, <2>2 DEF Index, NewestFirst
<1>. QED  BY <1>4, <1>5, <1>6, <1>7

LEMMA NotFoundRouted ==
  ASSUME IInv, Index, NEW i \in Imei, CannotStab(i)
  PROVE  CommandsRouted'
<1>1. /\ cmd' = [to |-> i, nc |-> None]
      /\ UNCHANGED <<byImei, expansions, latest, known, imei, conn, active, sock>>
  BY DEF CannotStab, NoCommand, indexVars, bucket, ncVars, coVars
<1>2. SUFFICES ASSUME NothingFreed, i \in Identified PROVE FALSE
  BY <1>1 DEF CommandsRouted, NothingFreed, Identified
<1>3. PICK f \in known : imei[f] = i /\ imei[f] # None
  BY <1>2 DEF Identified
<1>4. PICK n \in DOMAIN byImei : ~byImei[n].freed /\ byImei[n].sock = f
  BY <1>3 DEF Index, Agrees
<1>5. Matches(n, i)
  BY <1>3, <1>4 DEF Matches
<1>. QED  BY <1>4, <1>5 DEF CannotStab

LEMMA NextRouted ==
  ASSUME IInv, Index, CommandsRouted, [INext]_allVars
  PROVE  CommandsRouted'
<1>1. CASE cmd' = None
  BY <1>1 DEF CommandsRouted
<1>2. CASE UNCHANGED allVars
  BY <1>2 DEF CommandsRouted, Identified, allVars, vars, indexVars, bucket, ncVars, coVars
<1>3. CASE INext /\ cmd' # None
  BY <1>3, FoundRouted, NotFoundRouted
     DEF INext, Recognise, Forget, NoMessage, Elsewhere
<1>. QED  BY <1>1, <1>2, <1>3

-----------------------------------------------------------------------------
(* The inductive invariant: conns_by_imei and conns_by_sock agree about    *)
(* what is not freed, and an entry for a tracker's newest connection comes *)
(* before those for its older ones until the bucket is reversed.           *)
THEOREM IndexInvariant == ISpec => []CInv
<1>1. IInit => CInv
  <2>1. SUFFICES ASSUME IInit PROVE CInv
    OBVIOUS
  <2>2. IInv
    BY <2>1, InitIInv DEF IInit
  <2>3. /\ byImei = <<>> /\ expansions = 0 /\ latest = [i \in Imei |-> None] /\ cmd = None
        /\ known = {}
    BY <2>1 DEF IInit, Init
  <2>4. DOMAIN byImei = {} /\ byImei \in Seq(Entry)
    BY <2>3, EmptySeq
  <2>5. Index
    BY <2>3, <2>4 DEF Index, IndexTypes, Agrees, NewestFirst
  <2>6. CommandsRouted
    BY <2>3 DEF CommandsRouted
  <2>. QED  BY <2>2, <2>5, <2>6 DEF CInv
<1>2. CInv /\ [INext]_allVars => CInv'
  BY StepOfConns, NextIInv, NextIndex, NextRouted DEF CInv
<1>. QED  BY <1>1, <1>2, PTL DEF ISpec

(* Every open, recognised connection is in conns_by_imei exactly once,     *)
(* with its own address, however often sockets and addresses are reused    *)
(* and the bucket is reversed.                                             *)
THEOREM IndexComplete == ISpec => []IndexCoversRecognised
<1>1. CInv => IndexCoversRecognised
  <2>1. SUFFICES ASSUME CInv PROVE IndexCoversRecognised
    OBVIOUS
  <2>2. Agrees(byImei, known, imei, conn)
    BY <2>1 DEF CInv, Index
  <2>3. ASSUME NEW c \in active, imei[sock[c]] # None
        PROVE  Cardinality({n \in DOMAIN byImei :
                              byImei[n] = [sock |-> sock[c], nc |-> c, freed |-> FALSE]}) = 1
    <3>1. sock[c] \in known /\ conn[sock[c]] = c
      BY <2>1 DEF CInv, IInv, ConnsBySockExact
    <3>2. PICK n \in DOMAIN byImei : ~byImei[n].freed /\ byImei[n].sock = sock[c]
      BY <2>2, <2>3, <3>1 DEF Agrees
    <3>3. byImei[n].nc = c
      BY <2>2, <3>1, <3>2 DEF Agrees
    <3>4. byImei[n] \in Entry
      BY <2>1, ElementOfSeq DEF CInv, Index, IndexTypes
    <3>5. byImei[n] = [sock |-> sock[c], nc |-> c, freed |-> FALSE]
      BY <3>2, <3>3, <3>4 DEF Entry
    <3>6. \A m \in DOMAIN byImei :
            byImei[m] = [sock |-> sock[c], nc |-> c, freed |-> FALSE] => m = n
      BY <2>2, <3>2 DEF Agrees
    <3>7. {m \in DOMAIN byImei : byImei[m] = [sock |-> sock[c], nc |-> c, freed |-> FALSE]} = {n}
      BY <3>5, <3>6
    <3>. QED  BY <3>7, FS_Singleton
  <2>. QED  BY <2>2, <2>3 DEF IndexCoversRecognised, Agrees
<1>. QED  BY <1>1, IndexInvariant, PTL

(* As long as no recognised connection has been closed, a command reaches  *)
(* a connection its tracker was recognised on, the newest one until the    *)
(* table is expanded, and is dropped only if there is none.                *)
THEOREM Routed == ISpec => []CommandsRouted
<1>1. CInv => CommandsRouted
  BY DEF CInv
<1>. QED  BY <1>1, IndexInvariant, PTL
=============================================================================
