------------------------------ MODULE Commands ------------------------------
(***************************************************************************)
(* Conns together with the second index of the connections, conns_by_imei, *)
(* and the commands that arrive over MQTT: on_message() looks a tracker up *)
(* in it (find_imei) and write_to_connection() prints the command to the   *)
(* connection found.                                                       *)
(*                                                                         *)
(* A conndata enters conns_by_imei when its connection is recognised and   *)
(* never leaves it: delete_conn() takes it out of conns_by_sock only, and  *)
(* frees its key, co->imei, but not the conndata, whose co->nc goes on     *)
(* naming an address that another mg_connection may get.  What the freed   *)
(* key compares equal to is undefined.                                     *)
(*                                                                         *)
(* uthash puts a new entry first in its bucket and a lookup takes the      *)
(* first that matches.  When the bucket has grown to                       *)
(* HASH_BKT_CAPACITY_THRESH entries the table is expanded, which reverses  *)
(* the bucket.  All trackers are in one bucket here, and in one still      *)
(* after the expansion; with up to 64 entries ideal_chain_maxlen is 1.     *)
(***************************************************************************)
EXTENDS Conns

CONSTANTS
  Capacities,  \* HASH_BKT_CAPACITY_THRESH, 10 in uthash.h
  MaxEntries   \* bound: the entries of conns_by_imei, for which clients are accepted

ASSUME CommandsAssumption == Capacities \subseteq Nat \ {0} /\ MaxEntries \in Nat

VARIABLES
  capacity,    \* one of Capacities, for good
  byImei,      \* the bucket of conns_by_imei, a sequence
  expandMult,  \* its expand_mult
  expansions,  \* how often the table was expanded; none is effective, so twice at most
  cmd,         \* observation: the command this step delivers, if it does
  latest       \* observation: the socket on which a tracker was recognised last

bucket == <<byImei, expandMult, expansions>>
indexVars == <<capacity, bucket, latest>>
allVars == <<vars, indexVars, cmd>>

IInit ==
  /\ Init
  /\ capacity \in Capacities
  /\ byImei = <<>> /\ expandMult = 0 /\ expansions = 0
  /\ cmd = None /\ latest = [i \in Imei |-> None]

(* HASH_EXPAND_BUCKETS: each entry is put before those already moved.      *)
Expands(b) == expansions < 2 /\ Len(b) >= (expandMult + 1) * capacity
Reversed(b) == [n \in DOMAIN b |-> b[Len(b) + 1 - n]]

(* slip: an IMEI that is in conns_by_imei already is not added again       *)
Added_Once(c) ==
  imei' # imei /\ \A n \in DOMAIN byImei : imei[byImei[n].sock] # who[sock[c]]
(* The record just processed has recognised the connection.                *)
Added(c) == imei' # imei

(* slip: a new entry goes behind the others of its bucket                  *)
HashAdd_Last(e) == byImei \o <<e>>
HashAdd(e) == <<e>> \o byImei

(* MG_EV_POLL up to HASH_ADD_KEYPTR.                                       *)
Recognise(c) ==
  /\ PollRecord(c)
  /\ IF Added(c)
     THEN LET b == HashAdd([sock |-> userData[c], nc |-> conn[userData[c]], freed |-> FALSE])
          IN /\ byImei' = IF Expands(b) THEN Reversed(b) ELSE b
             /\ expandMult' = IF Expands(b) THEN Len(b) ELSE expandMult
             /\ expansions' = IF Expands(b) THEN expansions + 1 ELSE expansions
             /\ latest' = [latest EXCEPT ![imei'[userData[c]]] = userData[c]]
     ELSE UNCHANGED <<bucket, latest>>
  /\ capacity' = capacity /\ cmd' = None

(* delete_conn(): the key is freed, the entry stays.                       *)
Forget(c) ==
  /\ Close(c)
  /\ byImei' = [n \in DOMAIN byImei |->
                  IF byImei[n].sock = userData[c]
                  THEN [byImei[n] EXCEPT !.freed = TRUE] ELSE byImei[n]]
  /\ UNCHANGED <<capacity, expandMult, expansions, latest>> /\ cmd' = None

Matches(n, i) == ~byImei[n].freed /\ imei[byImei[n].sock] = i
Found(n, i) ==
  /\ byImei[n].freed \/ Matches(n, i)
  /\ \A m \in 1..(n-1) : ~Matches(m, i)

(* "Can't stab": nothing matches.                                          *)
CannotStab(i) ==
  /\ NoCommand
  /\ \A n \in DOMAIN byImei : ~Matches(n, i)
  /\ UNCHANGED indexVars /\ cmd' = [to |-> i, nc |-> None]

(* mg_printf() to co->nc; if no connection has that address any more, it   *)
(* writes to freed memory and no connection sees the command.              *)
WriteToConnection(i) ==
  /\ \E n \in DOMAIN byImei :
       /\ Found(n, i)
       /\ IF byImei[n].nc \in active
          THEN Command(byImei[n].nc)
          ELSE NoCommand
       /\ cmd' = [to |-> i, nc |-> byImei[n].nc]
  /\ UNCHANGED indexVars

(* Nothing for a tracker in this round.                                    *)
NoMessage == NoCommand /\ UNCHANGED indexVars /\ cmd' = None

(* Every connection that is not recognised may still become an entry.      *)
Room == Len(byImei) + Cardinality({f \in known : imei[f] = None}) < MaxEntries

Elsewhere ==
  /\ \/ Tracker
     \/ Select
     \/ \E c \in Nc : \/ ReadBytes(c) \/ ReadEof(c) \/ ReadError(c)
                      \/ Skip(c) \/ PollNothing(c)
     \/ Room /\ \E c \in Nc, f \in Fd, i \in Imei : Accept(c, f, i)
     \/ NoAccept
     \/ SweepDone
  /\ UNCHANGED indexVars /\ cmd' = None

INext ==
  \/ \E c \in Nc : Recognise(c) \/ Forget(c)
  \/ \E i \in Imei : CannotStab(i) \/ WriteToConnection(i)
  \/ NoMessage
  \/ Elsewhere

ISpec == IInit /\ [][INext]_allVars

-----------------------------------------------------------------------------
(* Every open, recognised connection is in conns_by_imei once, with the    *)
(* address of its mg_connection; an entry of a connection that is not      *)
(* closed is of a recognised one.                                          *)
IndexCoversRecognised ==
  /\ \A c \in active : imei[sock[c]] # None =>
       Cardinality({n \in DOMAIN byImei : byImei[n] = [sock |-> sock[c], nc |-> c,
                                                      freed |-> FALSE]}) = 1
  /\ \A n \in DOMAIN byImei : ~byImei[n].freed =>
       byImei[n].sock \in known /\ imei[byImei[n].sock] # None

(* As long as no recognised connection has been closed, a command for a    *)
(* tracker goes to a connection on which it was recognised, and is dropped *)
(* only if it was not recognised on any.  Of several it is the last one,   *)
(* as long as the table has not been expanded.                             *)
CommandsRouted ==
  (cmd # None /\ \A n \in DOMAIN byImei : ~byImei[n].freed) =>
     IF cmd.to \in Identified
     THEN /\ cmd.nc \in active /\ imei[sock[cmd.nc]] = cmd.to
          /\ expansions = 0 => cmd.nc = conn[latest[cmd.to]]
     ELSE cmd.nc = None

(* qtripp.c:59-60 calls the two tables alternate keys of the same          *)
(* connection information: what conns_by_imei has, conns_by_sock has.      *)
AlternateKeysAgree == \A n \in DOMAIN byImei : ~byImei[n].freed
=============================================================================
