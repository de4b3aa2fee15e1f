# A verification of qtripp

qtripp is a TCP server for Queclink GPS trackers.  A tracker connects over GPRS and sends records
`+RESP:GTFRI,...$`; qtripp takes them apart, publishes the positions as OwnTracks JSON over MQTT,
answers heartbeats, forwards commands that arrive over MQTT to the trackers, and publishes a
pseudo-LWT when a tracker has gone.  It is one thread: an event loop (mongoose) that calls one event
handler, and the client loop of libmosquitto.  What makes it hard is not parallelism inside the
program.  It is that trackers connect, disconnect and reconnect at any moment, that TCP cuts their
records anywhere, that sockets and heap addresses are reused, and that the program keeps state about
them in three tables that must agree.  And it keeps its log, its data log and a file per tracker
with calls whose results it ignores, in a process that may die between any two of them.

Line numbers are those of the files under `src/`; `PROJECT.json` maps each definition to its lines.

## Inventory

| component | state | operations | modelled in |
|---|---|---|---|
| event loop and connection table (`qtripp.c`) | `conns_by_sock`, per connection `imei`, `nc`, `mb` | `MG_EV_ACCEPT`, `MG_EV_RECV`, `MG_EV_POLL`, `MG_EV_CLOSE`, `add_conn`, `delete_conn`, `count_conns` | `Conns`, `ConnsPresence` |
| mongoose (`mongoose.c`, vendored) | list of connections, buffers, flags, `last_io_time`, select sets | poll, accept, read, write, sweep, close | `Conns` (the path qtripp uses), `Silence` |
| commands (`qtripp.c`) | `conns_by_imei` | `on_message`, `find_imei`, `write_to_connection` | `Commands` |
| report handler (`tline.c`) | `imei_stats` | `handle_report`, `imei_last_position`, `process` | `Reports`, `Heartbeats`, `FieldColumns` |
| publication and MQTT (`tline.c`, `qtripp.c`) | libmosquitto's connection, the broker's session | `pub`, `on_connect`, `on_disconnect`, the main loop's reconnect; `transmit_json`, `pseudo_lwt` | `Mqtt`; the lookups of `transmit_json` in `Outputs` |
| file replay (`tline.c`) | none of its own | `handle_file_reports` | `Reports`, mode "replay" |
| statistics (`tline.c`) | `report_stats`, counters | `stat_incr`, `print_stats`, `dump_stats` | no: only printed |
| tables (`devices/`) | static hashes built at the start | `lookup_devices`, `lookup_models`, ... | by their outcome |
| splitting, conversions (`util.c`) | none | `clean_split`, `splitter`, `str_time_to_secs` | by their outcome |
| log (`util.c`) | the logfile and ten numbered ones, `logfp` | `xlog`, `rotate_file` | `LogRotate` |
| data log, files of the trackers (`qtripp.c`) | the files, their names, the descriptor `ud->datalog` | `MG_EV_POLL`, `main` | `Datalog` |
| constfile | an open CDB and its mtime | `constfile_open`, `constfile_checkfile`, `constfile_stab` | `ConstFile` |
| these three together | | one process, which dies in all of them | `Outputs` |
| qlog | one buffer per connection, a file | its own `ev_handler` | no |
| configuration, statsd, beanstalkd, json, uthash, ini | read once, or vendored, or optional | | no, but for the order of a uthash bucket in `Commands` |

How they interact:

* `main()` alternates `mg_mgr_poll()` and `mosquitto_loop()`.  Everything below is a call from one
  of the two; nothing runs at the same time as anything else.
* mongoose calls `ev_handler()` for accept, received bytes, poll and close.  `MG_EV_RECV` only moves
  bytes to `mb`; `MG_EV_POLL`, once per connection and round, takes the first record of `mb` through
  `process()` and `handle_report()`.
* `handle_report()` returns the IMEI in the line, or NULL, and perhaps an answer.  It publishes
  locations itself; `process()` writes the answer and publishes the raw line.
* The first IMEI returned on a connection *recognises* it: `co->imei` is set and the conndata is
  added to `conns_by_imei`.
* `mosquitto_loop()` may call `on_message()`, which looks a tracker up in `conns_by_imei` and writes
  to its connection, from outside mongoose's round.
* `MG_EV_CLOSE` publishes the pseudo-LWT if no other connection has the IMEI, and removes the
  conndata from `conns_by_sock`.
* `MG_EV_POLL` writes a record to the data log before `process()` and to the file of its tracker
  after; `handle_report()` and `transmit_json()` look the tracker up in the CDB; all of them call
  `xlog()`, which may rotate the log.
* `pub()` may reconnect to the broker from inside an event handler, the main loop from outside.

What makes each correct, and where it is stated:

* connection table: it has the open connections and nothing else, under socket reuse
  (`ConnsBySockExact`); no byte is lost, doubled or moved to another tracker (`StreamIntact`);
  the connection is its own tracker's (`RecognisedByFirstRecord`); idle connections go
  (`IdleConnsClosed`); the LWT comes exactly when it should (`LocatedIsConnected`,
  `ImplementsPresence`); complete records get their turn and left connections are closed
  (`RecordsProcessed`, `LeftConnsClose`).
* commands: what is recognised can be found (`IndexCoversRecognised`) and a command goes to the
  right connection (`CommandsRouted`).
* report handler: what it keeps is what it published (`LastPositionPublished`), a heartbeat invents
  no position (`HeartbeatsRepeatPosition`) and has its own time, which it has not (`HeartbeatsTimed`,
  violated), a distance is between consecutive published locations (`MetersFromPrevious`); each field is read from its own column (`PositionsFromBlocks`,
  `BehindBlocksFound`).
* files: what is written stays written, across rotations and crashes (`DataLogKept`, `LogKept`);
  nothing is processed that is not logged (`ProcessedIsLogged`); the files of the trackers have
  their own records in order (`TrackerFilesAgree`), a line each (`JoinedOnlyByCrashes`).
* constfile: a lookup is of a file that was there (`LookupIsCurrent`).
* MQTT: after whatever has failed, commands reach the program again (`ComesBack`).

## The modules

### Conns

The core.  State: the peers and the kernel (`peer`, `who`, `wire`), mongoose's connections
(`active`, `sock`, `userData`, flags, `quiet` for `now - last_io_time`), the program's table (`known`
for the keys of `conns_by_sock`, `imei`, `conn` for `co->nc`, `mb`), and `valid`, the trackers with a
known position.  `sent`, `done` and `last` are observations; no action reads them except to record
and to bound what trackers send.

| action | code |
|---|---|
| `Send`, `Disconnect` | a tracker: sends the body or the `$` of a record, ends or loses its connection |
| `Select` | `mg_socket_if_poll()` up to `select()`: time passes, the readable connections are fixed |
| `ReadBytes`, `ReadEof`, `ReadError` | `mg_handle_tcp_read()` with `recv()` > 0, 0, -1, and `MG_EV_RECV` |
| `Skip`, `PollNothing`, `PollRecord` | the rest of `mg_mgr_handle_conn()`: write, then `MG_EV_POLL` without and with a complete record |
| `Accept`, `NoAccept` | the listening connection, handled last; `MG_EV_ACCEPT` |
| `Close`, `SweepDone` | the closing loop of `mg_socket_if_poll()`, `MG_EV_CLOSE`, `delete_conn()` |
| `Command`, `NoCommand` | `mosquitto_loop()`, which may end in `mg_send()` |

`PollRecord` is the whole handler: idle check, `process()`, the answer (which resets
`last_io_time`), the recognition, the removal of the record.  An `MG_EV_CLOSE` in the middle of a
round cannot happen: mongoose only flags connections, the sweep closes them.

A record is two tokens, its body and `End`; the body has the sender's IMEI and one of five kinds,
the outcomes of `handle_report()` as far as connections can tell.  Reads cut the token sequence
anywhere, so a record can arrive in two rounds, and several can arrive in one.

### Presence, ConnsPresence

What a subscriber sees of a tracker, without sockets: `Heard` makes it connected and may publish a
location, `Gone` ends its last connection and publishes the LWT in the same step.  `ConnsPresence`
instantiates it with `connected <- Identified`, the IMEIs in `conns_by_sock`.  The refinement fails
if the LWT is published while another connection of the tracker is open, if it is missing, or if a
location follows it without a connection.  The test IMEI 123456789012345 gets no LWT, as in the code.

### Commands

`Conns` with `conns_by_imei`.  An entry is made at recognition and stays; `delete_conn()` only frees
its key (the removal is disabled).  What a freed key compares equal to is undefined, so `Found` may
take a freed entry that comes before the first real match.  `byImei` is the bucket in uthash's order:
a new entry comes first, and when the bucket has grown to its capacity the table is expanded, which
reverses it (`HASH_EXPAND_BUCKETS`); after two expansions that did not help uthash expands no more.  Writing through a stale `co->nc` reaches
whichever connection has that address now, or none.

### Silence

`Conns` with a second clock per connection that only received bytes reset.

### Reports

`handle_report()` in steps: one action per return (`BadLine`, `IgnoredReport`, `AckReport`,
`UndefinedReport`), `StartReport` up to the loop, then `SkipSubReport` or `PublishSubReport` per
turn.  State: the loop's locals, `imei_stats`, and what callers and subscribers see (`ret`,
`response`, `published`, `raw`).

`published` is what is handed to `pub()`; whether the broker gets it is not part of this module.

### Heartbeats

`Reports` with the time that a tracker puts into a heartbeat, which `handle_report()` never reads.

### FieldColumns

Which columns `handle_report()` reads for which field.  `devices.yml` gives the columns of a line
with one position and one of each repeated part; a real line has as many blocks of twelve columns
as its number says, parts the mask leaves out, and repeated 1-wire devices and accelerometer data.
An entry of `devices.yml` is a record: the column of the first block, the fields of a block, those
behind it.  `InLayout` says what the entries keep to: every field has one column, those of a position
are in the block; what is repeated or may be missing comes in one order, whole, behind what neither
is; a mask is of the parts there are.  It is read off `devices.yml`, not asked of the code: no
correction could be right for an entry with `count` before `adid` as well.  The entries with
positions keep to it but for those of GTVGN and GTVGF (`devices.yml:535-583`), which give `acc` and
`vel` one column; `MCFieldColumns` has one entry of each layout.  `Line` is what a tracker sends for
an entry, `Columns(f)` what the code reads for `f`, with the corrections of `tline.c:671-937`; the
properties compare the two.  Values matter only where the code branches on them: the two counts, the
UART type, and, since the code may look for it in a column that has something else, which of the
other columns have a 2 (`twos`).  How many columns an optional part of the mask
takes away is a matter of the protocol, so the properties look at lines that have all of them, or at
fields before them.

### Journal, Datalog, LogRotate, ConstFile, Outputs

`Journal` is what a log promises: entries come at the end, and stay; one that is trimmed loses its
oldest entries only, and keeps some.  `Datalog` and `LogRotate` implement it through
`INSTANCE Journal WITH entries <-` what is in their files under any name.

`Datalog`: one action per call on disk of `MG_EV_POLL`.  `WriteRecord`, `WriteNewline`, `LinkAside`,
`Unlink`, `Reopen` (without `O_APPEND`, unlike `Start`), `Process`, `TrackerRecord`,
`TrackerNewline`.  A file is an inode; `datalog` and `aside` are the names, `fd` the descriptor with
its offset.  `CrashData` ends the process between any two.

`LogRotate`: `Fopen`, `Xlog`, then `RemoveLast`, and `Link` and `Remove` for each of the ten names,
of a rotation.  `slot[k]` is the file that `logfile-00k` names; two names may be of one file.

`ConstFile`: `OpenFirst`, then `Stat`, `OpenAgain`, `Seek` of a lookup, with `Replace` and
`Withdraw` of the operator between any two.  The two `assert()`s lead to `"abort"`.

`Outputs` puts the three into one process.  It instantiates them and says when each may step: a call
is in the middle of its caller, so the log is rotated while the record waits, and a lookup is made
between the write to the data log and the one to the tracker's file.  `Crash` is a crash of all
three at whatever point each is.

### Mqtt

The second half of `main()`'s loop.  `Pub` is `pub()` in a handler, when there is no connection;
`Polled`, the five results of `mosquitto_loop()` (`LoopNoConn`, `LoopLost`, `LoopRefused`,
`LoopConnack`, `LoopIdle`, with the callbacks they make) and `Result`, which reconnects on
`MOSQ_ERR_NO_CONN` only.  The broker accepts, refuses or is gone, forgets its sessions or not
(`Change`), and the connection fails at any moment (`Fails`).

### The proofs

`ConnsProofs`, `CommandsProofs`, `ReportsProofs`, `DatalogProofs`, `LogRotateProofs` and
`ConstFileProofs` have one lemma per action, `OutputsProofs` one per component, `FieldColumnsProofs`
one per group of fields; they are described below.  `MCCommands`, `MCReports` and `MCOutputs` only add
the symmetry sets, the first also the refinement of `Presence`; `MCFieldColumns` has entries of
`devices.yml`.

Definitions marked "slip" are plausible mistakes in the definition next to them.  The project uses
them to see that a property notices: with the slip in place its run must fail (`PROJECT.json`,
"mutants").

## The runs

| run | instance | what it shows |
|---|---|---|
| `conns_stream` | `Conns`, 1 socket, all 5 kinds, 2 records | every order of kinds, every cut by reads, recognition by the first record with an IMEI; with fairness, records get their turn and left connections close |
| `commands` | 2 trackers (one the test IMEI), 2 sockets, 2 addresses, 3 entries, buckets of 2 and of 10 | the table, the buffers and the LWT while a tracker has two connections, closes and reconnects on the same numbers; the inductive invariant `IInv`; the refinement of `Presence`; the index and the routing, with and without an expansion |
| `reports` | 2 trackers, 2 positions, 2 times, up to 2 sub-reports | positions kept, heartbeats, distances |
| `field_columns` | 17 entries, up to 3 positions, 2 1-wire devices, 2 sets of accelerometer data, a 2 in none or one of the columns that may be taken for `uart` and their neighbours | positions from their blocks, and the fields behind the blocks |
| `outputs` | 2 trackers, 2 records, 6 log lines, 2 numbered logs, 3 versions of the CDB, a crash | the files, as invariants and as refinements of `Journal` |
| `mqtt` | no parameters | the program comes back to the broker |
| `undrained` | violated | see below |
| `stale_index` | violated | see below |
| `silence` | violated | see below |
| `heartbeats` | violated | see below |
| `behind_repetitions` | violated | see below |
| `data_log_overwritten` | violated | see below |

Why the bounds are enough.  Two connections are the fewest with which a tracker overlaps with
itself and the LWT rule `count_conns(imei) < 2` matters; two sockets and two addresses are enough for
either to be reused while the other is open, in either pairing.  `Idle` 1 distinguishes "some time"
from "too long"; `Idle` 0 keeps the larger instances small and still has both outcomes of the check,
because a read or a write sets the clock to 0 in the round in which time passes.  Two records per
connection give a buffer with one record and the start of the next, and two complete ones;
`undrained` has three.
`MaxRecords` bounds what a connection sends, not what is processed; a reconnected tracker sends as
many again.  Two sub-reports give a loop that passes over the first, the second, both or neither;
the count column is independent of the fixes, so 0 and 1 are there too.
The corrections of `FieldColumns` are linear in the three counts, so two of each, and a third block
to tell a middle one, show a wrong factor; the entries have a line without a number, with the IO
status, with the mileage in the block, and with the optional parts.
In `outputs` a record with its newline fills a data log, so the second is the first after a rotation,
or comes behind the first where a crash was before the rotation; two lines fill a
log file and two numbered logs are the fewest in which one is moved to the place of another, so six
lines are the fewest that lose the oldest file.  One crash can come at each of these moments, also
inside the rotation that loses the file, with lines before and after it; the log's directory is
writable or not, the data log's is writable.  Three versions of the CDB are needed for the one opened
not to be the one whose mtime was recorded: the first is open, the second is seen by `stat()`, the
third is there at `open()`.  A version is a model value, since the code only asks whether two mtimes
are the same.  The numbers of the code (10 files, 10 MB) only make the same cases rarer.  In
`commands` a bucket of 2 is expanded by the second entry, one of 10 is not.  `MaxEntries` bounds the
entries of `conns_by_imei`, which nothing removes, and by that the recognitions of a behaviour: a
client is accepted only while there is room for the entry it may become.  Three are enough for two
connections at once and a third after one of them has closed, on the socket and address it left.
The columns with a 2 in `field_columns` are 10 to 12 and 22 to 24: the one the code looks at in place
of a missing `uart` is 11 with two positions and 23 with three.  The proofs do not depend on
any of these numbers.

Deadlock is checked in every run that is to pass: the main loop never stops, and lines keep coming;
in `Outputs` the bounds on records and lines are reached, and `Rest` is the server without either, or
stopped by an `assert()`.

Fairness (`conns_stream`).  `WF_vars(Round)`: `main()` loops for ever and each call it makes returns.
A round is a fixed sequence in which only one thing can be next, up to the order of the connections,
and each is handled once, so weak fairness of the whole is enough for each of them.
`SF_vars(Flush(c))`: while bytes are to be sent, TCP delivers them to a live peer at some time, or
the connection fails, so of the attempts that keep being made, one ends in an empty buffer.  Strong
fairness because an attempt is possible only once per round.  Nothing is assumed of the trackers: they may stay silent, stop in the middle
of a record, or leave.

Fairness (`mqtt`).  `WF_vars(MainLoop)`: as above; its disjuncts exclude each other, so this is
fairness of each.  `WF_vars(Answer)`, `WF_vars(Subscribed)`: a broker that stays up answers what
reaches it.  Nothing is assumed of `Pub`: it may come never, or in each round.  `ComesBack` is about
behaviours in which from some time on the broker is up and no connection fails; it does not say when.

## What the code does that a comment says otherwise

* `undrained`: `MG_EV_POLL` takes one record per round (the `break` at `qtripp.c:319-320`), also in the
  round that reads the end of the stream, after which the connection is closed.  A tracker that sends
  three records, there to be read in one round, and closes loses the third: the first is
  taken in the round that reads them, the second in the one that reads the end.  (Two records and an
  end lose nothing.)  The comment at `qtripp.c:226-231` has each record processed.  The property
  looks only at connections ended in order by their tracker; a reset, after which
  mongoose does not poll any more (`mongoose.c:3684`), and a failed write lose what is buffered as well.
* `stale_index`: `conns_by_imei` keeps closed connections (`qtripp.c:110-129`), although the two tables are alternate
  keys of the same information (`qtripp.c:59-62`).  `CommandsRouted` holds until the first
  recognised connection has been closed, and says so.
* `silence`: the idle check looks at `last_io_time`, which writing resets too (`mongoose.c:2631`);
  the comment at `qtripp.c:244-248` speaks of receiving.
* `heartbeats`: what is published for a heartbeat has the time of the last position
  (`tline.c:513`); the comment at `tline.c:499-502` has it be "our last valid position and the
  timestamp from the heartbeat".  The position is the last one: `HeartbeatsRepeatPosition`.
* `behind_repetitions`: `hmc`, `aiv`, `ios`, `din` and `dout` are read without the offset of the
  repeated blocks (`tline.c:781`, `790`, `832`, `861`, `871`), which the fields next to them have,
  although the block they are in is to get what is behind the repetitions (`tline.c:765-769`).
* `data_log_overwritten`: when the data log is too long it is linked to another name, unlinked and
  opened again without `O_APPEND` (`qtripp.c:279-283`), whatever `link()` and `unlink()` say.  In a
  directory in which names cannot change it is the same file, and its first records are overwritten;
  `README.md:31` of the repository has raw data copied to a file for backup and replay.

One more, which needs no run: the raw line is published also without an IMEI, under the topic
`(null)` (`qtripp.c:197-202`).

`BehindBlocksFound` leaves out, by hypotheses of its own, the fields of `behind_repetitions` and two
things that look like mistakes and contradict no comment.  In both cases it is false of the code:

* `uart` is read without asking whether the entry has one (`tline.c:672`).  With -1 for its column
  and two positions that is column 11, with three column 23 and so on: the altitude where the block
  begins at 8, the longitude where it begins at 7.  A 2 there is taken for the UART type and, by the
  same column, for two 1-wire devices, which moves the columns of `sent` and `count` by three
  (`tline.c:672-684`, `892-931`).  An altitude of 2 is nothing unusual.
* `dgn`, `da` and `xyz` do not move with the number of 1-wire devices (`tline.c:738-750`): with two,
  they are read from the second one's columns, and `sent` and `count` are moved by what is found there.

## What is proved

Assumptions.  `ConnsAssumption`: `None` is no tracker, socket or address, there are finitely many
sockets, `Idle` and `MaxRecords` are naturals.  `CommandsAssumption`: a bucket's capacity is
positive.  `ReportsAssumption`: `None` is none of the values it stands beside, and there is at least
one sub-report.  `FieldColumnsAssumption`: the entries are `InLayout`, the bounds of the counts
positive, and `TwoSets` are any sets of columns.  `DatalogConstants`, `LogRotateConstants`,
`ConstFileConstants` (together `OutputsAssumption`): limits and bounds are naturals, there is a
numbered log, `None` is nothing else.  Of the data log also
`Dirs = {"writable"}`, but for its types; the run `data_log_overwritten` shows why.  Nothing else: any sets of trackers,
sockets, addresses and versions, any limits, any number of crashes.

| theorem | statement |
|---|---|
| `ConnsProofs!Invariant` | `Spec => []IInv` |
| `TypeCorrect`, `SocketTable`, `Streams`, `Located`, `IdleClosed`, `Recognised` | the safety properties of `Conns`, from it |
| `CommandsProofs!IndexInvariant`, `IndexComplete`, `Routed` | `ISpec => []CInv` of `Commands`, and its properties |
| `ConnsProofs!Refinement` | `Spec => ImplementsPresence` |
| `ReportsProofs!Invariant`, `TypeCorrect`, `LastPosition`, `Heartbeat`, `Distances` | `Spec => []IInv` of `Reports`, its safety and step properties |
| `DatalogProofs!Invariant`, `Processed`, `TrackerFiles`, `OneRecordALine`, `ForGood` | the same of `Datalog`; the last is its refinement of `Journal` |
| `LogRotateProofs!Invariant`, `LogJournal` | of `LogRotate`; the second is its refinement of `Journal` |
| `ConstFileProofs!Invariant`, `Lookup` | of `ConstFile` |
| `DatalogProofs!TypeCorrect` | `Spec => []TInv`, in directories of every kind |
| `FieldColumnsProofs!Positions`, `BehindBlocks` | the properties of `FieldColumns` |
| `OutputsProofs!Implements` | `Outputs` implements the three modules |
| `TypeCorrect`, `LogStays`, `DataStays`, `ProcessedInLog`, `TrackerFilesOwn`, `LinesWhole`, `Lookups` | their properties, of `Outputs` |

`Conns!IInv`.  The properties are not inductive by themselves.  `ConnsBySockExact` needs the kernel
to agree that a socket in the table is open, or `Accept` could return one that is in use
(`KernelAgrees`); `StreamIntact` needs a closed socket to have nothing sent, buffered or done, or a
reused number would start with the previous client's bytes.  `LocatedIsConnected` needs the IMEI of
a record to be that of the connection it arrived on (`OwnRecords`): otherwise a record could publish
a location for one tracker on a connection recognised as another.  `IdleConnsClosed` needs to know
where in the round a connection that is too quiet may still be: not yet handled, or flagged
(`QuietFlagged`).  `Phases` says that nothing is left to handle outside the handling phase.  The
step proof has one lemma per action; `ReadBytes`, `PollRecord` and `Close` do the work, the first
two with lemmas on splitting and joining sequences (`SplitAt`, `TextAndRest`, `ConcatRegroup`).

`Recognised` adds `WholeRecords`: bodies and `End`s alternate in what a tracker sends and whole
records are processed, so the first record in a buffer is a body and its `End` and its IMEI is the
one `handle_report()` returns.

`CommandsProofs!CInv`.  Each step of `Commands` is one of `Conns`, so `IInv` holds.  `Agrees` says
that each recognised connection has exactly one entry that is not freed, with its address: a new
entry is made only where there was none (`imei` was `None`), and closing frees it.  `NewestFirst`
says that, while nothing is freed and the bucket was never reversed, the first entry of a tracker is
of its newest connection; that is what `find_imei()` returns.

`Presence`.  `PollRecord` is `Heard` of the connection's tracker when the record has an IMEI,
`Close` is `Gone` when no other connection has the IMEI, from `count_conns` of 1 by cardinality;
each other action leaves `Identified` and `last` alone.

`Reports!IInv` adds `LoopState` to the types: in the loop the tracker has an entry, and if there is
a last latitude it is that of the location last published for it, which carries `MetersFromPrevious`
across sub-reports that are passed over.  The step properties follow from the invariant on each
step that publishes.

`Datalog!IInv`.  Nothing is lost if every file has a name (`AllNamed`) and every record is in some
file (`AllLogged`).  A write keeps what the file has only at its end: after a rotation the descriptor
has no `O_APPEND`, and it is at the end because the file it opened was new, which needs the old name
to be gone (`AtEnd`, `AllNamed` at `"reopen"`).  `Pending` is not yet in the trackers' files, so
their order is kept, and a crash takes one record from `Pending` to `Missing` at most.
`OneRecordALine` counts the records with no newline behind them (`Marks`): a record adds one, its
newline takes it away, and only a crash comes between.

`LogRotate!IInv`.  Files are in the order of their numbers and the logfile is the newest
(`NewestFile`, `InSequence`); a file has its new name before it loses the old one (`Moving`), so what
is left of the log has no gap (`NoGap`).  How much is left needs `Followed`: behind `logfile-00k` at
least `k - 1` files have become full, less one for each crash, because a rotation that was cut off
leaves a hole which the next one fills without moving what is beyond it.  When the last file goes,
the lines behind its own are therefore `(Slots - crashes) * (Limit + 1)` at least, which is what
`Trim` asks for.

`ConstFile!IInv`.  The version open may differ from the one whose mtime is recorded, if the file
was replaced a second time between `stat()` and `open()`; `OpenVersion` says that the recorded one is then not at
the path, so the next `Changed` is true.  That it never comes back is an assumption (below).

`OutputsProofs`.  Each step of `Outputs` is a step of one component and a stutter of the others,
and `Crash` is a step of each; so `Outputs` implements the three, and their theorems are cited.

`DatalogProofs!TypeCorrect`.  In a directory in which names cannot change the invariant above fails,
with the property it is for.  `TInv` adds to the types what does not depend on names: there is a
record while one is written, of a known tracker where its file is (`Newest`), and a descriptor and a
name wherever the code uses them (`Ready`).  `Outputs!TypeOK` needs no more of the data log, so it
holds whatever `Dirs` is.

`FieldColumns`.  The states are few and the algorithm is the content: the corrections of
`handle_report()`, sums of closed form, against a line put together from parts of various lengths.

1. `Flattened` and `InPieces`: a sequence joined from pieces has the `r`-th element of the `k`-th
   piece at `r` behind the lengths of those before it, and nothing else.  The recursive function in
   `FlattenSeq` is met by what the first `k` pieces join to, as a function of `k`, and by stepping
   through the naturals (`Steps`, from the well-foundedness of `<`).  `LineLaid` is that for `Line`.
2. `Widths` and `Offsets`: in a line with all its parts, a field begins `Shift` columns from where
   the entry has it; `Shift` is the sum of what the special parts before it add.
3. `Ordered`, `NotBefore`, `Whole`, `Shifts`: by the layout that sum is 0, `OneWireShift`, or
   `OneWireShift + XyzShift + IosShift`, depending on the field only.
4. `OneColumn`, `RepeatedColumns`, `ColumnInEntry`: the columns of a field are one, or one in every
   two or three, and `dp(f)` is the entry's.
5. `UartRead`, `DgnRead`: what the code decides by is what the line says, although it is looked for
   with the same corrections.  If the entry has no `uart` it is looked for in column `NotUart`, which
   has no 2 by hypothesis.
   `BehindColumns` and `BlockColumns` compare the two sides, one group of fields after the other.

Every exception is a hypothesis of `BehindBlocksFound`.  Without those on several positions (of
`hmc`, `aiv`, `ios`, `din` and `dout`), on several 1-wire devices (of the accelerometer, and of `sent`
and `count` behind it) or on a 2 in the column `NotUart` the property fails on the entries of
`devices.yml`; no entry has `ios` behind optional parts.

Only model-checked: liveness (`RecordsProcessed`, `LeftConnsClose`, `ComesBack`), which under
fairness is out of the prover's reach, and the violations.  Every other property of a passing run is
a theorem.  Where a proof needs induction over data, as for the pieces of a line or the files of a
log, it is over a number, with the set of numbers for which the statement holds.

## Assumptions about the environment

* A tracker reports its own IMEI, the same on all its connections.  Two trackers with one IMEI, or
  one that changes it on a connection, would void `RecognisedByFirstRecord` and `Presence`.
* Descriptors stay below `FD_SETSIZE`, and memory does not run out.
* Time passes while `select()` waits.  Handlers take no time on the clock of the model.
* `recv()` and `send()` on a live connection do not fail for a transient reason other than
  `EAGAIN` and `EINTR`, which mongoose retries.
* The process may die at any moment, the machine does not: what `write()` has taken is there after a
  restart.  The disk is not full: a write that comes short is not modelled.
* `datadir` is configured and can be written.  Two files are not set aside in one second, and no
  other process writes these files.
* The CDB is replaced by `rename()`, as `cdb(1)` does, no two versions have the same mtime, and none
  is put back that was there before: constfile tells versions by their mtime in seconds.
* libmosquitto keeps QoS 2 publications in memory while there is no connection; they are lost with
  the process.
* A line has the columns its entry in `devices.yml`, its counts and its mask say, none of them empty,
  and a number of at least one where it has a number.
* An IMEI has 15 digits, as Queclink's do, so it fits the keys that hold it.

## What is not modelled

The text of records and JSON, what becomes of the values of columns that are only copied, statistics
and the text of the log: nothing above depends on them.  Configuration and tables are fixed at the start.
statsd and beanstalkd are written to and never read.  qlog is a separate program that writes each
record to a file and nothing else.  The dup that mongoose makes beyond `FD_SETSIZE`.  What of
libmosquitto's queue is sent when a replay ends: `handle_file_reports()` calls `mosquitto_loop()` once
a line with a timeout of 0 (`tline.c:1231`), `main()` not again before it disconnects, and the rest is
the library's and the broker's.

Of 28871 lines of implementation some 26000 are vendored and outside what qtripp does: `mongoose.c`
and `mongoose.h` (22000; of them the select loop, TCP and the life of a connection are in `Conns`, the
TLS, UDP, DNS, HTTP, MQTT and CoAP code is not used), `json.c`, `uthash.h`, `utstring.h`, `ini.c` and statsd.
The map covers qtripp's own state and control; a larger share could only be had from code
that qtripp never runs.

## What could come next

1. `Qlog`: its scan for records, which restarts with -1 in an unsigned counter (`qlog.c:80`).
2. `DeviceLookup`: the fallbacks of `lookup_devices()` against their documented order.
3. `FdSetSize`: the dup in `mg_socket_if_poll()` (`mongoose.c:3790`) under `Conns`.
4. Writes that come short on a full disk, in `Datalog` and `LogRotate`.
5. Of `Mqtt`, what `ComesBack` rests on: a connection that is open and not lost is subscribed, or its
   SUBSCRIBE is on the way; with a proof, from `broker = "down"` leaving no connection that is not lost.
