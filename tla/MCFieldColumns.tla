--------------------------- MODULE MCFieldColumns ---------------------------
(* The entries of devices.yml for TLC, one for each layout behind the      *)
(* blocks; those of GTVGN and GTVGF (devices.yml:535-583) are not in Def:  *)
(* they have acc and vel in one column.                                    *)
EXTENDS FieldColumns

Position == <<"acc", "vel", "cog", "alt", "lon", "lat", "utc", "mcc", "mnc", "lac", "cid">>
R == Reserved
Entry(number, acc, tail) ==
  [number |-> number, erim |-> FALSE, acc |-> acc, block |-> Append(Position, R), tail |-> tail]
InBlock(number, acc, tail) ==  \* with the mileage in the block
  [Entry(number, acc, tail) EXCEPT !.block = Append(Position, "odometer")]

(* GTFRI from devices.yml:203, 469, 504, 586, 618 and 812 on; GTTOW from   *)
(* 179 (its "odmeter" is no field of devices.h); GTEPS from 235.           *)
Numbered == {
  Entry(TRUE, 8, <<"odometer", "hmc", R, R, "batt", "devs", "rpm", "fcon", "flvl", "sent",
                   "count">>),
  Entry(TRUE, 7, <<"odometer", "hmc", "aiv", R, R, "batt", "devs", R, R, R, "sent", "count">>),
  Entry(TRUE, 7, <<"odometer", "hmc", R, R, "batt", "devs", R, R, R, "sent", "count">>),
  Entry(TRUE, 7, <<"odometer", "hmc", "aiv", "batt", "devs", R, R, "sent", "count">>),
  Entry(TRUE, 7, <<"odometer", "hmc", "aiv", R, "batt", "devs", R, R, R, "sent", "count">>),
  Entry(TRUE, 7, <<"odometer", "hmc", R, R, "batt", "din", "dout", R, R, "sent", "count">>),
  Entry(TRUE, 8, <<R, "sent", "count">>),
  Entry(TRUE, 8, <<"odometer", "sent", "count">>)}

(* GTBPL from devices.yml:267 on, GTIGN from 309 and 863, GTIDN from 396.  *)
Unnumbered == {
  Entry(FALSE, 6, <<"sent", "count">>),
  Entry(FALSE, 6, <<"hmc", "odometer", "sent", "count">>),
  Entry(FALSE, 5, <<"odometer", "hmc", "sent", "count">>),
  Entry(FALSE, 7, <<"odometer", "sent", "count">>)}

(* Those of the GL300, from devices.yml:1168, 1192 and 1221 on.            *)
GL300 == {
  InBlock(FALSE, 5, <<"sent", "count">>),
  InBlock(TRUE, 7, <<"batt", "ios", "sent", "count">>),
  InBlock(TRUE, 7, <<"batt", "sent", "count">>)}

(* GTERI of the GV65 without accelerometer, from devices.yml:649 on, and   *)
(* with it, from 683.                                                      *)
Masked == {
  [Entry(TRUE, 8, <<"odometer", "hmc", "aiv", "batt", "devs", "uart", "anum", "adid", "adty",
                    "adda", "can">> \o optional \o <<"sent", "count">>) EXCEPT !.erim = TRUE] :
    optional \in {<<>>, <<"dgn", "da", "xyz">>}}

(* A 2 in one of the columns in which uart is looked for without there     *)
(* being one, before or behind them, or nowhere.                           *)
OneTwo == {{}} \cup {{k} : k \in {10, 11, 12, 22, 23, 24}}

Entries == Numbered \cup Unnumbered \cup GL300 \cup Masked
=============================================================================
