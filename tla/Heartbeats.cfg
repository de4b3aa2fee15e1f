SPECIFICATION HSpec
CONSTANTS
  Imei = {i1}
  Subtype = {GTHBD, GTFRI}
  GTHBD = GTHBD
  Ignored = {}
  Defined = {GTFRI}
  Pos = {p1}
  Time = {t1, t2}
  Cog = {g1}
  None = None
  MaxNum = 1
INVARIANTS
  HeartbeatsTimed
