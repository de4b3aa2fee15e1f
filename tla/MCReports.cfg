SPECIFICATION Spec
CONSTANTS
  Imei = {i1, i2}
  Subtype = {GTHBD, GTFRI, GTINF, GTIGL}
  GTHBD = GTHBD
  Ignored = {GTIGL}
  Defined = {GTFRI, GTIGL}
  Pos = {p1, p2}
  Time = {t1, t2}
  Cog = {g1}
  None = None
  MaxNum = 2
INVARIANTS
  TypeOK
  LastPositionPublished
  IInv
PROPERTIES
  HeartbeatsRepeatPosition
  MetersFromPrevious
SYMMETRY Symmetric
