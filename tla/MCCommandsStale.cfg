SPECIFICATION ISpec
CONSTANTS
  Imei = {i1}
  TestImei = TestImei
  Fd = {f1}
  Nc = {c1}
  None = None
  Idle = 1
  Kinds = {"resp"}
  MaxRecords = 1
  Capacities = {10}
  MaxEntries = 2
INVARIANTS
  AlternateKeysAgree
