SPECIFICATION SSpec
CONSTANTS
  Imei = {i1}
  TestImei = TestImei
  Fd = {f1}
  Nc = {c1}
  None = None
  Idle = 2
  Kinds = {"resp"}
  MaxRecords = 1
INVARIANTS
  SilentConnsClosed
