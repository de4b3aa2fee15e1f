SPECIFICATION Spec
CONSTANTS
  Imei = {i1}
  None = None
  Dirs = {"writable", "readonly"}
  Limit = 3
  MaxRecords = 3
  MaxCrashes = 0
INVARIANTS
  ProcessedIsLogged
CHECK_DEADLOCK FALSE
