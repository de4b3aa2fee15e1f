SPECIFICATION Spec
CONSTANTS
  Imei = {i1, i2}
  Version = {v1, v2, v3}
  None = None
  Dirs = {"writable"}
  LogDirs = {"writable", "readonly"}
  Limit = 1
  LogLimit = 1
  Slots = 2
  MaxRecords = 2
  MaxLines = 6
  MaxCrashes = 1
INVARIANTS
  TypeOK
  ProcessedIsLogged
  TrackerFilesAgree
  JoinedOnlyByCrashes
PROPERTIES
  DataLogKept
  LogKept
  LookupIsCurrent
SYMMETRY Symmetric
