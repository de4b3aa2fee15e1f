SPECIFICATION ISpec
CONSTANTS
  Imei = {i1, i2}
  TestImei = i2
  Fd = {f1, f2}
  Nc = {c1, c2}
  None = None
  Idle = 0
  Kinds = {"resp"}
  MaxRecords = 1
  Capacities = {2, 10}
  MaxEntries = 3
INVARIANTS
  TypeOK
  ConnsBySockExact
  LocatedIsConnected
  IInv
  IndexCoversRecognised
  CommandsRouted
PROPERTIES
  ImplementsPresence
SYMMETRY Symmetric
