SPECIFICATION FairSpec
CONSTANTS
  Imei = {i1}
  TestImei = TestImei
  Fd = {f1}
  Nc = {c1}
  None = None
  Idle = 1
  Kinds = {"resp", "ack", "hbd", "ping", "junk"}
  MaxRecords = 2
INVARIANTS
  StreamIntact
  RecognisedByFirstRecord
  IdleConnsClosed
PROPERTIES
  RecordsProcessed
  LeftConnsClose
