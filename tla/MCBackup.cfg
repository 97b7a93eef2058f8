SPECIFICATION Spec
CONSTANTS
  wal = wal  events = events  roles = roles
  n1 = n1  t1 = t1
  Durable = {wal, events}
  Logs = {wal}
  Documents = {roles}
  CountOrder <- Counting
  ArchiveOrder <- Archiving
  Names = {n1}
  Targets = {t1}
  MaxRecords <- Records
  MaxVersions = 2
  Damaged = Damaged
  NoName = NoName
INVARIANTS TypeOK RestoredMoment ReportedRestores AcceptedIsSound
PROPERTY NothingOverwritten
