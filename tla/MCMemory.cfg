CONSTANTS
  entity = entity
  event = event
  Domains <- MCDomains
  EntityDomain = entity
  Self = self
  Other = {other}
  RecordWindow = 2
  EventWindow = 2
  MaxTime = 1
  MaxRecords = 4
  MaxEvents = 3
  MaxRelations = 2
SPECIFICATION Spec
INVARIANTS
  TypeOK
  IndexNewest
  ContextCoversLog
  RelationsExplained
