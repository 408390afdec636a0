SPECIFICATION Spec
CONSTANTS
  alice = alice  bob = bob  files = files  web = web  read = read  write = write
  k1 = k1  k2 = k2  local = local  moved = moved  slow = slow  fast = fast
  None = None  NoId = NoId  NoToken = NoToken  NoRpm = NoRpm
  ClientIds = {alice, bob}
  ServerIds = {files, web}
  Tools = {read, write}
  Secrets = {k1, k2, NoToken}
  Rpms = {slow, fast}
  Upstreams = {local, moved}
  Catalog <- MCCatalog
  Handlers = {h1}
  Operators = {o1}
  Configs <- Files
  Incoming <- AnyRequest
  LogBreaks = TRUE
  MaxApplies = 1
INVARIANTS TypeOK CallAuthorised ListingAuthorised RequestRefusedForCause AuditTrail StaleCacheOnlyByRace
PROPERTIES RequestsEnd
