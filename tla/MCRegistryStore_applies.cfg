CONSTANTS
  h1 = h1
  h2 = h2
  c1 = c1
  s1 = s1
  t1 = t1
  ClientIds = {c1}
  ServerIds = {s1}
  Tokens = {t1}
  NoToken = NoToken
  near = near
  far = far
  Settings = {near, far}
  Defaults = near
  Missing = Missing
  Broken = Broken
  NoOne = NoOne
  Handlers = {h1, h2}
  Originals <- OneOriginal
  Menu <- Updates
SPECIFICATION Spec
CHECK_DEADLOCK FALSE
INVARIANTS TypeOK Recoverable AnswerMatchesDisk MemoryFollowsFile RefusedForCause RestartAnnounced
PROPERTIES AppliesAreAtomic LockFreed
