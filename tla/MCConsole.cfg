CONSTANTS
  c1 = c1
  s1 = s1
  t1 = t1
  near = near
  ClientIds = {c1}
  ServerIds = {s1}
  Tokens = {t1}
  NoToken = NoToken
  Settings = {near}
  Defaults = near
  Missing = Missing
  Broken = Broken
  NoView = NoView
  Stored <- Start
  Others <- Elsewhere
  Fetches = {f1, f2}
  MaxStaged = 2
  MaxCalls = 2
  MaxOthers = 1
SPECIFICATION Spec
SYMMETRY Slots
INVARIANTS TypeOK EditsHaveAView EditsLostOnlyInFlight
PROPERTY NothingUnshown
