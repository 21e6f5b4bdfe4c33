SPECIFICATION Spec
CONSTANTS
  happ = happ
  ss = ss
  wg = wg
  nm = nm
  NoTable = NoTable
  NoCache = NoCache
  MaxEnding = 1
  Order <- WgOne
  Kind <- WgOneKind
  Faults = {}
PROPERTIES
  FailClosed
