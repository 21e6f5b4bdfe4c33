SPECIFICATION Spec
CONSTANTS
  happ = happ
  ss = ss
  wg = wg
  nm = nm
  NoTable = NoTable
  NoCache = NoCache
  MaxEnding = 1
  Order <- HappOne
  Kind <- HappOneKind
  Faults = {}
INVARIANTS
  RestoredOnceIdle
