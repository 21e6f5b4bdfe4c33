SPECIFICATION Spec
CONSTANTS
  happ = happ
  ss = ss
  wg = wg
  nm = nm
  NoTable = NoTable
  NoCache = NoCache
  MaxEnding = 1
  Order <- Three
  Kind <- ThreeKind
  Faults = {"death"}
INVARIANTS
  OneTunnel
