SPECIFICATION Spec
CONSTANTS
  happ = happ
  ss = ss
  wg = wg
  nm = nm
  NoTable = NoTable
  NoCache = NoCache
  MaxEnding = 1
  Order <- Mixed
  Kind <- MixedKind
  Faults = {"death", "late", "stop", "rules"}
INVARIANTS
  TypeOK
  DirectAlone
  KillswitchServes
