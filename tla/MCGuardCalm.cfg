SPECIFICATION Spec
CONSTANTS
  happ = happ
  ss = ss
  wg = wg
  nm = nm
  NoTable = NoTable
  NoCache = NoCache
  MaxEnding = 1
  Order <- Three
  Kind <- ThreeKind
  Faults = {"sysctl"}
INVARIANTS
  OneTunnel
  TunneledIPv6Off
  TunnelUpWorks
PROPERTIES
  NeverUncovers
CONSTRAINT
  StillClear
