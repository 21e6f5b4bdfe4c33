SPECIFICATION MCSpec
CONSTANTS
  Procs = {happ, ss}
  HappProcs = {happ}
  Readers = {r1, r2}
  TTL = 2
  Answer = 1
  Empty = Empty
  Conns = {direct, wg}
  NoVpn = direct
  Workers = {w1, w2}
  Limit = 1
  Recheck = 2
  MaxAge = 3
  MaxSwitches = 2
  Nothing = Nothing
  SubUrls = {u1, u2}
  Refreshers = {s1, s2}
  MaxLog = 1
  MaxUsers = 1
  Nil = Nil
  Legacy = Legacy
  Targets = {n1, n2}
  Sweepers = {v1, v2}
  MarkMaxAge = 2
  SweepLimit = 1
  MaxNews = 2
  NoMarks = NoMarks
INVARIANTS
  ProcsTypeOK
  PhantomIsShort
  WrongLineIsShort
  SubsTypeOK
  ProvidersCurrent
  FreshIsForUrl
  MarksAreRecent
PROPERTIES
  LastGoodKept
  ExitOwnLineReturns
  SubsServersComeFresh
  SweepMarksReturn
