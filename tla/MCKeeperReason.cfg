SPECIFICATION Spec
CONSTANTS
  Keepers = {k1, k2}
  Menus = {m1}
  MaxAttempts = 2
  Kind = "happ"
  NoFile = NoFile
  NoProc = NoProc
  NoKeeper = NoKeeper
PROPERTIES ReasonIsReported
