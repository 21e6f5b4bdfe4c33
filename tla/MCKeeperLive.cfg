SPECIFICATION FairSpec
CONSTANTS
  Keepers = {k1, k2}
  Menus = {m1}
  MaxAttempts = 2
  Kind = "keys"
  NoFile = NoFile
  NoProc = NoProc
  NoKeeper = NoKeeper
PROPERTIES NoResurrection Converges
