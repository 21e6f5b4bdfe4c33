SPECIFICATION Spec
CONSTANTS
  Keepers = {k1, k2}
  Menus = {m1, m2}
  MaxAttempts = 2
  Kind = "keys"
  NoFile = NoFile
  NoProc = NoProc
  NoKeeper = NoKeeper
SYMMETRY Symmetry
INVARIANTS TypeOK XrayAttended FinishedLeavesExited
PROPERTIES ImplementsSlot
