SPECIFICATION ProfilesSpec
CONSTANTS
  nl = nl
  nl2 = nl2
  ProfileNames <- TwoProfiles
  StartsWith <- NamesStartWith
  Managers = {menu}
  NoIface = NoIface
INVARIANT ManagesThePicked
