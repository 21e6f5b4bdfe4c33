SPECIFICATION MCSpec
CONSTANTS
  wireguard = wireguard
  ping = ping
  abuseipdb = abuseipdb
  u1 = u1
  u2 = u2
  m1 = m1
  m2 = m2
  k1 = k1
  k2 = k2
  k3 = k3
  a = a
  b = b
  p1 = p1
  p2 = p2
  fa = fa
  fb = fb
  fc = fc
  de = de
  fde = fde
  nl = nl
  nl2 = nl2
  General <- OneGeneral
  ProviderRows <- OneProvider
  ToolRows <- OneTool
  SourceRows <- OneSource
  Keyed <- KeyedSource
  ApiKeys = {"typed"}
  Urls = {u1, u2}
  MaxUrls = 2
  Heights = {1, 3}
  Menus = {m1, m2}
  FirstFiles <- OldFiles
  MaxOps = 2
  Header = Header
  Keys = {k1, k2, k3}
  KindOf <- Kinds
  Titles = {a}
  Importers = {p1, p2}
  MaxUid = 3
  FirstStore <- OldStore
  NoUid = NoUid
  Feeds = {fa, fb, fc}
  HostOf <- Hosts
  PathOf <- Paths
  MaxLines = 5
  MaxTokens = 3
  ServerNames = {de, fde, nl}
  PartOf <- InFlags
  SubIds <- TwoSubs
  Lists <- TwoLists
  Captures <- TwoCaptures
  NoServer = NoServer
  MaxRefresh = 1
  MaxClicks = 2
  Servers <- SomeServers
  ConfigWords <- SomeWords
  Unnamed = Unnamed
  NoBuild = NoBuild
  Texts = {a, b}
  MaxItems = 4
  ProfileNames <- TwoProfiles
  StartsWith <- NamesStartWith
  Managers = {menu}
  NoIface = NoIface
SYMMETRY Symmetry
INVARIANTS
  SettingsTypeOK
  LostOnlyByStaleSave
  CursorInView
  UrlsDistinct
  StoreUnambiguous
  ConnectsToTheClicked
  UrlIsCurrent
  ClickReachesItsRow
  ActiveRowIsTheTunnel
  LookupsStayInside
  RoutesAsSubscribed
  EveryRowReachable
  ActiveListedOnce
PROPERTY EntriesKept
