SPECIFICATION Spec
CONSTANTS
  Parts = {"cscopes"}
  Fns = {"f", "g"}
  OptionSets <- Opts
  MaxCalls = 5
  Roots = {"a", "b"}
  Derived = {"t"}
  MaxUserOps = 3
  MaxEvOps = 4
  MaxDataOps = 5
  MaxHolds = 2
  ClassNames = {"a", "b", "c"}
  FirstClasses <- PageClasses
  OptionValues <- PageOptions
  DisabledOptions = {1}
  MaxFormOps = 4
  Listeners = {"v"}
  MaxBBCalls = 4
  Attrs = {"x", "y"}
  MaxSets = 4
  MaxValue = 1
  Cids = {"c1", "c2", "c3"}
  Ids = {1, 2}
  MaxColCalls = 6
  PageSpans = {1, 2, 3}
  Fields = {"begin", "duration"}
  OrderBy <- Order
  BeginOf <- Begins
  EndOf <- Ends
  InputTimes = {0, 256, 2560}
  MinSpan = 1024
  MaxPageOps = 5
  ViewX = 20
  Width = 2
  MaxListening = 3
  RoundsDown = {1, 7, 8, 15}
  BoxOf <- Boxes
  Starts <- Days
  LocalOffset = 120
  Amounts <- Steps13
  MaxDateOps = 2
  Elements = {0, 1, 2}
  MaxArray = 5
  Objects = {10, 11, 12}
  Panels = {1, 2, 3}
  MaxCollapseOps = 4
  Dropdowns = {"m", "n", "o"}
  DisabledMenus = {"o"}
  Items = 2
  Touch = TRUE
  Tabs = {1, 2, 3}
  MaxMenuOps = 5
  Layouts <- PageLayouts
  SpyOffset = 1
  Viewport = 4
  OffsetTop = 3
  OffsetBottom = 2
  AffixHeight = 2
  FixedTops = {0, 1}
  MaxPageEvents = 4
  LdDirs = {"p", "q"}
  MaxDaemonIds = 2
  ScThreads = {"t", "u"}
  ScTracers = {"A", "B"}
  MaxScopes = 3
  MaxNulls = 1
  PoolTracers = {"A", "B", "C"}
  ClassesOf <- SharedClasses
  MaxReceivers = 2
  MaxDeliveries = 1
  LfSpans = {1, 2, 3, 4}
  LfCapacity = 2
  CsThreads = {"a", "b"}
  MaxCSpans = 3
  MaxCDepth = 3
  HtKeys = {"a", "b", "c"}
  HtHash <- SmallHash
  MaxPuts = 4
INVARIANT ParentIsInnermostOwned
CHECK_DEADLOCK FALSE
