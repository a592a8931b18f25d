\* Every component of the page, one in focus at a time.
INIT ClientInit
NEXT ClientNext
CONSTANTS
  StreamTexts <- StreamTextsDef
  RestoredTabs <- RestoredTabsDef
  MaxTabs = 3
  Builds = {bare, fac}
  Bare = bare
  Factory = fac
  NoLoadout = nol
  Loadout = lo
  NoTab = NoTab
  HistoryCap = 1
  MaxActs = 3
  Chips = {c1, c2}
  NoChip = NoChip
  MaxTabEdits = 1
  Modes = {"pvp", "pve"}
  MaxEpoch = 2
  MaxDownloads = 3
  MaxCalls = 2
  GunParts = {"stock", "sight"}
  FactoryParts = {"stock"}
  CostModes = {"pvp", "pve"}
  FirstMode = "pvp"
  TopLevel = 2
  Markets <- MarketsDef
  MaxOverviews = 1
  MaxCostActs = 3
  Calibers = {"g40"}
  NoGrenade = "none"
  EmptyField = EmptyField
  StatLevels = {0, 1}
  MaxRefreshes = 2
  MaxWired = 2
  MaxStatActs = 4
  Slots = {"A", "AC", "B"}
  Stock <- SlotStock
  Path <- SlotPaths
  NoSlot = NoSlot
  MaxEdits = 1
  MaxLoads = 2
  MaxSettings = 1
  Names = {"a", "b"}
  Codes = {"m"}
  SaveCap = 2
  MergeCap = 2
  MaxSaves = 2
  MaxPublishes = 1
  CodeGun <- CodedGun
  SlotsOf <- CodeSlots
  Allowed <- CodeAllowed
  FrozenItems <- FrozenItemsDef
  FrozenSlots <- FrozenSlotsDef
  IdLength = 3
  MaxParts = 4
  Guns3D = {"m4", "ak"}
  Slots3D = {"k1", "k2"}
  NoSlot3D = NoSlot3D
  NoBuild = NoBuild
  MaxDraws = 2
  MaxHolds = 1
  MaxActs3D = 4
  GridNames = {"Handguard", "Mount", "Ch. Handle", "Tactical"}
  FixedCells <- Fixed
  FlexibleCells <- Flexible
  MaxGridSlots = 2
  PartOrder <- TreeOrder
  Host <- TreeHosts
  GunNode = "gun"
  MaxPages = 3
  Guns = {"m4", "ak"}
  NoGun = NoGun
  MaxSolves = 2
  MaxPoints = 2
  Parts = {"kobra", "rail"}
  DefaultBans = {"kobra"}
  Fits <- GunFits
  MaxClicks = 2
  MaxPresets = 1
  MaxMarkets = 1
  MaxFloors = 1
  Charts = {"graph", "explore"}
  GunItems = {g}
  AttItems = {a}
  AutoFit = AutoFit
  MinZoom <- ZoomedOut
  MaxZoom = 1
  MaxPan = 1
  MaxMoves = 3
  AtlasSets = {"s1", "s2"}
  EarlySets = {"s2"}
  NoSet = NoSet
  MaxAtlasKeys = 2
  MaxAtlasActs = 3
  SetRows <- ListRows
  AutoOpen = 1
  FeedRows = 1
  MaxListActs = 4
  Players = {"p1", "p2"}
  Nicknames = {"nick"}
  NoPlayer = "no player"
  Carries <- PlayerCarries
  NoWeapon = "none"
  Columns = {1}
  FirstHigh = {1}
  MaxLookups = 2
  MaxTimers = 1
  MaxLinks = 1
  Rounds = {"a1", "a2"}
  Rests = {"r1"}
  ArmorTabs = {"t1", "t2"}
  NoRound = "no round"
  Idle = Idle
  ResultCap = 1
  MaxSetupChanges = 2
  MaxLangChanges = 1
  EquipSlots = {"headwear", "eyewear", "rig", "armor"}
  FitsEquip <- EquipFits
  Opened3 <- OpenedSlots
  Refuses <- RefusedPairs
  WithInserts = {"tin", "carrier"}
  Gone = {"old"}
  Percents = {50}
  SavedLoadouts <- KeptLoadouts
  LoadoutTabs = {"t1", "t2"}
  EmptySlot = EmptySlot
  MaxLoadoutActs = 4
  MaxRequests = 3
  MaxData = 2
  Pictured = {"m4", "ak"}
  Unarmed = "none"
  Assembled = {"bare", "factory", "mod"}
  Magazines = {"empty", "full"}
  NoCardFor = NoCardFor
  MaxPictureActs = 3
  Days = {"d1"}
  Recent = "recent"
  Queries = {"", "ak"}
  Types = {"all", "weapons"}
  MaxTrackerLoads = 2
  MaxTrackerActs = 4
  Spans = {"2w", "all"}
  BoardGuns = {"m4"}
  Categories = {"Barrel"}
  MaxBoardLoads = 1
  MaxBoardActs = 4
  NewsPosts = {"p1", "p2"}
  LatestPost = "p1"
  LostPosts = {"p0"}
  Tongues = {"en", "zh"}
  PostList = "list"
  NoNews = "none"
  MaxNewsWaits = 2
  MaxNewsActs = 3
  Published = {"b1", "b2"}
  TagsOf <- BuildTags
  Named = {"b1"}
  Unrated = Unrated
  OthersLike = 1
  MaxComments = 2
  MaxCommunityCalls = 2
  MaxCommunityActs = 3
\* The page waits for the user and the server.
CHECK_DEADLOCK FALSE
INVARIANTS
  ReadsWhatWasSent
  TabsAreKept
  
  PagesAreRight
  
  
  StatsAreShown
  
  SavedIdsAreDistinct
  CodeKeepsEveryPart
  ViewerCatchesUp
  
  DrawerIsRight
  SettingsAreTheUsers
  
  AtlasIsRight
  LookupIsRight
  
  
