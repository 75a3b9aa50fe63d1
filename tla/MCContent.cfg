CONSTANTS
  Procs = {p1, p2}
  Data = {ff, cfg, stray}
  Unlisted = {stray}
  Threads = 2
  MaxFaults = 2
  a = a
  b = b
  lib = lib
  e = e
  path1 = path1
  path2 = path2
  l1 = l1
  l2 = l2
  h1 = h1
  h2 = h2
  h3 = h3
  h4 = h4
  Scripts = {a, b, lib, e}
  EngineScripts = {e}
  InZone = {e, b}
  RawFiles = {lib}
  Refs <- MCRefs
  Folder <- MCFolder
  AnyLevel = AnyLevel
  NoLevel = NoLevel
  LevelNames = {l1, l2}
  HasMain = {a, b}
  HasInit = {b, lib}
  SearchPaths <- MCPaths
  Heap <- MCHeap
  SourceFiles <- MCSourceFiles
  MaxLevels = 2
  MaxEdits = 1
  MaxHooks = 1
  ra = ra
  rb = rb
  util = util
  menu = menu
  Roots = {ra, rb}
  Modules = {util, menu, other}
  Files <- MCFiles
  LuiModules = {menu}
  NoModule = NoModule
  Engine = Engine
  MaxDepth = 3
  MaxStarts = 2
  Texts = {t1, t2}
  NoText = NoText
  MaxLines = 4
  HistorySize = 2
  ViewSizes = {2, 3}
  Places = {p, q}
  Keys = {k, plain}
  Translated = {k}
  NoKey = NoKey
  CheatDvars = {god, gravity}
  ReplicatedDvars = {gravity}
  ReadDvars = {version}
  Dvars = {god, gravity, version}
  Disabled = {god}
  Replaced = {gravity}
  MaxSets = 4
  BitFields <- MCBitFields
  ByteFields <- MCByteFields
  MaxFields = 3
  MaxBitFields = 3
SPECIFICATION MCSpec
CHECK_DEADLOCK FALSE
INVARIANTS
  SomeBinaryIntact
  SuccessMeansLatest
  RunsItsScripts
  PointsIntoLinkedCode
  RequireIsOfFirst
  ShownIsTranslated
  CheatsAreReset
  ReadsWhatWasWritten
PROPERTY
  FollowsNewest
