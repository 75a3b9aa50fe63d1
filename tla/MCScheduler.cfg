CONSTANTS
  dvars = dvars
  frameLoop = frameLoop
  poll = poll
  init = init
  Tasks <- MCTasks
  Pipelines = {"main", "async"}
  Home <- MCHome
  Interval <- MCInterval
  Kind <- MCKind
  Inner <- MCInner
SPECIFICATION FairSpec
INVARIANTS
  UndelayedInOrder
  PassRunsItsBatch
PROPERTIES
  KeepsPromise
  GameInitializedRuns
  ShutdownJoins
