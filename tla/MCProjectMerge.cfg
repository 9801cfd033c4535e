\* Three commands on a history of two runs; two setups of two providers; trees
\* of up to five files; one edit of a review; two syncs; three builds.
CONSTANTS
  Commands = 3
  ConfiguredLimit = 2
  Absent = Absent
  Garbage = Garbage
  Empty = Empty
  openai = openai
  anthropic = anthropic
  key0 = key0
  key1 = key1
  oldKey = oldKey
  twin = twin
  Setups = {p1, p2}
  ProviderNames = {openai, anthropic}
  Envs = {key0, key1}
  Trees <- MCTrees
  FileEdits <- MCFileEdits
  Fields = {"kept", "sparse", "filled"}
  Sparse = {"sparse"}
  Filled = {"filled"}
  Zero = Zero
  Default = Default
  Garbled = Garbled
  Cases <- MCCases
  MaxEdits = 1
  Remotes <- MCRemotes
  Orders <- MCOrders
  SyncBase <- MCSyncBase
  MaxSyncs = 2
  None = None
  f = f
  g = g
  claim = claim
  tool = tool
  Reports <- MCReports
  Exports <- MCExports
  Gate <- MCStrict
  MaxBuilds = 3
SPECIFICATION ProjectSpec
INVARIANT MergeKeepsTheBase
\* Commands end.
CHECK_DEADLOCK FALSE
