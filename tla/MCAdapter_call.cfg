CONSTANTS
  toml = toml
  adapter = adapter
  cache = cache
  root = root
  scripts = scripts
  Files <- MCFiles
  Folders <- MCFolders
  FolderOf <- MCFolderOf
  Transient <- MCTransient
  Declared <- MCDeclared
  Toml = toml
  Adapter = adapter
  MaxEdits = 2
  Gone = Gone
  Bad = Bad
  NoFile = NoFile
  Whole = 2
SPECIFICATION FairSpec
INVARIANTS
  BundleWasThere
  RunsWhatIsRecorded
  PreservedIsConfigured
  ResultIsTheWorkers
  ProductionIsUnderstood
PROPERTY CallEnds
CHECK_DEADLOCK FALSE
