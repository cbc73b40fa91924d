CONSTANTS
  toml = toml
  adapter = adapter
  cache = cache
  root = root
  scripts = scripts
  Files <- MCFiles
  Folders <- MCFolders
  FolderOf <- MCFolderOf
  Transient <- MCTransient
  Declared <- MCDeclared
  Toml = toml
  Adapter = adapter
  MaxEdits = 1
  Gone = Gone
  Bad = Bad
  NoFile = NoFile
  Whole = 2
SPECIFICATION Spec
INVARIANT NothingSurvives
CHECK_DEADLOCK FALSE
