SPECIFICATION WorkspaceSpec
CONSTANTS
  PageSize = 1
  MaxStoreRequests = 3
  Guest = {ann}
  Owner = owner
  Agent = {hermes, coder}
  DefaultAgent = hermes
  TeamAgents = {hermes, coder}
  MaxGroupRequests = 4
  Backend = {"db", "minio"}
  Kept = 2
  MaxFileRequests = 4
  Segment = {"a", "ab", "b"}
  Rest <- Rests
  FolderPath <- FolderPaths
  MaxBrowseRequests = 3
  Fields = 2
  Budget = 1
  MaxEdits = 1
  MaxDreams = 2
  MaxSaid = 2
  Talks = 2
  MaxTalks = 1
  MaxLines = 1
INVARIANTS
  StoreConsistent
  ListStaleForAReason
  RenameKept
  PagesLoseOnlyTies
  GroupConsistent
  FileHistory
  DriveReached
  MemoryKept
  DreamsAlone
CHECK_DEADLOCK FALSE
