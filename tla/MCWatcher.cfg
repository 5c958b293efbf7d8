SPECIFICATION FairSpec
CONSTANTS
  WATCHER_HISTORY_MAX = 3
  AccessTypes <- MCAccess
  MaxEvents = 5
  MaxBoots = 1
INVARIANTS
  DumpShowsLatest
  SyncReadsOldestPending
  ReceiptsAccounted
  NothingSkippedBeforeFull
PROPERTIES
  SyncEnds
  VaultSpec
