SPECIFICATION FairSpec
CONSTANTS
  FAT_ENTRIES = 6
  DIR_ENTRIES = 3
  SECTOR_SIZE = 3
  root_dir_cluster = 2
  max_valid_clusters = 4
  Names = {"LOG", "AI"}
  Lengths = {1, 2}
  Disks <- HostDisks
  MaxOps = 3
  MaxFailures = 1
INVARIANTS
  NoCrossLink
  NoForeignBytes
  LookupsAgree
PROPERTIES
  FilesOnlyGrow
  WritesBackWhatItRead
  FsReturns
