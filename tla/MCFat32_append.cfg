SPECIFICATION Spec
CONSTANTS
  FAT_ENTRIES = 6
  DIR_ENTRIES = 3
  SECTOR_SIZE = 3
  root_dir_cluster = 2
  max_valid_clusters = 4
  Names = {"LOG", "AI"}
  Lengths = {1, 2}
  Disks <- FreshDisk
  MaxOps = 4
  MaxFailures = 0
PROPERTIES
  AppendOnlyAdds
