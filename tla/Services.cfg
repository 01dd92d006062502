SPECIFICATION MCSpec
CONSTANTS
  IpcMax = 2
  TextMax = 2
  MaxText = 2
  MaxSends = 4
  Pids = {0, 1, 2}
INVARIANTS
  FilesConsistent
PROPERTIES
  
  StoreSpec
\* vfs_init may fail, and the kernel halts.
CHECK_DEADLOCK FALSE
