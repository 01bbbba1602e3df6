SPECIFICATION Spec

CONSTANTS
  Tools = {"pg_dump", "mysqldump", "pgbackrest", "wal-g"}
  Origins = {"local", "repository"}
  MayLack = {}
  ServingImages = {}
  Faults = {"cut", "standby"}
  Parts = 2

INVARIANTS
  RestoredIsAlwaysTheBackup

\* Restore returns once.
CHECK_DEADLOCK FALSE
