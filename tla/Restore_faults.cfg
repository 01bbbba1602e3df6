SPECIFICATION FairSpec

CONSTANTS
  Tools = {"pg_dump", "pg_restore", "mysqldump", "pgbackrest", "wal-g",
           "xtrabackup", "mariabackup", "rdb", "aof", "snapshot"}
  Origins = {"local", "mounted", "object", "prefix", "repository"}
  MayLack = {"tar", "gzip", "xbstream", "psql", "mysqladmin", "pg_ctl", "redis-cli"}
  ServingImages = {"pgbackrest", "wal-g", "xtrabackup", "rdb", "snapshot"}
  Faults = {"command", "server", "cut", "standby"}
  Parts = 2

INVARIANTS
  RestoredIsTheBackup
  DumpAppliedOnce
  MissingCommandStopsPreflight

PROPERTIES
  RestoreReturns

\* Restore returns once.
CHECK_DEADLOCK FALSE
