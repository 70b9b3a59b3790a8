\* Two processes on one database, each of which may purge it on shutdown; two
\* faults.
CONSTANTS
  Proc = {p1, p2}
  Last = 2
  Faults = {"kill", "statement", "listener"}
  MaxFaults = 2
SPECIFICATION FairSpec
INVARIANTS TypeOK OneMigrator VersionHonest ServesMigrated
PROPERTIES LastLeavesClear StartsServe
