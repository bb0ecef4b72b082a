\* The recorder against MySQL and MariaDB upstreams whose DML transactions end
\* with XID or COMMIT, the syncer resetting to the last transaction end.
CONSTANTS
  Flavors = {"MySQL", "MariaDB"}
  DMLEndings = {"XID", "COMMIT"}
  ResetToOlder = FALSE
  MaxTxns = 3
  MaxFiles = 2
  MaxResets = 2
  MaxHeartbeats = 1
SPECIFICATION Spec
INVARIANT TypeOK
INVARIANT CurEndResumes
INVARIANT TxnEndIsLastCommit
CHECK_DEADLOCK FALSE
