\* A MySQL upstream whose DML transaction touching a non-transactional table is
\* rolled back, so the binlog ends it with a ROLLBACK query event.
CONSTANTS
  Flavors = {"MySQL"}
  DMLEndings = {"XID", "ROLLBACK"}
  ResetToOlder = FALSE
  MaxTxns = 3
  MaxFiles = 1
  MaxResets = 0
  MaxHeartbeats = 0
SPECIFICATION Spec
INVARIANT TxnEndIsLastCommit
CHECK_DEADLOCK FALSE
