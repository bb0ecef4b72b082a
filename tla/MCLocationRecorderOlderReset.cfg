\* The syncer resets the recorder to an older checkpoint (the global
\* checkpoint lags txnEndLocation) while a DML transaction is half read.
CONSTANTS
  Flavors = {"MySQL", "MariaDB"}
  DMLEndings = {"XID", "COMMIT"}
  ResetToOlder = TRUE
  MaxTxns = 2
  MaxFiles = 1
  MaxResets = 1
  MaxHeartbeats = 0
SPECIFICATION Spec
INVARIANT TxnEndIsLastCommit
CHECK_DEADLOCK FALSE
