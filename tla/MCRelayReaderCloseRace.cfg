\* One file being written while the consumer reads and Close cancels.
CONSTANTS
  MaxEpochs = 1
  MaxFiles = 1
  MaxData = 1
  MaxStarts = 1
  AtomicFailover = FALSE
  None = None
SPECIFICATION Spec
INVARIANT NoEventAfterClose
