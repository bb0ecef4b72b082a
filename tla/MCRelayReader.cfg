\* One stream over two sub directories of up to two files each, started
\* from any checkpoint, including a file only announced by a rotate event;
\* the relay writer appends, rotates and fails over concurrently, adding a
\* sub directory together with its first file (MCRelayReaderRefinement.cfg
\* checks the failover to an empty sub directory).
CONSTANTS
  MaxEpochs = 2
  MaxFiles = 2
  MaxData = 1
  MaxStarts = 1
  AtomicFailover = TRUE
  None = None
SPECIFICATION Spec
INVARIANT TypeOK
INVARIANT ExactlyOnceInOrder
INVARIANT EventsCarryFileName
PROPERTY CloseTerminates
PROPERTY FailsOnlyOnBadStart
