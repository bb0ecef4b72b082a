\* One sub directory of one file, the consumer reading; the relay writer may
\* stop at any point, for example right after creating the file.
CONSTANTS
  MaxEpochs = 1
  MaxFiles = 1
  MaxData = 1
  MaxStarts = 1
  AtomicFailover = FALSE
  None = None
SPECIFICATION FairSpec
PROPERTY IdleReaderWaits
