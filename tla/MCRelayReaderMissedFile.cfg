\* One sub directory of two files, the consumer reading: the reader waits on
\* the watcher while a second file stays unread.
CONSTANTS
  MaxEpochs = 1
  MaxFiles = 2
  MaxData = 1
  MaxStarts = 1
  AtomicFailover = FALSE
  None = None
SPECIFICATION FairSpec
PROPERTY EveryEventDelivered
