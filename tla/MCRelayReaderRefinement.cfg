\* Two sub directories of one file of up to two data events each, and two
\* StartSync calls: the reader switches epochs, is closed and started again.
CONSTANTS
  MaxEpochs = 2
  MaxFiles = 1
  MaxData = 2
  MaxStarts = 2
  AtomicFailover = FALSE
  None = None
SPECIFICATION Spec
PROPERTY ImplementsStream
