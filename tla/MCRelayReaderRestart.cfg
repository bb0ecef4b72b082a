\* One sub directory of one file; Close is called, before or after a first
\* StartSync, and StartSync is called again.
CONSTANTS
  MaxEpochs = 1
  MaxFiles = 1
  MaxData = 1
  MaxStarts = 2
  AtomicFailover = FALSE
  None = None
SPECIFICATION Spec
INVARIANT StreamEndsOnlyByClose
