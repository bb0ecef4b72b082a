\* Two callers share the reader and may call StartSync and Close at any
\* time; three StartSync calls get past the checks, enough for a start
\* while a Close waits and a start after it.
CONSTANTS
  Callers = {c1, c2}
  MaxStarts = 3
SPECIFICATION FairSpec
INVARIANT TypeOK
PROPERTY CloseWaitsForWorkers
PROPERTY CloseReturns
