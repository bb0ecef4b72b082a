\* Two callers, each free to call StartSync; two starts are enough for both
\* to pass the check of r.running before either sets it.
CONSTANTS
  Callers = {c1, c2}
  MaxStarts = 2
SPECIFICATION Spec
INVARIANT AtMostOneWorker
