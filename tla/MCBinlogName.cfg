\* Two-digit numbers, so that suffix 10 is compared with suffixes of one
\* significant digit; an index of up to 10 sub directories, 3 files each.
CONSTANTS
  Width = 2
  MaxSuffix = 10
  MaxSeq = 3

SPECIFICATION Spec

INVARIANT ExtractPosRoundTrip
INVARIANT NameOrderIsPositionOrder
