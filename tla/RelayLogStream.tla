--------------------------- MODULE RelayLogStream ---------------------------
(***************************************************************************)
(* What a relay log reader promises the consumer of one of its streams     *)
(* (spec.md sections 4.2 and 6): the stream hands over the relay log from  *)
(* the start position on, one event after the other, in log order, with    *)
(* nothing skipped and nothing repeated, while the log grows at its end.   *)
(* A new stream (another StartSync) starts over from a new position.       *)
(***************************************************************************)
EXTENDS Naturals, Sequences

VARIABLES
  log,      \* the relay log events after the current stream's start, in order
  out,      \* the events the current stream has handed to its consumer
  session   \* how many streams have been started

vars == <<log, out, session>>

Init == out = <<>>

\* The relay writer appends one event at the end of the log.
Grow ==
  /\ Len(log') = Len(log) + 1
  /\ SubSeq(log', 1, Len(log)) = log
  /\ UNCHANGED <<out, session>>

\* The stream hands over the next event of the log.
Deliver ==
  /\ Len(out) < Len(log)
  /\ out' = Append(out, log[Len(out) + 1])
  /\ UNCHANGED <<log, session>>

\* A new stream starts, from any position of the log.
Restart ==
  /\ session' = session + 1
  /\ out' = <<>>

Next == Grow \/ Deliver \/ Restart

Spec == Init /\ [][Next]_vars

=============================================================================
