----------------------------- MODULE RelayReader -----------------------------
(***************************************************************************)
(* The BinlogReader of the relay streamer (src/unnamed/part_000): a worker *)
(* that walks the relay sub directories (epochs) listed in the UUID index, *)
(* the relay log files of each, and the growth of each file, sending every *)
(* event it parses into a one-slot stream, while a relay writer appends    *)
(* to the newest file, rotates to new files and fails over to new epochs. *)
(*                                                                         *)
(* The relay writer, the event parser (go-mysql ParseFile), the polling    *)
(* watcher and collectBinlogFiles are not part of this source; they are    *)
(* modelled from their contracts.  A file is a sequence of complete events *)
(* ("FDE", "Data", "Rotate") and possibly a partially written one at its   *)
(* tail; every event is 2 bytes long after the 4-byte magic header, so a   *)
(* truncated event adds one byte.  An epoch is named by its suffix (its    *)
(* place in the index), a file by its sequence number within the epoch.    *)
(***************************************************************************)
EXTENDS Integers, Sequences, FiniteSets
LOCAL INSTANCE SequencesExt

CONSTANTS
  MaxEpochs,  \* bound on the sub directories the relay writer creates
  MaxFiles,   \* bound on the relay log files of one sub directory
  MaxData,    \* bound on the data events of one file
  MaxStarts,  \* bound on the calls of StartSync
  AtomicFailover, \* the writer adds a sub directory together with its first file
  None        \* model value: no event

ASSUME {MaxEpochs, MaxFiles, MaxData, MaxStarts} \subseteq Nat \ {0}
ASSUME AtomicFailover \in BOOLEAN

VARIABLES
  nEpochs, dir,              \* relay writer: UUID index length, files of each epoch
  running, canceled, closing, nstarts,   \* reader instance and its Close caller
  pc,                        \* where the worker goroutine is
  uuids,                     \* r.uuids: the index length read by StartSync
  pos,                       \* parseRelay's pos: [e (0: no suffix), f, off]
  cu, dpos, fhi, fi,         \* parseDirAsPossible: epoch, its pos, last listed file, file
  firstParse, latestPos, off, ppos,   \* parseFile and the parser
  wsnap,                     \* the polling watcher's snapshot of file sizes
  outbox, after,             \* the event onEventFunc is sending, and what follows
  slot, sent, streamErr,     \* the LocalStreamer: channel slot, history, error ("none" or its cause)
  start,                     \* where the current stream started (history)
  closedAt                   \* Len(sent) when Close canceled this stream, -1 before (history)

writer == <<nEpochs, dir>>
caller == <<running, canceled, closing, nstarts>>
worker == <<pc, uuids, pos, cu, dpos, fhi, fi, firstParse, latestPos, off, ppos, wsnap, outbox, after>>
stream == <<slot, sent, streamErr, start, closedAt>>
vars   == <<writer, caller, worker, stream>>

FileHeaderLen == 4
End(k) == FileHeaderLen + 2 * k                 \* end offset of the k-th event
EvAt(p) == (p - FileHeaderLen) \div 2 + 1       \* the event that starts at offset p
Size(file) == End(Len(file.evs)) + (IF file.partial THEN 1 ELSE 0)
NewFile == [evs |-> <<"FDE">>, partial |-> FALSE]

NumData(file) == Len(SelectSeq(file.evs, LAMBDA k : k = "Data"))
Ended(file) == file.evs[Len(file.evs)] = "Rotate"

-----------------------------------------------------------------------------
(* The relay writer (environment).  It writes only the newest epoch.       *)

LastDir == dir[nEpochs]
LastFile == LastDir[Len(LastDir)]
SetLastFile(f) == dir' = [dir EXCEPT ![nEpochs][Len(LastDir)] = f]

WriteBegin ==
  /\ LastDir # <<>> /\ ~LastFile.partial /\ ~Ended(LastFile)
  /\ NumData(LastFile) < MaxData
  /\ SetLastFile([LastFile EXCEPT !.partial = TRUE])
  /\ UNCHANGED nEpochs

WriteEnd ==
  /\ LastDir # <<>> /\ LastFile.partial
  /\ SetLastFile([evs |-> Append(LastFile.evs, "Data"), partial |-> FALSE])
  /\ UNCHANGED nEpochs

WriteRotate ==
  /\ LastDir # <<>> /\ ~LastFile.partial /\ ~Ended(LastFile)
  /\ Len(LastDir) < MaxFiles
  /\ SetLastFile([LastFile EXCEPT !.evs = Append(@, "Rotate")])
  /\ UNCHANGED nEpochs

\* The first file of a new epoch, or the file a rotate event announced.
CreateFile ==
  /\ IF LastDir = <<>> THEN TRUE ELSE Ended(LastFile)
  /\ dir' = [dir EXCEPT ![nEpochs] = Append(@, NewFile)]
  /\ UNCHANGED nEpochs

\* Failover: a new sub directory is added to the index, still empty, or,
\* where users pause syncing while relay switches master (needSwitchSubDir's
\* NOTE), already holding its first file.
Failover ==
  /\ nEpochs < MaxEpochs
  /\ LastDir # <<>> /\ ~LastFile.partial
  /\ nEpochs' = nEpochs + 1
  /\ dir' = IF AtomicFailover THEN [dir EXCEPT ![nEpochs + 1] = <<NewFile>>] ELSE dir

Writer ==
  /\ \/ WriteBegin \/ WriteEnd \/ WriteRotate \/ CreateFile \/ Failover
  /\ UNCHANGED <<caller, worker, stream>>

-----------------------------------------------------------------------------
(* Stream events.  A rotate event names <<epoch suffix, file>>.            *)

FakeRotateLatestSuffix(e, f, o) == [k |-> "FakeRotate", e |-> e, f |-> f, i |-> 0, name |-> <<uuids, f>>, pos |-> o]
FakeRotate(e, f, o) == [k |-> "FakeRotate", e |-> e, f |-> f, i |-> 0, name |-> <<e, f>>, pos |-> o]
FileEv(kind, e, f, i) == [k |-> kind, e |-> e, f |-> f, i |-> i, name |-> <<e, f + 1>>, pos |-> FileHeaderLen]

CurFile == dir[cu][fi]
possibleLast == fi = fhi

\* The worker ends: cleanly (ctx canceled) or closing the stream with an error.
Exit == pc' = "exit" /\ UNCHANGED streamErr
Fail(why) == pc' = "error" /\ streamErr' = why

\* extractPos: the epoch a position names (no suffix: the latest known one).
extractPosPastLast(p) == IF p.e = 0 THEN uuids + 1 ELSE p.e
extractPos(p) == IF p.e = 0 THEN uuids ELSE p.e

\* A checkpoint position: an event boundary of a file, or the header of a
\* file that does not exist yet, in a sub directory the index may not list.
\* A file is named before it exists by the rotate event that ends the file
\* before it (the location recorder then saves <<next file, 4>>).
Announced(ep) ==
  IF dir[ep] = <<>> THEN {1}
  ELSE IF Ended(dir[ep][Len(dir[ep])]) THEN {Len(dir[ep]) + 1} ELSE {}
StartOffsets(ep, f) ==
  IF f \in DOMAIN dir[ep] THEN {FileHeaderLen} \cup {End(k) : k \in DOMAIN dir[ep][f].evs}
                          ELSE {FileHeaderLen}

\* StartSync: refused while running; loads the index and starts the worker.
StartSync ==
  /\ ~running /\ ~closing /\ nstarts < MaxStarts
  /\ \E e \in 0..MaxEpochs :
       LET ep == IF e = 0 THEN nEpochs ELSE e IN
       \E f \in DOMAIN dir[ep] \cup Announced(ep) :
       \E o \in StartOffsets(ep, f) :
         /\ pos' = [e |-> e, f |-> f, off |-> o]
         /\ start' = [e |-> ep, f |-> f, off |-> o]
  /\ uuids' = nEpochs
  /\ running' = TRUE /\ nstarts' = nstarts + 1
  /\ pc' = "relay"
  /\ slot' = None /\ sent' = <<>> /\ streamErr' = "none" /\ closedAt' = -1
  /\ UNCHANGED <<writer, canceled, closing, cu, dpos, fhi, fi, firstParse, latestPos,
                 off, ppos, wsnap, outbox, after>>

\* parseRelay's loop head and the start of parseDirAsPossible.
Relay ==
  /\ pc = "relay"
  /\ IF canceled THEN Exit /\ UNCHANGED <<cu, dpos, firstParse>>
     ELSE IF pos.e > uuids
       THEN Fail("no UUID") /\ UNCHANGED <<cu, dpos, firstParse>>
       ELSE /\ cu' = extractPos(pos)
            /\ dpos' = [f |-> pos.f, off |-> pos.off]
            /\ firstParse' = TRUE
            /\ pc' = "collect" /\ UNCHANGED streamErr
  /\ UNCHANGED <<writer, caller, uuids, pos, fhi, fi, latestPos, off, ppos, 
                 wsnap, outbox, after, slot, sent, start, closedAt>>

\* collectBinlogFiles: the files of the epoch from dpos.f on, as listed now.
Collect ==
  /\ pc = "collect"
  /\ IF canceled THEN Exit /\ UNCHANGED <<fhi, fi, off>>
     ELSE IF dpos.f > Len(dir[cu])
       THEN Fail("no file matches pos") /\ UNCHANGED <<fhi, fi, off>>
       ELSE /\ fhi' = Len(dir[cu]) /\ fi' = dpos.f /\ off' = dpos.off
            /\ pc' = "open" /\ UNCHANGED streamErr
  /\ UNCHANGED <<writer, caller, uuids, pos, cu, dpos, firstParse, latestPos, ppos,
                 wsnap, outbox, after, slot, sent, start, closedAt>>

\* One turn of the loop over the listed files: files after the first start at
\* the header and are parsed for the first time; then parseFileAsPossible.
OpenFile ==
  /\ pc = "open"
  /\ IF canceled THEN Exit /\ UNCHANGED <<off, firstParse, latestPos>>
     ELSE LET o == IF fi = dpos.f THEN off ELSE FileHeaderLen IN
          /\ off' = o
          /\ firstParse' = (firstParse \/ fi # dpos.f)
          /\ latestPos' = o
          /\ pc' = "pfap" /\ UNCHANGED streamErr
  /\ UNCHANGED <<writer, caller, uuids, pos, cu, dpos, fhi, fi, ppos, wsnap,
                 outbox, after, slot, sent, start, closedAt>>

\* parseFileAsPossible's loop head calling parseFile from latestPos; the first
\* parse of a file begins with a fake rotate event naming it.
ParseFile ==
  /\ pc = "pfap"
  /\ IF canceled THEN Exit /\ UNCHANGED <<off, firstParse, outbox, after>>
     ELSE /\ off' = latestPos
          /\ firstParse' = FALSE
          /\ IF firstParse
               THEN /\ outbox' = FakeRotate(cu, fi, latestPos)
                    /\ after' = "fde" /\ pc' = "send"
               ELSE /\ pc' = "fde" /\ UNCHANGED <<outbox, after>>
          /\ UNCHANGED streamErr
  /\ UNCHANGED <<writer, caller, uuids, pos, cu, dpos, fhi, fi, latestPos, ppos, 
                 wsnap, slot, sent, start, closedAt>>

\* The send at the end of onEventFunc: into the channel, or dropped once the
\* context is canceled.  The history leaves out format description events:
\* they carry no position, and a file holding only one is re-sent without end.
Record(h, x) == IF x.k = "FDE" THEN h ELSE Append(h, x)

SendEventNoCancel ==
  /\ pc = "send"
  /\ slot = None /\ slot' = outbox /\ sent' = Record(sent, outbox)
  /\ pc' = after /\ outbox' = None
  /\ UNCHANGED <<writer, caller, uuids, pos, cu, dpos, fhi, fi, firstParse, latestPos,
                 off, ppos, wsnap, after, streamErr, start, closedAt>>

SendEvent ==
  /\ pc = "send"
  /\ \/ slot = None /\ slot' = outbox /\ sent' = Record(sent, outbox)
     \/ canceled /\ UNCHANGED <<slot, sent>>
  /\ pc' = after /\ outbox' = None
  /\ UNCHANGED <<writer, caller, uuids, pos, cu, dpos, fhi, fi, firstParse, latestPos,
                 off, ppos, wsnap, after, streamErr, start, closedAt>>

\* ParseFile reads the format description event first, whatever the offset;
\* onEventFunc sends it without moving latestPos.
ReadFDE ==
  /\ pc = "fde"
  /\ outbox' = FileEv("FDE", cu, fi, 1)
  /\ ppos' = IF off > End(1) THEN off ELSE End(1)
  /\ after' = "parse" /\ pc' = "send"
  /\ UNCHANGED <<writer, caller, uuids, pos, cu, dpos, fhi, fi, firstParse, latestPos,
                 off, wsnap, slot, sent, streamErr, start, closedAt>>

\* One event of ParseFile's loop and its onEventFunc: a data event or a genuine
\* rotate event moves latestPos; the rotate is renamed with the epoch suffix.
ParseEvent ==
  /\ pc = "parse" /\ ~canceled
  /\ EvAt(ppos) <= Len(CurFile.evs)
  /\ LET k == EvAt(ppos) IN
       /\ outbox' = FileEv(CurFile.evs[k], cu, fi, k)
       /\ latestPos' = End(k)
       /\ ppos' = End(k)
  /\ after' = "parse" /\ pc' = "send"
  /\ UNCHANGED <<writer, caller, uuids, pos, cu, dpos, fhi, fi, firstParse, off, 
                 wsnap, slot, sent, streamErr, start, closedAt>>

\* What ParseFile returns at a truncated event (parseSingleEvent of go-mysql,
\* outside the source tree): "get event err EOF ..." when the tail is cut in
\* the event body; when it is cut in the 19-byte event header, either nil
\* (the header read sees a clean io.EOF) or an error whose text is
\* "unexpected EOF", as the vendored version decides.
TailErrors == {"err EOF", "unexpected EOF", "nil"}

\* parseFile accepts an error containing "err EOF" only from the last listed
\* file, which may still be being written; any other error is fatal.
EOFToleratedNever(err) == FALSE
EOFTolerated(err) == possibleLast /\ err = "err EOF"

\* ParseFile returns: nil at the end of the complete events, the parser's
\* error at a truncated one, or at once when the parser was stopped.
ParseEnd ==
  /\ pc = "parse"
  /\ canceled \/ EvAt(ppos) > Len(CurFile.evs)
  /\ \E err \in IF ~canceled /\ CurFile.partial THEN TailErrors ELSE {"nil"} :
       IF err # "nil" /\ ~EOFTolerated(err)
         THEN Fail(err)
         ELSE pc' = "eof" /\ UNCHANGED streamErr
  /\ UNCHANGED <<writer, caller, uuids, pos, cu, dpos, fhi, fi, firstParse, latestPos,
                 off, ppos, wsnap, outbox, after, slot, sent, start, closedAt>>

\* parseRelay: the position the next sub directory is parsed from, its first
\* file at the header.
SwitchPosKeepOffset == [e |-> cu + 1, f |-> 1, off |-> pos.off]
SwitchPos == [e |-> cu + 1, f |-> 1, off |-> FileHeaderLen]

\* fileSizeUpdated: the current file is larger than the position parsed to
\* (it never shrinks: the writer only appends).
FileGrown == Size(CurFile) > latestPos

\* The rest of parseFile after ParseFile returned: a file that is not the last
\* listed returns to the loop over the listed files (a truncated event would be
\* fatal there, but only the newest file, the last listed, can end in one);
\* for the last one, needSwitchSubDir, then relaySubDirUpdated.
AfterParse ==
  /\ pc = "eof"
  /\ \/ /\ ~possibleLast      \* (never truncated: only the newest file grows)
        /\ fi' = fi + 1 /\ pc' = "open"
        /\ UNCHANGED <<pos, wsnap, streamErr>>
     \/ /\ possibleLast /\ cu < uuids       \* needSwitchSubDir finds the next epoch
        /\ IF dir[cu + 1] = <<>>
             THEN Fail("no file in next dir") /\ UNCHANGED <<pos, fi>>
             ELSE IF FileGrown
               THEN pc' = "pfap" /\ UNCHANGED <<pos, fi, streamErr>>
               ELSE /\ pos' = SwitchPos
                    /\ pc' = "relay" /\ UNCHANGED <<fi, streamErr>>
        /\ UNCHANGED wsnap
     \/ /\ possibleLast /\ cu >= uuids      \* relaySubDirUpdated: watch, then re-check
        /\ wsnap' = [f \in DOMAIN dir[cu] |-> Size(dir[cu][f])]
        /\ pc' = IF FileGrown THEN "pfap" ELSE "wait"
        /\ UNCHANGED <<pos, fi, streamErr>>
  /\ UNCHANGED <<writer, caller, uuids, cu, dpos, fhi, firstParse, latestPos, off, ppos,
                 outbox, after, slot, sent, start, closedAt>>

\* Files of the epoch created or resized since the watcher started.
Changed == {f \in DOMAIN dir[cu] : f \notin DOMAIN wsnap \/ Size(dir[cu][f]) # wsnap[f]}

\* parseDirAsPossible after the last listed file: re-list the directory from
\* the latest file at the latest position parsed.
RecollectFromHeader == [f |-> fi, off |-> FileHeaderLen]
RecollectFrom == [f |-> fi, off |-> latestPos]

\* relaySubDirUpdated's wait: canceled, or the watcher reports a changed file;
\* the current file is re-parsed, any other makes the directory re-listed
\* from (current file, latestPos).
WatchFire ==
  /\ pc = "wait"
  /\ \/ canceled /\ Exit /\ UNCHANGED dpos
     \/ \E f \in Changed :
          /\ IF f = fi THEN pc' = "pfap" /\ UNCHANGED dpos
                       ELSE pc' = "collect" /\ dpos' = RecollectFrom
          /\ UNCHANGED streamErr
  /\ wsnap' = <<>>    \* the watcher is closed when relaySubDirUpdated returns
  /\ UNCHANGED <<writer, caller, uuids, pos, cu, fhi, fi, firstParse, latestPos, off,
                 ppos, outbox, after, slot, sent, start, closedAt>>

\* Close: not running, cancel the context, stop the parser, wait for the worker.
Close ==
  /\ ~closing
  /\ running' = FALSE /\ canceled' = TRUE /\ closing' = TRUE
  /\ closedAt' = IF closedAt >= 0 THEN closedAt ELSE Len(sent)
  /\ UNCHANGED <<writer, nstarts, worker, slot, sent, streamErr, start>>

WorkerDone == pc \in {"idle", "exit", "error"}

CloseReturns ==
  /\ closing /\ WorkerDone
  /\ closing' = FALSE
  /\ UNCHANGED <<writer, running, canceled, nstarts, worker, stream>>

\* The consumer takes the event out of the channel.
Consume ==
  /\ slot # None
  /\ slot' = None
  /\ UNCHANGED <<writer, caller, worker, sent, streamErr, start, closedAt>>

Work == Relay \/ Collect \/ OpenFile \/ ParseFile \/ SendEvent \/ ReadFDE
          \/ ParseEvent \/ ParseEnd \/ AfterParse \/ WatchFire

Init ==
  /\ nEpochs = 1
  /\ dir = [e \in 1..MaxEpochs |-> IF e = 1 THEN <<NewFile>> ELSE <<>>]
  /\ running = FALSE /\ canceled = FALSE /\ closing = FALSE /\ nstarts = 0
  /\ pc = "idle" /\ uuids = 0
  /\ pos = [e |-> 0, f |-> 1, off |-> FileHeaderLen]
  /\ cu = 1 /\ dpos = [f |-> 1, off |-> FileHeaderLen] /\ fhi = 1 /\ fi = 1
  /\ firstParse = FALSE /\ latestPos = FileHeaderLen /\ off = FileHeaderLen
  /\ ppos = FileHeaderLen /\ wsnap = <<>>
  /\ outbox = None /\ after = "parse"
  /\ slot = None /\ sent = <<>> /\ streamErr = "none"
  /\ start = [e |-> 1, f |-> 1, off |-> FileHeaderLen]
  /\ closedAt = -1

Next == Writer \/ StartSync \/ Work \/ Close \/ CloseReturns \/ Consume

\* The worker is a goroutine that is never starved; the watcher polls every
\* 100ms, so a change that persists is eventually reported.  The consumer is
\* not assumed to keep reading.
Fairness == WF_vars(Work) /\ WF_vars(CloseReturns)

Spec == Init /\ [][Next]_vars /\ Fairness

-----------------------------------------------------------------------------
(* Properties.                                                             *)

Kinds == {"FakeRotate", "FDE", "Data", "Rotate"}
Events == [k : Kinds, e : 1..MaxEpochs, f : 1..MaxFiles, i : 0..MaxData + 2,
           name : (1..MaxEpochs) \X (1..MaxFiles + 1), pos : Nat]

TypeOK ==
  /\ nEpochs \in 1..MaxEpochs
  /\ pc \in {"idle", "relay", "collect", "open", "pfap", "send", "fde", "parse",
             "eof", "wait", "exit", "error"}
  /\ cu \in 1..MaxEpochs /\ fi \in 1..MaxFiles
  /\ slot \in Events \cup {None}
  /\ sent \in Seq(Events)

\* Events that stand in the relay log (not the parser's and reader's own).
IsReal(x) == x.k \in {"Data", "Rotate"}
Key(x) == <<x.e, x.f, x.i>>
LexLess(a, b) ==
  \/ a[1] < b[1]
  \/ a[1] = b[1] /\ (a[2] < b[2] \/ (a[2] = b[2] /\ a[3] < b[3]))
InDir == {<<e, f, i>> \in (1..MaxEpochs) \X (1..MaxFiles) \X (1..MaxData + 2) :
            /\ f \in DOMAIN dir[e] /\ i \in DOMAIN dir[e][f].evs
            /\ dir[e][f].evs[i] \in {"Data", "Rotate"}}
AfterStart(x) ==
  \/ x[1] > start.e
  \/ x[1] = start.e /\ (x[2] > start.f \/ (x[2] = start.f /\ End(x[3]) > start.off))
\* The events sent before Close canceled the context.
Live == IF closedAt >= 0 THEN SubSeq(sent, 1, closedAt) ELSE sent
Delivered == LET r == SelectSeq(Live, IsReal) IN [j \in DOMAIN r |-> Key(r[j])]

\* The relay log after the start position, in log order: sub directories,
\* their files and the events of each file, in turn.
FileLog(e, f) ==
  SelectSeq([i \in DOMAIN dir[e][f].evs |-> <<e, f, i>>],
            LAMBDA x : dir[e][f].evs[x[3]] \in {"Data", "Rotate"} /\ AfterStart(x))
LogFromStart ==
  FlattenSeq([e \in 1..MaxEpochs |-> FlattenSeq([f \in DOMAIN dir[e] |-> FileLog(e, f)])])

\* The stream carries the relay log from the start position exactly once and
\* in order: every event sent lies after the start, each comes after the one
\* before it, and no event of the relay log between the start and the last
\* one sent is missing.  The state-level form of ImplementsStream, cheap
\* enough to check on the larger instances.
ExactlyOnceInOrder ==
  LET R == Delivered IN
  /\ \A j \in DOMAIN R : AfterStart(R[j])
  /\ \A j \in 1..Len(R) - 1 : LexLess(R[j], R[j + 1])
  /\ R # <<>> => \A x \in InDir :
        AfterStart(x) /\ LexLess(x, R[Len(R)]) => \E j \in DOMAIN R : R[j] = x

Stream == INSTANCE RelayLogStream WITH log <- LogFromStart, out <- Delivered, session <- nstarts

\* The reader implements the abstract stream: each event it hands over is the
\* next one of the relay log after the start, so the stream is the log from
\* the start exactly once and in order, across re-parses of a growing file,
\* re-listings of the directory and switches of sub directory.  This is what
\* the offsets kept by parseFile (latestPos), parseDirAsPossible (pos) and
\* parseRelay (the switch position) together must guarantee.
ImplementsStream == Stream!Spec

\* A consumer learns which file an event comes from only by the rotate events
\* before it: every data or rotate event read from a file is preceded in the stream by a
\* rotate event (a fake one of parseFile, or a genuine one renamed with the
\* epoch suffix by onEventFunc) that names that file of that epoch.
EventsCarryFileName ==
  \A j \in DOMAIN Live :
    IsReal(Live[j]) =>
      \E r \in 1..j - 1 :
        /\ Live[r].k \in {"FakeRotate", "Rotate"}
        /\ Live[r].name = <<Live[j].e, Live[j].f>>
        /\ \A q \in r + 1..j - 1 : Live[q].k \notin {"FakeRotate", "Rotate"}

\* Close returns: once Close has canceled the context and stopped the parser,
\* the worker exits and wg.Wait returns, even if the consumer has stopped
\* reading the stream and the worker was blocked sending to it or waiting
\* for the watcher.
CloseTerminates == closing ~> ~closing

\* Once Close has canceled the context, the consumer receives no further
\* event: the stream ends cleanly.  onEventFunc's send selects between the
\* channel and ctx.Done, and either may be taken when both are ready.
NoEventAfterClose == closedAt >= 0 => Len(sent) = closedAt

\* The start position names a sub directory the index read by StartSync does
\* not list, or a file that does not exist.
StartMissing == start.e > uuids \/ start.f \notin DOMAIN dir[start.e]

\* The worker closes the stream with an error only when the position it was
\* started from is not in the relay log, or when the parser reports a tail
\* cut in an event header as "unexpected EOF" (parseFile's test at :308
\* accepts only the text "err EOF"): never for anything else it meets while
\* it follows the log (the parser's "err EOF" in the file being written,
\* the switch to the next sub directory, the re-listing of a directory),
\* provided the writer never shows a sub directory without its first file.
FailsOnlyOnBadStart ==
  [][pc' = "error" /\ pc # "error" => StartMissing \/ streamErr' = "unexpected EOF"]_vars

\* A stream ends silently only because it was closed: while the reader is
\* running (StartSync returned it and Close has not been called since), its
\* worker has not returned on a canceled context.  spec.md has the
\* cancellation handle live from StartSync to Close, and Close safe to call
\* before any StartSync.
StreamEndsOnlyByClose == running => pc # "exit"

-----------------------------------------------------------------------------
(* A consumer that keeps reading.                                          *)

FairSpec == Spec /\ WF_vars(Consume)

\* Every relay log event after the start position, in a sub directory the
\* index listed when StartSync ran, is eventually sent to a consumer that keeps
\* reading, unless the reader is closed or fails.  relaySubDirUpdated relies on
\* the watcher it starts to report any file created or grown after the reader
\* listed the directory and re-checked the size of the current file.
EveryEventDelivered ==
  \A x \in (1..MaxEpochs) \X (1..MaxFiles) \X (1..MaxData + 2) :
    <>[](/\ x \in InDir /\ x[1] <= uuids /\ AfterStart(x)
         /\ running /\ pc \notin {"error", "exit"})
      => <>(\E j \in DOMAIN Delivered : Delivered[j] = x)

\* Once the relay writer has stopped with no event half written, the reader
\* ends up blocked, waiting on the watcher (or finished), instead of parsing
\* the same file again and again.  parseFile re-parses whenever
\* fileSizeUpdated finds the file larger than latestPos, and onEventFunc
\* moves latestPos for every event but the format description event.
IdleReaderWaits ==
  (/\ <>[][UNCHANGED writer]_vars
   /\ <>[](\A e \in 1..MaxEpochs : \A f \in DOMAIN dir[e] : ~dir[e][f].partial))
    => <>[](pc \in {"idle", "wait", "exit", "error"})

=============================================================================
