# TLA+ models of the DM binlog location recorder and relay log reader

This directory holds TLA+ models of two components of the repository, the
TLC configurations that check them, and `PROJECT.json`. That file lists the
components, the runs, the mutants, the map from definitions to source lines,
the findings and the hazards.

## The system

- **LocationRecorder**, in `src/dm/syncer/binlog_locations.go`. The syncer
  feeds it the upstream binlog one event at a time, through `update`, and
  restarts it with `reset`. It keeps three locations:
  - `curStartLocation`: where the current event starts;
  - `curEndLocation`: where the stream stands;
  - `txnEndLocation`: the end of the last complete transaction, saved in
    checkpoints.

  It also keeps an `inDML` flag that separates statement-mode DML query
  events from DDL.
- **RelayLogReader**, the `BinlogReader` of `src/unnamed/part_000`.
  - The relay log is a directory of epochs, one sub directory per upstream
    master, listed in a UUID index. Each epoch holds numbered binlog files.
  - `StartSync` starts a worker goroutine. The worker walks the epochs
    (`parseRelay`), the files of one epoch (`parseDirAsPossible`) and the
    growth of one file (`parseFileAsPossible` / `parseFile`).
  - It sends every event into a one-slot stream, renaming rotate events with
    the epoch suffix.
  - At the end of the newest file it either switches epoch
    (`needSwitchSubDir`) or waits for a polling watcher
    (`relaySubDirUpdated`).
  - `Close` cancels the context, stops the parser and waits for the worker.
  - `running`, the `sync.WaitGroup` and the context made in
    `NewBinlogReader` are shared by every caller, with no lock.
- **Outside the source tree**, modelled from their contracts in `spec.md`:
  - the relay writer, which appends, rotates and fails over to a new epoch;
  - the go-mysql event parser;
  - the polling watcher;
  - the `LocalStreamer` event stream.

  The reader's output is the kind of stream the syncer feeds to the
  recorder. The two models are not composed; see "Not modelled" below.
- **The file name codec**, in the same file. A position crossing an epoch
  carries the epoch in its name, `base|suffix.seq`. `constructBinlogName`
  builds it and `extractPos` takes it apart.
- **The stream contract** (spec sections 4.2 and 6): the relay log from
  the start position, once and in order, as the log grows. A new stream
  starts over.

## Modules

### `LocationRecorder.tla`

This module models `locationRecorder`.

**Variables.** `recorder` holds the code's four fields. Two environment
parts surround it:

- `upstream`: the flavour, and the binlog `log` as a sequence of events
  with their LogPos and GTID sets;
- `session`: the fake events a session begins with (`inj`), how much of
  `log` has been sent, and counters.

**Actions.** Each branch of `update` is one action: `UpdateSkip`,
`UpdateRotate`, `UpdateXID`, `UpdateQuery`, `UpdateMariadbGTID` and
`UpdateOther`.

- Each of them contains `BeginUpdate`, the `curStart := curEnd` assignment
  every event goes through, and consumes the event.
- `reset` sets the three locations and restarts the session at the chosen
  location. It sends the fake rotate and, inside a file, a format
  description event with LogPos 0. It leaves `inDML` alone, as the code
  does.

**Data.** A location is a record `[name, pos, gtid]`. A file is named by its
number. A GTID set is named by the count of transactions it holds, since
the upstream commits them in binlog order.

### `RelayReader.tla`

This module models `BinlogReader`.

**Variables.** Each group is a tuple:

- `writer`: the epochs and their files;
- `caller`: `running`, the canceled context, a pending Close;
- `worker`: a program counter `pc` and the locals of the nested loops
  (`pos`, `cu`, `dpos`, `fhi`, `fi`, `firstParse`, `latestPos`, the
  watcher snapshot `wsnap`);
- `stream`: the slot, and the history `sent` of events sent.

**Files.** A file is a sequence of complete events (`FDE`, `Data`,
`Rotate`) and possibly a truncated tail. Each event is 2 bytes after a
4-byte header; a tail adds 1 byte. Offsets and sizes are therefore real
numbers, and the size comparisons of `fileSizeUpdated` are modelled
exactly.

**Actions.** The worker's actions follow the code's control flow:

- `Relay`: the loop head of `parseRelay`, then `extractPos`;
- `Collect`: `collectBinlogFiles`;
- `OpenFile`: one turn of the file loop;
- `ParseFile`: a call of `parseFile`, sending the fake rotate on a file's
  first parse;
- `ReadFDE`, `ParseEvent` and `ParseEnd`: the parser and `onEventFunc`;
- `SendEvent`: the cancellable send;
- `AfterParse`: the rest of `parseFile`, that is not-last, then
  `needSwitchSubDir`, then the watcher snapshot and size re-check;
- `WatchFire`: the watcher's report or cancellation.

Every `select` on `ctx.Done()` is a `canceled` branch. A fatal error closes
the stream with an error (`Fail`). Cancellation ends the worker silently
(`Exit`). Format description events are left out of the history `sent`:
they carry no position, and a file that holds only its FDE is re-sent
without end (see hazards).

At a truncated tail, `ParseEnd` takes one of the parser's outcomes
(`TailErrors`). These come from go-mysql's `parseSingleEvent`, which is outside
the tree:

- a tail cut in the event body gives "get event err EOF ...";
- a tail cut in the 19-byte event header gives either nil or an error
  reading "unexpected EOF", depending on the go-mysql version.

`parseFile` tests the message text (line 308). It accepts "err EOF" only
from the last listed file (`EOFTolerated`), and any other error fails the
stream with that error as its cause (`streamErr`).

A checkpoint may name a file that does not exist yet (`Announced`). After a
rotate event the recorder saves `<<next file, 4>>`, and the writer creates
that file a step later. `StartSync` may start from such a position.

The constant `AtomicFailover` chooses the writer:
- `FALSE`: it adds an empty sub directory and creates its first file later;
- `TRUE`: the sub directory arrives with its first file, which is what the
  NOTE in `needSwitchSubDir` asks users to ensure.

The closing point `closedAt` belongs to one stream: `Close` records how
much had been sent, and `StartSync` clears it. `Live` is the part sent
before Close.

**Refinement.** `Stream == INSTANCE RelayLogStream WITH ...` maps the
reader to the abstract stream:

- `log` is `LogFromStart`, the relay log's data and rotate events after
  the start position, epoch by epoch and file by file;
- `out` is `Delivered`, the data and rotate events sent into the channel
  before Close (the consumer may not have taken them yet);
- `session` is the number of StartSync calls.

`ImplementsStream` is `Stream!Spec` checked as a PROPERTY.
`ExactlyOnceInOrder` is the same promise stated about single states, and
is cheaper to check at the main bounds.

### `BinlogName.tla`

This module models the name codec at the level of characters. A name is a
sequence of one-character strings: a one-character base name, then
`|suffix` when the position has left its epoch, then `.seq`. Numbers are
`Width` digits, zero padded. `StrLess` is Go's byte-wise string order.

- `constructBinlogName` and `extractPos` are translated from the source;
- `parseBinlogFile`, `constructBinlogFilename`, `SuffixIntToStr` and
  `GetUUIDBySuffix` are outside the source tree and follow spec sections
  3 and 6.

The variables are the inputs: an index length `n` and two positions `a` and
`b`. The actions `Reindex` and `Shift` reach every combination. This module
shows that RelayReader may name files `<<epoch, file>>`.

### `ReaderLifecycle.tla`

This module models the life cycle of one reader shared by a set of `Callers`:
`StartSync`, the worker goroutine it starts, and `Close`. The state is
`running`, `canceled` (the context is done), `wg` (the WaitGroup counter),
each caller's place `pc` and last `result`, each started goroutine's
state `worker`, and `panicked`. `StartSync` is cut at the points where another caller can
run:

- `StartRefused`: the check of `running` (line 82) returns ErrReaderRunning;
- `StartCheck`: the check passes and the caller reads the UUID index;
- `StartLoadFail`: `updateUUIDs` fails;
- `StartSpawn`: `latestServerID = 0`, `running = true`, `wg.Add(1)`, the go
  statement and the return of the stream.

Then there are the worker steps and the two halves of `Close`:

- `WorkerBegin`: the goroutine is scheduled;
- `WorkerExit`: `parseRelay` returns, followed by the deferred `wg.Done()`;
- `CloseBegin`: `running = false`, `cancel()` and `parser.Stop()`;
- `CloseWait`: `wg.Wait()` returns if the counter is zero. Otherwise it
  sleeps. The `Done` that brings the counter to zero wakes every sleeper
  (`Release`);
- `CloseWake`: the woken `Wait` returns if the counter is still zero.
  Otherwise a `wg.Add` from another caller's StartSync came in between, and
  Go panics: "WaitGroup is reused before previous Wait has returned". The
  process dies (`panicked`, then only `Crashed` stutters).

What `parseRelay` does is left to RelayReader. Here it ends either on
cancellation (`WorkerCanceled`) or on an error at any time.

### `RelayLogStream.tla`

This is the abstract stream, written from the spec. There is no code
under `src/` for it. It has three actions:

- `Grow`: the writer appends at the end of the log;
- `Deliver`: the next event of the log is handed over;
- `Restart`: a new stream starts.

## Runs

| run | cfg | expect | what it shows |
|---|---|---|---|
| lr_main | MCLocationRecorder.cfg | pass | `CurEndResumes`: resuming from curEndLocation sends exactly the unread data events. `TxnEndIsLastCommit`: txnEndLocation is the last transaction boundary, with its GTID set. Both hold across MySQL and MariaDB, XID and COMMIT endings, rotations, heartbeats and resets to txnEndLocation. |
| lr_rollback | MCLocationRecorderRollback.cfg | violation | A ROLLBACK-ended DML leaves `inDML` set (finding). |
| lr_older_reset | MCLocationRecorderOlderReset.cfg | violation | `reset` to an older checkpoint keeps a stale `inDML` (finding; spec section 9). |
| rr_main | MCRelayReader.cfg | pass | `ExactlyOnceInOrder`: the stream is the relay log from the start, once and in order. `EventsCarryFileName`: each data or rotate event follows a rotate naming its file and epoch. `CloseTerminates`: Close returns even when the consumer stops reading. `FailsOnlyOnBadStart`: with `AtomicFailover`, the stream fails in only two cases. Either its start names an epoch the index does not list, or a file that does not exist. Or the file being written has a tail cut in an event header, which the parser reports as "unexpected EOF" and line 308 does not accept; this is a divergence from spec section 7, listed as a hazard. It never fails on "err EOF" in a file being written, on an epoch switch or on a re-listing. |
| rr_missed_file | MCRelayReaderMissedFile.cfg | violation | A file created between listing and watcher snapshot is never reported (finding). |
| rr_close_race | MCRelayReaderCloseRace.cfg | violation | Events can still be delivered after Close (finding; spec section 6). |
| rr_refines | MCRelayReaderRefinement.cfg | pass | `ImplementsStream`: across epoch switches, Close and a second StartSync, the reader implements `RelayLogStream`. |
| rr_idle_spin | MCRelayReaderIdleSpin.cfg | violation | `IdleReaderWaits`: with the writer idle and every file complete, the reader should end up waiting. A file that holds only its format description event is instead re-parsed forever, because that event does not move `latestPos` (finding). |
| rr_restart | MCRelayReaderRestart.cfg | violation | `StreamEndsOnlyByClose`: a StartSync after Close returns a stream whose worker exits at once, even when Close came before any StartSync. The stream is never fed and never closed, because the context Close canceled is reused (finding; spec sections 3 and 4.2). |
| rl_lifecycle | MCReaderLifecycle.cfg | pass | Two callers call StartSync and Close in any order, including a StartSync while a Close waits. `CloseWaitsForWorkers`: Close returns only once every goroutine started before it has left `parseRelay`, including one not yet scheduled. `CloseReturns`: a Close never blocks for good. It returns, unless a StartSync's `wg.Add` lands between the `Done` that wakes its `Wait` and the `Wait`'s return, and Go's WaitGroup panics. TLC reaches that panic in 10 steps; it is listed as a hazard. |
| rl_start_race | MCReaderLifecycleRace.cfg | violation | `AtMostOneWorker`: two concurrent StartSync calls both pass the unlocked check of `running` while the other reads the UUID index. Two workers then share the parser, `uuids` and `latestServerID` (finding; spec section 5 assumes single-threaded callers). |
| bn_codec | MCBinlogName.cfg | pass | `ExtractPosRoundTrip`: `extractPos` finds the epoch and the real name of every name `constructBinlogName` builds (spec section 8). `NameOrderIsPositionOrder`: names compare like positions, unsuffixed first, then by epoch and file, as the comment on `posUUIDSuffixSeparator` requires. |

Each property of a passing run has a mutant in `PROJECT.json` that breaks it:

- a heartbeat not skipped;
- a rotate that keeps the old offset;
- BEGIN not recognised;
- an off-by-one in `extractPos`;
- a re-listing from the file header;
- a fake rotate with the wrong epoch suffix;
- a send that ignores cancellation;
- an epoch switch that keeps the old file offset instead of 4;
- "err EOF" treated as fatal in the last listed file too;
- the real base name cut one character late in `extractPos`;
- a suffix separator that sorts below `.`;
- `wg.Done()` called twice;
- a Close that waits before it cancels;
- a Close without `wg.Wait()`.

## Bounds

**LocationRecorder** is checked with:

- 3 transactions and 2 files, so a transaction may be followed by a rotate
  and by a DDL;
- 2 resets, so the recorder is reset after a reset, with `inDML` left from
  before;
- 1 heartbeat, with LogPos 0 or the master's position;
- both flavours.

This is 307,280 states in about 20 seconds. Deadlock checking is off
because the upstream stops after its bound and the recorder stops when it
has consumed everything.

**RelayReader** is checked with 2 epochs of up to 2 files, each with one
data event, one StartSync, and `AtomicFailover`. This covers all of the following:

- growth during a parse;
- a truncated tail;
- a rotate during the watcher wait;
- a new file in the listing window;
- switching with and without growth;
- a start at any event boundary, or at a file only announced by a rotate
  event, in an epoch the index may not list;
- Close at any point.

This is about 1.17 million states and about a minute with the liveness
check. The failover to an empty epoch, which is the fatal branch of
`needSwitchSubDir`, is left to the refinement run, which uses the
non-atomic writer. Between them every action and branch fires.

The refinement run uses 2 epochs of one file with up to 2 data events, and
2 StartSync calls. The mapping rebuilds the log on every step, which costs
too much at the main bounds. Two data events are needed so that an event
skipped at an epoch switch is followed by one that is delivered. Two starts
are needed so that Restart is exercised. This is about 135,000 states in
30 seconds.

The codec is checked with 2-digit numbers, up to 10 epochs and 3 files,
so suffix 10 is compared with suffixes of one significant digit. This is
about 12,000 states in under a second.

**ReaderLifecycle** is checked with 2 callers and 3 starts. That is enough
for a start while a Close waits, another start after it, and the WaitGroup
panic. This is 5,677 states in a second. The race needs 2 callers and 2 starts.

The RelayReader violation runs use one epoch and one file, except
`rr_missed_file`, which needs a second file. Each is the smallest instance
that shows its finding.

## Fairness

In RelayReader the worker goroutine is weakly fair (`WF_vars(Work)`).
Go's scheduler does not starve a runnable goroutine, and the polling
watcher reports a persistent change within 100ms. `CloseReturns` is weakly
fair because `wg.Wait` returns once the worker is done.

`IdleReaderWaits` assumes only what it states: from some point on the
writer stops and no file has a truncated tail.

In ReaderLifecycle the following are weakly fair:

- every goroutine's first step;
- its return once the context is canceled, which RelayReader's
  `CloseTerminates` justifies;
- a `wg.Wait` that has been called or woken;
- the end of an index read.

An error in the worker is never forced.

The consumer is *not* assumed fair in `Spec`. `CloseTerminates` must hold
when the consumer stops reading, which is the case the cancellable send
exists for. `FairSpec` adds a fair consumer for `EveryEventDelivered`. The
relay writer is never assumed fair.

## Not modelled

- **Codec edge cases.** Base names that contain `|` or `.` are not
  modelled. The spec reserves the separator, and base names come from
  the upstream's `log-bin` setting.
- **Gap events.** Events with flag 0x40 are skipped at line 251 without
  moving `latestPos`. The relay writer writes them when it switches master.
  The writer is outside the source tree, and spec.md does not say when it
  writes them or where they may end a file. A model of them would be
  invented. The same busy loop is shown for a file that holds only its
  format description event (`IdleReaderWaits`).
- **`latestServerID`.** It only becomes the server id of the fake rotate
  event, which no property reads. Its reset by a second StartSync under a
  running worker is one consequence of the `rl_start_race` finding.
- **go-mysql details.** The parser is modelled by its contract. At a
  truncated tail, that contract is the set of errors it may return.
- **Composition of reader and recorder.** Whether the recorder rewinds at
  the reader's fake rotate event depends on whether
  `utils.GenFakeRotateEvent` sets the artificial flag. That code is outside
  the source tree, and spec.md does not say. The recorder's model therefore
  takes its input from an upstream session that starts with an artificial
  rotate. The reader is shown to implement `RelayLogStream`, a stream of the
  log in order, which is that input. A composed module would add
  interleavings of two components that share no state except the stream,
  and no new question.
- **Relay writer, watcher and decoder.** These are environments modelled by
  their contracts, since their code is not in the repository.
