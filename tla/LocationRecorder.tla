--------------------------- MODULE LocationRecorder ---------------------------
(***************************************************************************)
(* The locationRecorder of dm/syncer/binlog_locations.go.                  *)
(*                                                                         *)
(* The recorder is fed the binlog stream of an upstream MySQL or MariaDB,  *)
(* one event at a time, and keeps curStartLocation, curEndLocation and     *)
(* txnEndLocation plus the inDML flag.  The upstream is not code of this   *)
(* repository: it is an environment that appends whole transactions and    *)
(* rotations to its binlog `log`.  A streaming session sends the events    *)
(* of `log` that lie after the location it was started from, preceded by   *)
(* the fake events a session begins with (`inj`), and heartbeats when it   *)
(* is idle.  The syncer calls reset when it restarts the stream.           *)
(*                                                                         *)
(* A location is a record [name, pos, gtid]: a binlog file is named by its *)
(* sequence number, and a GTID set by the number of transactions in it     *)
(* (the upstream commits transactions 1, 2, ... in binlog order).          *)
(***************************************************************************)
EXTENDS Integers, Sequences, FiniteSets
LOCAL INSTANCE FiniteSetsExt

CONSTANTS
  Flavors,       \* upstream flavours explored, a subset of {"MySQL", "MariaDB"}
  DMLEndings,    \* how a DML transaction ends: a subset of {"XID", "COMMIT", "ROLLBACK"}
  ResetToOlder,  \* TRUE: reset may rewind to any earlier boundary (an older checkpoint)
  MaxTxns,       \* bound on the transactions the upstream writes
  MaxFiles,      \* bound on the binlog files of the upstream
  MaxResets,     \* bound on the calls of reset
  MaxHeartbeats  \* bound on the heartbeats an idle session sends

ASSUME Flavors # {} /\ Flavors \subseteq {"MySQL", "MariaDB"}
ASSUME DMLEndings # {} /\ DMLEndings \subseteq {"XID", "COMMIT", "ROLLBACK"}
ASSUME ResetToOlder \in BOOLEAN
ASSUME {MaxTxns, MaxFiles, MaxResets, MaxHeartbeats} \subseteq Nat

VARIABLES
  flavor,            \* the upstream's flavour
  log,               \* the upstream binlog, all files in order
  inj,               \* events the session sends before the next one of log
  read,              \* how many events of log the session has sent
  nresets, nhb,      \* counters bounding reset and heartbeats
  curStartLocation, curEndLocation, txnEndLocation, inDML

upstream == <<flavor, log>>
session  == <<inj, read, nresets, nhb>>
recorder == <<curStartLocation, curEndLocation, txnEndLocation, inDML>>
vars     == <<upstream, session, recorder>>

FileHeaderLen == 4     \* binlog.FileHeaderLen

Loc(name, pos, gtid) == [name |-> name, pos |-> pos, gtid |-> gtid]

(***************************************************************************)
(* Events.  `pos` is the header's LogPos (the end of the event), `next`    *)
(* the NextLogName of a rotate event, `gset` the GTID set an XID or query  *)
(* event carries, `art` the LOG_EVENT_ARTIFICIAL_F flag.  `open` and       *)
(* `done` are history: whether a transaction is open after the event, and  *)
(* how many transactions are complete after it.                            *)
(***************************************************************************)
Ev(type, name, pos) ==
  [type |-> type, name |-> name, pos |-> pos, next |-> 0, query |-> "",
   ddl |-> FALSE, art |-> FALSE, gset |-> 0, open |-> FALSE, done |-> 0]

\* A transaction as the upstream writes it: a sequence of parts.
Part(type, query, ddl) == [type |-> type, query |-> query, ddl |-> ddl]
Ending(x) == IF x = "XID" THEN Part("XID", "", FALSE) ELSE Part("Query", x, FALSE)
Statements == {Part("Rows", "", FALSE), Part("Query", "DML", FALSE)}
DMLHead(f) == IF f = "MySQL" THEN <<Part("GTID", "", FALSE), Part("Query", "BEGIN", FALSE)>>
                             ELSE <<Part("MariadbGTID", "", FALSE)>>
DDLHead(f) == IF f = "MySQL" THEN <<Part("GTID", "", FALSE)>>
                             ELSE <<Part("MariadbGTID", "", TRUE)>>
Txns(f) ==
  {DMLHead(f) \o <<s, Ending(x)>> : s \in Statements, x \in DMLEndings}
    \cup {DDLHead(f) \o <<Part("Query", "DDL", FALSE)>>}

\* The events of transaction g written to file `name` after position p0.
Place(parts, name, p0, g) ==
  [k \in 1..Len(parts) |->
     [Ev(parts[k].type, name, p0 + k) EXCEPT
        !.query = parts[k].query, !.ddl = parts[k].ddl, !.gset = g,
        !.open = (k < Len(parts)), !.done = IF k < Len(parts) THEN g - 1 ELSE g]]

\* The first events of a binlog file after its magic header.
FileStart(f, d) ==
  <<[Ev("FDE", f, FileHeaderLen + 1) EXCEPT !.done = d],
    [Ev(IF flavor = "MySQL" THEN "PrevGTIDs" ELSE "GTIDList", f, FileHeaderLen + 2)
       EXCEPT !.done = d]>>

LastEv == log[Len(log)]

After(e, loc) == e.name > loc.name \/ (e.name = loc.name /\ e.pos > loc.pos)

\* How many events of log lie at or before loc: a session from loc sends the rest.
Resume(loc) == Cardinality({i \in 1..Len(log) : ~After(log[i], loc)})

\* A session started at loc first sends a fake (artificial) rotate event, and a
\* format description event with LogPos 0 when it starts inside the file.
SessionStart(loc) ==
  <<[Ev("Rotate", loc.name, 0) EXCEPT !.next = loc.name, !.art = TRUE]>>
    \o (IF loc.pos > FileHeaderLen THEN <<Ev("FDE", loc.name, 0)>> ELSE <<>>)

\* The location right after event i of log (i = 0: the start of the binlog).
LocAfter(i) ==
  IF i = 0 THEN Loc(1, FileHeaderLen, 0)
  ELSE IF log[i].type = "Rotate" THEN Loc(log[i].next, FileHeaderLen, log[i].done)
  ELSE Loc(log[i].name, log[i].pos, log[i].done)

\* Indexes of log after which no transaction is open.
Boundaries == {0} \cup {i \in 1..read : ~log[i].open}

-----------------------------------------------------------------------------
(* Upstream and session: the environment.                                  *)

WriteTxn ==
  /\ LastEv.done < MaxTxns
  /\ \E t \in Txns(flavor) : log' = log \o Place(t, LastEv.name, LastEv.pos, LastEv.done + 1)
  /\ UNCHANGED <<flavor, session, recorder>>

WriteRotate ==
  /\ LastEv.name < MaxFiles
  /\ log' = log \o <<[Ev("Rotate", LastEv.name, LastEv.pos + 1) EXCEPT
                        !.next = LastEv.name + 1, !.done = LastEv.done]>>
                \o FileStart(LastEv.name + 1, LastEv.done)
  /\ UNCHANGED <<flavor, session, recorder>>

\* An idle session sends a heartbeat; its LogPos is 0 or the master's position.
Heartbeat ==
  /\ nhb < MaxHeartbeats
  /\ inj = <<>> /\ read = Len(log)
  /\ \E p \in {0, LastEv.pos} : inj' = <<Ev("Heartbeat", LastEv.name, p)>>
  /\ nhb' = nhb + 1
  /\ UNCHANGED <<upstream, read, nresets, recorder>>

Pending == inj # <<>> \/ read < Len(log)
NextEvent == IF inj # <<>> THEN Head(inj) ELSE log[read + 1]
Consume ==
  IF inj # <<>> THEN inj' = Tail(inj) /\ read' = read
                ELSE inj' = inj /\ read' = read + 1

-----------------------------------------------------------------------------
(* The recorder.                                                           *)

\* Variant of shouldUpdatePos that lets heartbeat events move the position.
shouldUpdatePosHeartbeat(e) ==
  /\ e.type \notin {"FDE", "Ignorable", "PrevGTIDs", "GTIDList"}
  /\ ~e.art

\* shouldUpdatePos: false for header, heartbeat and artificial events.
shouldUpdatePos(e) ==
  /\ e.type \notin {"FDE", "Heartbeat", "Ignorable", "PrevGTIDs", "GTIDList"}
  /\ ~e.art

saveTxnEndLocation == txnEndLocation' = curEndLocation'

\* setCurrentGTID: the location takes the event's GTID set.  SetGTID fails
\* only for a set of another flavour, which one upstream never produces.
setCurrentGTID(loc, gset) == [loc EXCEPT !.gtid = gset]

\* Variant of RotateTo that keeps the old offset in the new file.
RotateToKeepPos(loc, name) == [loc EXCEPT !.name = name]

RotateTo(loc, name) == [loc EXCEPT !.name = name, !.pos = FileHeaderLen]

\* Variant of DMLAfterQuery that does not treat BEGIN as the start of a DML.
DMLAfterQueryNoBegin(query, dml) == IF query = "COMMIT" THEN FALSE ELSE dml

\* The inDML flag after a query event with the given (trimmed) text.
DMLAfterQuery(query, dml) ==
  CASE query = "BEGIN"  -> TRUE
    [] query = "COMMIT" -> FALSE
    [] OTHER            -> dml

\* The part of update every event goes through: curStart := curEnd.
BeginUpdate == Pending /\ curStartLocation' = curEndLocation /\ Consume

UpdateSkip ==
  /\ BeginUpdate
  /\ ~shouldUpdatePos(NextEvent)
  /\ UNCHANGED <<curEndLocation, txnEndLocation, inDML, upstream, nresets, nhb>>

UpdateRotate ==
  LET e == NextEvent IN
  /\ BeginUpdate
  /\ shouldUpdatePos(e) /\ e.type = "Rotate"
  /\ IF curEndLocation.name # e.next
       THEN curEndLocation' = RotateTo(curEndLocation, e.next) /\ saveTxnEndLocation
       ELSE UNCHANGED <<curEndLocation, txnEndLocation>>
  /\ UNCHANGED <<inDML, upstream, nresets, nhb>>

UpdateXID ==
  LET e == NextEvent IN
  /\ BeginUpdate
  /\ shouldUpdatePos(e) /\ e.type = "XID"
  /\ curEndLocation' = setCurrentGTID([curEndLocation EXCEPT !.pos = e.pos], e.gset)
  /\ saveTxnEndLocation
  /\ inDML' = FALSE
  /\ UNCHANGED <<upstream, nresets, nhb>>

UpdateQuery ==
  LET e   == NextEvent
      dml == DMLAfterQuery(e.query, inDML)
      end == [curEndLocation EXCEPT !.pos = e.pos]
  IN
  /\ BeginUpdate
  /\ shouldUpdatePos(e) /\ e.type = "Query"
  /\ inDML' = dml
  /\ IF dml THEN curEndLocation' = end /\ UNCHANGED txnEndLocation
            ELSE curEndLocation' = setCurrentGTID(end, e.gset) /\ saveTxnEndLocation
  /\ UNCHANGED <<upstream, nresets, nhb>>

UpdateMariadbGTID ==
  LET e == NextEvent IN
  /\ BeginUpdate
  /\ shouldUpdatePos(e) /\ e.type = "MariadbGTID"
  /\ curEndLocation' = [curEndLocation EXCEPT !.pos = e.pos]
  /\ inDML' = (inDML \/ ~e.ddl)
  /\ UNCHANGED <<txnEndLocation, upstream, nresets, nhb>>

\* Any other position-advancing event (GTID, rows, ...): only the offset moves.
UpdateOther ==
  LET e == NextEvent IN
  /\ BeginUpdate
  /\ shouldUpdatePos(e) /\ e.type \notin {"Rotate", "XID", "Query", "MariadbGTID"}
  /\ curEndLocation' = [curEndLocation EXCEPT !.pos = e.pos]
  /\ UNCHANGED <<txnEndLocation, inDML, upstream, nresets, nhb>>

\* Locations the syncer resets to: the last transaction end, or with
\* ResetToOlder any earlier boundary the stream has passed.
ResetTargets ==
  IF ResetToOlder THEN {LocAfter(b) : b \in Boundaries} \cup {txnEndLocation}
                  ELSE {txnEndLocation}

\* reset, and the stream restarted at the same location.  inDML is untouched.
reset ==
  /\ nresets < MaxResets
  /\ \E loc \in ResetTargets :
       /\ curStartLocation' = loc
       /\ curEndLocation' = loc
       /\ txnEndLocation' = loc
       /\ read' = Resume(loc)
       /\ inj' = SessionStart(loc)
  /\ nresets' = nresets + 1
  /\ UNCHANGED <<inDML, upstream, nhb>>

Init ==
  /\ flavor \in Flavors
  /\ log = FileStart(1, 0)
  /\ inj = SessionStart(Loc(1, FileHeaderLen, 0))
  /\ read = 0 /\ nresets = 0 /\ nhb = 0
  /\ curStartLocation = Loc(1, FileHeaderLen, 0)
  /\ curEndLocation = Loc(1, FileHeaderLen, 0)
  /\ txnEndLocation = Loc(1, FileHeaderLen, 0)
  /\ inDML = FALSE

Next ==
  \/ WriteTxn \/ WriteRotate \/ Heartbeat
  \/ UpdateSkip \/ UpdateRotate \/ UpdateXID \/ UpdateQuery
  \/ UpdateMariadbGTID \/ UpdateOther
  \/ reset

Spec == Init /\ [][Next]_vars

-----------------------------------------------------------------------------
(* Properties.                                                             *)

\* A location's offset is never inside the file's magic header.
Locations == [name : 1..MaxFiles, pos : {p \in Nat : p >= FileHeaderLen}, gtid : 0..MaxTxns]

TypeOK ==
  /\ {curStartLocation, curEndLocation, txnEndLocation} \subseteq Locations
  /\ inDML \in BOOLEAN
  /\ read \in 0..Len(log)

IsData(e) == e.type \in {"GTID", "MariadbGTID", "Query", "Rows", "XID"}
DataAfter(loc) == {i \in 1..Len(log) : IsData(log[i]) /\ After(log[i], loc)}
DataFrom(k) == {i \in k..Len(log) : IsData(log[i])}

\* The last boundary the stream has passed, and the GTIDs complete there.
LastBoundary == Max(Boundaries)
DoneAt(b) == IF b = 0 THEN 0 ELSE log[b].done

\* curEndLocation is where the stream stands: resuming the upstream from it
\* sends exactly the data events not yet fed to update, whatever header,
\* heartbeat, fake and rotate events update has seen (shouldUpdatePos and the
\* rotate branch of update).
CurEndResumes == DataAfter(curEndLocation) = DataFrom(read + 1)

\* txnEndLocation is the end of the last transaction: resuming from it sends
\* exactly the data events after the last transaction boundary the stream
\* passed (never starting inside a transaction, never skipping a complete
\* one), and its GTID set holds exactly the complete transactions.  This is
\* what the inDML bookkeeping of update for BEGIN / COMMIT / XID and MariaDB
\* GTID events is for.
TxnEndIsLastCommit ==
  /\ DataAfter(txnEndLocation) = DataFrom(LastBoundary + 1)
  /\ txnEndLocation.gtid = DoneAt(LastBoundary)

=============================================================================
