--------------------------- MODULE ReaderLifecycle ---------------------------
(***************************************************************************)
(* The life cycle of one BinlogReader (src/unnamed/part_000) shared by     *)
(* several callers: StartSync, the parseRelay goroutine it starts, and     *)
(* Close.  The reader keeps running, a sync.WaitGroup wg and one context   *)
(* made in NewBinlogReader; none of them is guarded by a lock ("TODO:      *)
(* thread-safe?" on StartSync).                                            *)
(*                                                                         *)
(* StartSync is cut where another caller can run between its steps: it     *)
(* reads running, then loads the UUID index from disk (updateUUIDs), then  *)
(* sets running and starts the goroutine.  Close sets running to false,    *)
(* cancels the context and stops the parser in one step, then waits on wg *)
(* the way sync.WaitGroup does: Wait returns at once on a zero counter,    *)
(* else sleeps until the Done that brings the counter to zero wakes it,    *)
(* and panics ("WaitGroup is reused before previous Wait has returned") if *)
(* the counter is no longer zero when it wakes.  A panic ends the process. *)
(* What parseRelay reads is abstracted: a goroutine ends                   *)
(* either because it saw the cancellation or because of an error, as in   *)
(* RelayReader.  The relay directory, the positions and the stream's       *)
(* events are left out.                                                    *)
(***************************************************************************)
EXTENDS Naturals, FiniteSets

CONSTANTS
  Callers,    \* goroutines of the caller that share the reader
  MaxStarts   \* bound on the StartSync calls that get past the checks

ASSUME MaxStarts \in Nat \ {0}

VARIABLES
  running,    \* r.running
  canceled,   \* r.ctx is done (r.cancel was called)
  wg,         \* the counter of r.wg
  pc,         \* where each caller is: "idle", "loading" (in updateUUIDs), "waiting"
              \* (Close called), "asleep" (in wg.Wait), "woken" (released by Done)
  result,     \* what each caller's last call returned
  worker,     \* state of the goroutine of each StartSync call
  nstarts,    \* StartSync calls that got past the checks
  panicked    \* the process has died of a WaitGroup panic

vars == <<running, canceled, wg, pc, result, worker, nstarts, panicked>>

Starts == 1..MaxStarts
Results == {"none", "stream", "ErrReaderRunning", "loadError", "closed"}
Live == {"spawned", "parsing"}

LiveWorkers == {w \in Starts : worker[w] \in Live}

TypeOK ==
  /\ running \in BOOLEAN /\ canceled \in BOOLEAN
  /\ wg \in 0..MaxStarts
  /\ pc \in [Callers -> {"idle", "loading", "waiting", "asleep", "woken"}]
  /\ result \in [Callers -> Results]
  /\ worker \in [Starts -> {"none"} \cup Live \cup {"exited"}]
  /\ nstarts \in 0..MaxStarts
  /\ panicked \in BOOLEAN

\* NewBinlogReader: a fresh context, nothing running.
Init ==
  /\ running = FALSE /\ canceled = FALSE /\ wg = 0
  /\ pc = [c \in Callers |-> "idle"]
  /\ result = [c \in Callers |-> "none"]
  /\ worker = [w \in Starts |-> "none"]
  /\ nstarts = 0 /\ panicked = FALSE

\* StartSync with a running reader returns ErrReaderRunning.  (A position
\* without a file name is refused before this and changes nothing.)
StartRefused(c) ==
  /\ pc[c] = "idle" /\ running
  /\ result' = [result EXCEPT ![c] = "ErrReaderRunning"]
  /\ UNCHANGED <<running, canceled, wg, pc, worker, nstarts, panicked>>

\* StartSync passes the check of r.running and goes to read the UUID index.
StartCheck(c) ==
  /\ pc[c] = "idle" /\ ~running /\ nstarts < MaxStarts
  /\ pc' = [pc EXCEPT ![c] = "loading"]
  /\ UNCHANGED <<running, canceled, wg, result, worker, nstarts, panicked>>

\* updateUUIDs fails: StartSync returns the error.
StartLoadFail(c) ==
  /\ pc[c] = "loading"
  /\ pc' = [pc EXCEPT ![c] = "idle"]
  /\ result' = [result EXCEPT ![c] = "loadError"]
  /\ UNCHANGED <<running, canceled, wg, worker, nstarts, panicked>>

\* latestServerID = 0, running = true, wg.Add(1), go parseRelay, return s.
StartSpawn(c) ==
  /\ pc[c] = "loading" /\ nstarts < MaxStarts
  /\ running' = TRUE
  /\ wg' = wg + 1
  /\ nstarts' = nstarts + 1
  /\ worker' = [worker EXCEPT ![nstarts + 1] = "spawned"]
  /\ pc' = [pc EXCEPT ![c] = "idle"]
  /\ result' = [result EXCEPT ![c] = "stream"]
  /\ UNCHANGED <<canceled, panicked>>

\* The goroutine is scheduled and enters parseRelay.
WorkerBegin(w) ==
  /\ worker[w] = "spawned"
  /\ worker' = [worker EXCEPT ![w] = "parsing"]
  /\ UNCHANGED <<running, canceled, wg, pc, result, nstarts, panicked>>

\* The callers' places after a Done leaves the counter at n: the Done that
\* brings it to zero resets the waiters and wakes every sleeping Wait.
Release(n) == IF n = 0 THEN [c \in Callers |-> IF pc[c] = "asleep" THEN "woken" ELSE pc[c]]
              ELSE pc

\* wg.Done() both on the error path and deferred.
WorkerExitDoneTwice(w) ==
  /\ worker[w] = "parsing"
  /\ worker' = [worker EXCEPT ![w] = "exited"]
  /\ wg' = wg - 2
  /\ pc' = Release(wg - 2)
  /\ UNCHANGED <<running, canceled, result, nstarts, panicked>>

\* parseRelay returns: with the context's error once it is canceled, or
\* with any other error (then s.closeWithError); deferred wg.Done().
WorkerExit(w) ==
  /\ worker[w] = "parsing"
  /\ worker' = [worker EXCEPT ![w] = "exited"]
  /\ wg' = wg - 1
  /\ pc' = Release(wg - 1)
  /\ UNCHANGED <<running, canceled, result, nstarts, panicked>>

\* The exit that cancellation forces: parseRelay sees ctx done.
WorkerCanceled(w) == canceled /\ WorkerExit(w)

\* Close waiting on wg before it cancels the context.
CloseBeginNoCancel(c) ==
  /\ pc[c] = "idle"
  /\ running' = FALSE
  /\ pc' = [pc EXCEPT ![c] = "waiting"]
  /\ UNCHANGED <<canceled, wg, result, worker, nstarts, panicked>>

\* Close: running = false, cancel(), parser.Stop(), then wg.Wait().
CloseBegin(c) ==
  /\ pc[c] = "idle"
  /\ running' = FALSE /\ canceled' = TRUE
  /\ pc' = [pc EXCEPT ![c] = "waiting"]
  /\ UNCHANGED <<wg, result, worker, nstarts, panicked>>

\* Close without wg.Wait().
CloseWaitNoWait(c) ==
  /\ pc[c] = "waiting"
  /\ pc' = [pc EXCEPT ![c] = "idle"]
  /\ result' = [result EXCEPT ![c] = "closed"]
  /\ UNCHANGED <<running, canceled, wg, worker, nstarts, panicked>>

\* wg.Wait(): on a zero counter it returns and Close returns nil; otherwise
\* it registers as a waiter and sleeps.
CloseWait(c) ==
  /\ pc[c] = "waiting"
  /\ IF wg = 0 THEN /\ pc' = [pc EXCEPT ![c] = "idle"]
                    /\ result' = [result EXCEPT ![c] = "closed"]
               ELSE /\ pc' = [pc EXCEPT ![c] = "asleep"]
                    /\ UNCHANGED result
  /\ UNCHANGED <<running, canceled, wg, worker, nstarts, panicked>>

\* The woken Wait: it returns if the counter is still zero, and panics if a
\* wg.Add has run since the Done that woke it.  (Add itself panics only if
\* the counter is zero with waiters registered, which the Done that brings
\* it to zero rules out by resetting them; that Done's own check of a
\* concurrent Add is folded into its one step.)
CloseWake(c) ==
  /\ pc[c] = "woken"
  /\ IF wg = 0 THEN /\ pc' = [pc EXCEPT ![c] = "idle"]
                    /\ result' = [result EXCEPT ![c] = "closed"]
                    /\ UNCHANGED panicked
               ELSE /\ panicked' = TRUE /\ UNCHANGED <<pc, result>>
  /\ UNCHANGED <<running, canceled, wg, worker, nstarts>>

\* After a panic nothing runs.
Crashed == panicked /\ UNCHANGED vars

Next ==
  \/ /\ ~panicked
     /\ \/ \E c \in Callers :
           \/ StartRefused(c) \/ StartCheck(c) \/ StartLoadFail(c) \/ StartSpawn(c)
           \/ CloseBegin(c) \/ CloseWait(c) \/ CloseWake(c)
        \/ \E w \in Starts : WorkerBegin(w) \/ WorkerExit(w)
  \/ Crashed

\* The Go scheduler runs every runnable goroutine, a canceled parseRelay
\* returns (RelayReader's CloseTerminates), and a Wait that has been called
\* or woken goes on.  An error is never forced.
Fairness ==
  /\ \A w \in Starts : WF_vars(~panicked /\ WorkerBegin(w)) /\ WF_vars(~panicked /\ WorkerCanceled(w))
  /\ \A c \in Callers : /\ WF_vars(~panicked /\ (CloseWait(c) \/ CloseWake(c)))
                       /\ WF_vars(~panicked /\ (StartSpawn(c) \/ StartLoadFail(c)))

Spec == Init /\ [][Next]_vars
FairSpec == Spec /\ Fairness

-----------------------------------------------------------------------------
(* Properties.                                                             *)

\* At most one parseRelay goroutine runs at a time: they would share
\* r.parser, r.uuids and r.latestServerID, which StartSync resets.  The
\* check of r.running in StartSync is meant to ensure it.
AtMostOneWorker == Cardinality(LiveWorkers) <= 1

\* When Close returns, every goroutine a StartSync has started has left
\* parseRelay: wg.Add(1) runs before the go statement, so wg.Wait() cannot
\* miss a goroutine that has not been scheduled yet.
CloseWaitsForWorkers ==
  [][\A c \in Callers :
       pc[c] \in {"waiting", "woken"} /\ pc'[c] = "idle" => LiveWorkers' = {}]_vars

\* A Close that has begun never blocks for good: it cancels the context
\* before it waits and every goroutine ends once the context is canceled, so
\* it returns, unless a StartSync of another caller reuses the WaitGroup
\* while it waits and the process dies of the WaitGroup's panic.
CloseReturns == \A c \in Callers : pc[c] = "waiting" ~> (pc[c] = "idle" \/ panicked)

=============================================================================
