-------------------------- MODULE RebalanceRecovery --------------------------
(***************************************************************************)
(* The close -> open rotation of a liquidity position and its recovery.    *)
(*                                                                         *)
(* Several StrategyExecutor loops run in one process.  A rebalance session *)
(* closes the old position on chain, appends a row to the lifecycle ledger *)
(* and opens the replacement.  When the open does not happen the session   *)
(* is put into the pending-open file, a JSON document that every executor, *)
(* the stranded-rebalance watchdog and the operator's dismiss call load,   *)
(* change and overwrite as a whole.  Any executor may then retry the open. *)
(*                                                                         *)
(* A session stands for its rebalance_session_id, for the NFT of the       *)
(* position it closes and for its pool: these identify each other, and the *)
(* claim key, the upsert key and the ledger anchor are built from them.    *)
(* Ticks, amounts, quotes, alerts and telemetry fields are left out; so is *)
(* the order of the items in the file (a pass takes them in any order).    *)
(* The monitor and the managed allowlist are not part of this module.      *)
(***************************************************************************)
EXTENDS Naturals, FiniteSets

CONSTANTS
  Executors,      \* StrategyExecutor loops of the process
  Sessions,       \* rebalance sessions, one per position to be rotated
  Owner,          \* the executor whose allowlist holds the session's position
  NoSession,      \* the value of cur when an executor works on no session
  MaxAttempts,    \* CLMM_PENDING_OPEN_MAX_ATTEMPTS
  MaxOpenTries,   \* open_position attempts inside one open
  RateLimit,      \* CLMM_PENDING_OPEN_MIN_INTERVAL_SECS is set
  WatchdogOn,     \* CLMM_STRANDED_RECONCILE_INTERVAL_SECS is set
  Dismissable,    \* sessions the operator may dismiss
  LostConfirm,    \* a transaction may land although the call returns an error
  DiskErrors,     \* a ledger append or a save may fail (both best effort)
  MaxFailures,    \* bound: transaction, RPC and disk failures of a behaviour
  MaxCrashes      \* bound: process restarts of a behaviour

ASSUME SessionAssumption == NoSession \notin Sessions
ASSUME OwnerAssumption == Owner \in [Sessions -> Executors]
ASSUME BoundAssumption ==
  /\ MaxAttempts \in Nat \ {0}
  /\ MaxOpenTries \in Nat \ {0}
  /\ MaxFailures \in Nat
  /\ MaxCrashes \in Nat
ASSUME SwitchAssumption ==
  /\ RateLimit \in BOOLEAN
  /\ WatchdogOn \in BOOLEAN
  /\ LostConfirm \in BOOLEAN
  /\ DiskErrors \in BOOLEAN
  /\ Dismissable \subseteq Sessions

VARIABLES
  \* The chain.
  closed,         \* sessions whose old position is closed
  opened,         \* session -> number of replacement positions opened
  \* Files: the lifecycle ledger, the pending-open store, the dismissed list.
  closeRows,      \* sessions with a bot_close_position row
  openRows,       \* sessions with a bot_open_position row
  file,           \* the pending-open store on disk
  dismissedFile,  \* stranded-dismissed-sessions.json
  \* Process-wide statics.
  claims,         \* GLOBAL_PENDING_OPEN_CLAIMS
  inflight,       \* OPEN_GUARD_INFLIGHT
  completed,      \* OPEN_GUARD_COMPLETED
  \* One executor task each.
  pc,             \* where the task is
  mode,           \* what it opens for: "none", "rebalance" or "recover"
  cur,            \* the session it works on
  tries,          \* open attempts made inside the current open
  todo,           \* items of the loaded store not yet looked at
  store,          \* the task's copy of the store; its queue is `kept`
  \* The watchdog tick and the dismiss request.
  wpc, wrows, wstore,
  dpc, dsid, dstore,
  \* Bounds.
  failures, lost, crashes

chain   == <<closed, opened>>
files   == <<closeRows, openRows, file, dismissedFile>>
statics == <<claims, inflight, completed>>
tasks   == <<pc, mode, cur, tries, todo, store>>
wvars   == <<wpc, wrows, wstore>>
dvars   == <<dpc, dsid, dstore>>
bounds  == <<failures, lost, crashes>>
vars    == <<chain, files, statics, tasks, wvars, dvars, bounds>>

----------------------------------------------------------------------------
(* The pending-open store.                                                 *)

\* PendingOpenStore: items keyed by closed position, with their attempts
\* (zero where there is no item), and the dismissed session ids.
StoreType == [queued    : SUBSET Sessions,
              attempts  : [Sessions -> 0..MaxAttempts],
              dismissed : SUBSET Sessions]

\* PendingOpenStore::default(), which load() yields for a missing file and the
\* executor's unwrap_or_default() for one that was truncated and not yet written.
EmptyStore == [queued    |-> {},
               attempts  |-> [s \in Sessions |-> 0],
               dismissed |-> {}]

\* upsert: insert or replace the item of s.
Upsert(st, s, n) == [st EXCEPT !.queued = @ \cup {s}, !.attempts = [@ EXCEPT ![s] = n]]

\* attempts += 1 on the item of s.
CountAttempt(st, s) == [st EXCEPT !.attempts = [@ EXCEPT ![s] = st.attempts[s] + 1]]

\* Retain every item but that of s.
Prune(st, s) == [st EXCEPT !.queued = @ \ {s}, !.attempts = [@ EXCEPT ![s] = 0]]

----------------------------------------------------------------------------
Pcs == {"idle", "items", "screen", "ledger", "completed", "inflight", "open",
        "openRow", "release", "releaseDone", "mark", "done", "fail",
        "save", "write", "eval", "close", "closeRow"}

Modes == {"none", "rebalance", "recover"}

TypeOK ==
  /\ closed \subseteq Sessions
  /\ opened \in [Sessions -> Nat]
  /\ closeRows \subseteq Sessions
  /\ openRows \subseteq Sessions
  /\ file \in StoreType
  /\ dismissedFile \subseteq Sessions
  /\ claims \subseteq Sessions
  /\ inflight \subseteq Sessions
  /\ completed \subseteq Sessions
  /\ pc \in [Executors -> Pcs]
  /\ mode \in [Executors -> Modes]
  /\ cur \in [Executors -> Sessions \cup {NoSession}]
  /\ tries \in [Executors -> 0..(MaxOpenTries - 1)]
  /\ todo \in [Executors -> SUBSET Sessions]
  /\ store \in [Executors -> StoreType]
  /\ wpc \in {"idle", "scanned", "save", "write"}
  /\ wrows \subseteq Sessions
  /\ wstore \in StoreType
  /\ dpc \in {"idle", "save", "write", "persist"}
  /\ dsid \in Sessions \cup {NoSession}
  /\ dstore \in StoreType
  /\ failures \in 0..MaxFailures
  /\ lost \in 0..failures
  /\ crashes \in 0..MaxCrashes

Init ==
  /\ closed = {}
  /\ opened = [s \in Sessions |-> 0]
  /\ closeRows = {}
  /\ openRows = {}
  /\ file = EmptyStore
  /\ dismissedFile = {}
  /\ claims = {}
  /\ inflight = {}
  /\ completed = {}
  /\ pc = [e \in Executors |-> "idle"]
  /\ mode = [e \in Executors |-> "none"]
  /\ cur = [e \in Executors |-> NoSession]
  /\ tries = [e \in Executors |-> 0]
  /\ todo = [e \in Executors |-> {}]
  /\ store = [e \in Executors |-> EmptyStore]
  /\ wpc = "idle"
  /\ wrows = {}
  /\ wstore = EmptyStore
  /\ dpc = "idle"
  /\ dsid = NoSession
  /\ dstore = EmptyStore
  /\ failures = 0
  /\ lost = 0
  /\ crashes = 0

\* Move executor e from one place of its task to another.
Goto(e, from, to) == /\ pc[e] = from
                     /\ pc' = [pc EXCEPT ![e] = to]

\* A failure the environment may still inflict.
Failure == /\ failures < MaxFailures
           /\ failures' = failures + 1
           /\ UNCHANGED <<lost, crashes>>

----------------------------------------------------------------------------
(* process_pending_open_recoveries: one pass over the pending-open file.   *)

\* Load the file; an empty queue ends the pass without a save.
LoadPass(e) ==
  /\ IF file.queued = {}
     THEN /\ Goto(e, "idle", "eval")
          /\ UNCHANGED <<todo, store>>
     ELSE /\ Goto(e, "idle", "items")
          /\ todo' = [todo EXCEPT ![e] = file.queued]
          /\ store' = [store EXCEPT ![e] = [file EXCEPT !.queued = {}]]
  /\ UNCHANGED <<chain, files, statics, mode, cur, tries, wvars, dvars, bounds>>

\* A wrong ClaimItem: the claim is taken without asking who holds it.
ClaimUnasked(e, s) ==
  /\ Goto(e, "items", "screen")
  /\ s \in todo[e]
  /\ todo' = [todo EXCEPT ![e] = @ \ {s}]
  /\ claims' = claims \cup {s}
  /\ mode' = [mode EXCEPT ![e] = "recover"]
  /\ cur' = [cur EXCEPT ![e] = s]
  /\ UNCHANGED <<chain, files, inflight, completed, tries, store, wvars, dvars, bounds>>

\* Take the next item.  One that another task has claimed is kept unchanged.
ClaimItem(e, s) ==
  /\ pc[e] = "items"
  /\ s \in todo[e]
  /\ todo' = [todo EXCEPT ![e] = @ \ {s}]
  /\ IF s \in claims
     THEN /\ store' = [store EXCEPT ![e].queued = @ \cup {s}]
          /\ UNCHANGED <<claims, pc, mode, cur>>
     ELSE /\ claims' = claims \cup {s}
          /\ Goto(e, "items", "screen")
          /\ mode' = [mode EXCEPT ![e] = "recover"]
          /\ cur' = [cur EXCEPT ![e] = s]
          /\ UNCHANGED store
  /\ UNCHANGED <<chain, files, inflight, completed, tries, wvars, dvars, bounds>>

\* A wrong ReleaseClaim: the claim is never given back.
LeakClaim(e, st) ==
  /\ UNCHANGED claims
  /\ store' = [store EXCEPT ![e] = st]
  /\ mode' = [mode EXCEPT ![e] = "none"]
  /\ cur' = [cur EXCEPT ![e] = NoSession]

\* Give the claim back and go on with the next item, with the copy `st`.
ReleaseClaim(e, st) ==
  /\ claims' = claims \ {cur[e]}
  /\ store' = [store EXCEPT ![e] = st]
  /\ mode' = [mode EXCEPT ![e] = "none"]
  /\ cur' = [cur EXCEPT ![e] = NoSession]

\* The item keeps its place in the queue, with the attempts counted so far.
Kept(e) == [store[e] EXCEPT !.queued = @ \cup {cur[e]}]

\* The item is retried later unless its attempts are used up.
KeptIfAttemptsRemain(e) == IF store[e].attempts[cur[e]] < MaxAttempts
                           THEN Kept(e)
                           ELSE Prune(store[e], cur[e])

\* Out of attempts, or the ledger already has the session's open: drop it.
DropItem(e) ==
  /\ Goto(e, "screen", "items")
  /\ \/ store[e].attempts[cur[e]] >= MaxAttempts
     \/ cur[e] \in openRows
  /\ ReleaseClaim(e, Prune(store[e], cur[e]))
  /\ UNCHANGED <<chain, files, inflight, completed, tries, todo, wvars, dvars, bounds>>

\* Attempted too recently: keep it for a later pass.
DeferItem(e) ==
  /\ Goto(e, "screen", "items")
  /\ RateLimit
  /\ store[e].attempts[cur[e]] \in 1..(MaxAttempts - 1)
  /\ cur[e] \notin openRows
  /\ ReleaseClaim(e, Kept(e))
  /\ UNCHANGED <<chain, files, inflight, completed, tries, todo, wvars, dvars, bounds>>

\* Count the attempt and call recover_open_after_incomplete.
AttemptItem(e) ==
  /\ Goto(e, "screen", "ledger")
  /\ store[e].attempts[cur[e]] < MaxAttempts
  /\ cur[e] \notin openRows
  /\ store' = [store EXCEPT ![e] = CountAttempt(store[e], cur[e])]
  /\ UNCHANGED <<chain, files, statics, mode, cur, tries, todo, wvars, dvars, bounds>>

\* The open succeeded and the monitor took the new position: drop the item.
RecoverDone(e) ==
  /\ Goto(e, "done", "items")
  /\ mode[e] = "recover"
  /\ ReleaseClaim(e, Prune(store[e], cur[e]))
  /\ UNCHANGED <<chain, files, inflight, completed, tries, todo, wvars, dvars, bounds>>

\* The open succeeded but monitor.add_position did not: the item stays.
RecoverUnmonitored(e) ==
  /\ Goto(e, "done", "items")
  /\ mode[e] = "recover"
  /\ Failure
  /\ ReleaseClaim(e, KeptIfAttemptsRemain(e))
  /\ UNCHANGED <<chain, files, inflight, completed, tries, todo, wvars, dvars>>

\* The open failed: the item stays while attempts remain.
RecoverFailed(e) ==
  /\ Goto(e, "fail", "items")
  /\ mode[e] = "recover"
  /\ ReleaseClaim(e, KeptIfAttemptsRemain(e))
  /\ UNCHANGED <<chain, files, inflight, completed, tries, todo, wvars, dvars, bounds>>

----------------------------------------------------------------------------
(* pending_open::save, std::fs::write: truncate the file, then write it.   *)

\* The pass is over (items) or the incomplete rebalance was upserted (save).
SaveTruncate(e) ==
  /\ \/ Goto(e, "items", "write") /\ todo[e] = {}
     \/ Goto(e, "save", "write")
  /\ file' = EmptyStore
  /\ UNCHANGED <<chain, closeRows, openRows, dismissedFile, statics,
                 mode, cur, tries, todo, store, wvars, dvars, bounds>>

\* The whole document is replaced by the task's copy.
SaveWrite(e) ==
  /\ Goto(e, "write", "eval")
  /\ file' = store[e]
  /\ store' = [store EXCEPT ![e] = EmptyStore]
  /\ UNCHANGED <<chain, closeRows, openRows, dismissedFile, statics,
                 mode, cur, tries, todo, wvars, dvars, bounds>>

\* The file cannot be opened: the error is logged and the copy is dropped.
SaveError(e) ==
  /\ \/ Goto(e, "items", "eval") /\ todo[e] = {}
     \/ Goto(e, "save", "eval")
  /\ DiskErrors
  /\ Failure
  /\ store' = [store EXCEPT ![e] = EmptyStore]
  /\ UNCHANGED <<chain, files, statics, mode, cur, tries, todo, wvars, dvars>>

----------------------------------------------------------------------------
(* open_new_range_with_wallet_mix, called by a rebalance and by a recovery. *)

\* Pool fetch, wallet or portfolio check fails before any guard is taken.
PrepareError(e) ==
  /\ Goto(e, "ledger", "fail")
  /\ Failure
  /\ UNCHANGED <<chain, files, statics, mode, cur, tries, todo, store, wvars, dvars>>

\* session_has_bot_open_position blocks a second open of the session.
LedgerGuard(e) ==
  /\ Goto(e, "ledger", IF cur[e] \in openRows THEN "fail" ELSE "completed")
  /\ UNCHANGED <<chain, files, statics, mode, cur, tries, todo, store, wvars, dvars, bounds>>

\* try_reserve_open_session, first lock: an open already succeeded here.
CompletedGuard(e) ==
  /\ Goto(e, "completed", IF cur[e] \in completed THEN "fail" ELSE "inflight")
  /\ UNCHANGED <<chain, files, statics, mode, cur, tries, todo, store, wvars, dvars, bounds>>

\* try_reserve_open_session, second lock: take the reservation.
InflightGuard(e) ==
  /\ IF cur[e] \in inflight
     THEN /\ Goto(e, "inflight", "fail")
          /\ UNCHANGED inflight
     ELSE /\ Goto(e, "inflight", "open")
          /\ inflight' = inflight \cup {cur[e]}
  /\ UNCHANGED <<chain, files, claims, completed, mode, cur, tries, todo, store,
                 wvars, dvars, bounds>>

\* A wrong MixError: an early return keeps the reservation.
MixErrorLeaks(e) ==
  /\ Goto(e, "open", "fail")
  /\ tries[e] = 0
  /\ Failure
  /\ UNCHANGED <<chain, files, statics, mode, cur, tries, todo, store, wvars, dvars>>

\* Wallet refresh or swap-mix fails: the reservation is given back.
MixError(e) ==
  /\ Goto(e, "open", "release")
  /\ tries[e] = 0
  /\ Failure
  /\ UNCHANGED <<chain, files, statics, mode, cur, tries, todo, store, wvars, dvars>>

\* A wrong CountTry: one open attempt too many.
CountTryLate(e) ==
  LET last == tries[e] = MaxOpenTries
  IN  /\ Goto(e, "open", IF last THEN "release" ELSE "open")
      /\ tries' = [tries EXCEPT ![e] = IF last THEN 0 ELSE @ + 1]

\* open_position returned an error; try again while attempts remain.
CountTry(e) ==
  LET last == tries[e] + 1 = MaxOpenTries
  IN  /\ Goto(e, "open", IF last THEN "release" ELSE "open")
      /\ tries' = [tries EXCEPT ![e] = IF last THEN 0 ELSE @ + 1]

OpenFailed(e) ==
  /\ CountTry(e)
  /\ Failure
  /\ UNCHANGED <<chain, files, statics, mode, cur, todo, store, wvars, dvars>>

\* The open landed on chain but its confirmation was lost: the call returns an
\* error, no row is written and the loop tries again.
OpenUnconfirmed(e) ==
  /\ LostConfirm
  /\ CountTry(e)
  /\ failures < MaxFailures
  /\ failures' = failures + 1
  /\ lost' = lost + 1
  /\ opened' = [opened EXCEPT ![cur[e]] = @ + 1]
  /\ UNCHANGED <<closed, files, statics, mode, cur, todo, store, wvars, dvars, crashes>>

OpenConfirmed(e) ==
  /\ Goto(e, "open", "openRow")
  /\ opened' = [opened EXCEPT ![cur[e]] = @ + 1]
  /\ tries' = [tries EXCEPT ![e] = 0]
  /\ UNCHANGED <<closed, files, statics, mode, cur, todo, store, wvars, dvars, bounds>>

\* record_execution_success: append the row.  The append is best effort.
OpenRow(e) ==
  /\ Goto(e, "openRow", "releaseDone")
  /\ \/ openRows' = openRows \cup {cur[e]} /\ UNCHANGED bounds
     \/ DiskErrors /\ Failure /\ UNCHANGED openRows
  /\ UNCHANGED <<chain, closeRows, file, dismissedFile, statics, mode, cur, tries,
                 todo, store, wvars, dvars>>

\* release_open_session_reservation, first lock.
ReleaseInflight(e) ==
  /\ \/ Goto(e, "release", "fail")
     \/ Goto(e, "releaseDone", "mark")
  /\ inflight' = inflight \ {cur[e]}
  /\ UNCHANGED <<chain, files, claims, completed, mode, cur, tries, todo, store,
                 wvars, dvars, bounds>>

\* A wrong MarkCompleted: the session is not remembered as opened.
MarkNothing(e) ==
  /\ Goto(e, "mark", "done")
  /\ UNCHANGED <<chain, files, statics, mode, cur, tries, todo, store, wvars, dvars, bounds>>

\* release_open_session_reservation, second lock.
MarkCompleted(e) ==
  /\ Goto(e, "mark", "done")
  /\ completed' = completed \cup {cur[e]}
  /\ UNCHANGED <<chain, files, claims, inflight, mode, cur, tries, todo, store,
                 wvars, dvars, bounds>>

----------------------------------------------------------------------------
(* evaluate_all, execute_decision and RebalanceExecutor::execute.          *)

\* Leave the current session.
Finish(e) == /\ mode' = [mode EXCEPT ![e] = "none"]
             /\ cur' = [cur EXCEPT ![e] = NoSession]

\* A managed position whose account still exists is to be rebalanced.
StartRebalance(e, s) ==
  /\ Goto(e, "eval", "close")
  /\ Owner[s] = e
  /\ s \notin closed
  /\ mode' = [mode EXCEPT ![e] = "rebalance"]
  /\ cur' = [cur EXCEPT ![e] = s]
  /\ UNCHANGED <<chain, files, statics, tries, todo, store, wvars, dvars, bounds>>

EndEvaluation(e) ==
  /\ Goto(e, "eval", "idle")
  /\ UNCHANGED <<chain, files, statics, mode, cur, tries, todo, store, wvars, dvars, bounds>>

\* A wrong CloseFailed: the session is queued although nothing was closed.
CloseFailedQueues(e) ==
  /\ Goto(e, "close", "fail")
  /\ Failure
  /\ UNCHANGED <<chain, files, statics, mode, cur, tries, todo, store, wvars, dvars>>

\* A gate, the preflight quote or the close itself fails: nothing happened.
CloseFailed(e) ==
  /\ Goto(e, "close", "eval")
  /\ Failure
  /\ Finish(e)
  /\ UNCHANGED <<chain, files, statics, tries, todo, store, wvars, dvars>>

\* The close landed but the call returned an error, so
\* old_position_closed_on_chain stays false and nothing is queued.
CloseUnconfirmed(e) ==
  /\ LostConfirm
  /\ Goto(e, "close", "eval")
  /\ Failure
  /\ closed' = closed \cup {cur[e]}
  /\ Finish(e)
  /\ UNCHANGED <<opened, files, statics, tries, todo, store, wvars, dvars>>

CloseConfirmed(e) ==
  /\ Goto(e, "close", "closeRow")
  /\ closed' = closed \cup {cur[e]}
  /\ UNCHANGED <<opened, files, statics, mode, cur, tries, todo, store, wvars, dvars, bounds>>

\* record_execution_success for the close, then go on to the open.
CloseRow(e) ==
  /\ Goto(e, "closeRow", "ledger")
  /\ \/ closeRows' = closeRows \cup {cur[e]} /\ UNCHANGED bounds
     \/ DiskErrors /\ Failure /\ UNCHANGED closeRows
  /\ UNCHANGED <<chain, openRows, file, dismissedFile, statics, mode, cur, tries,
                 todo, store, wvars, dvars>>

RebalanceDone(e) ==
  /\ Goto(e, "done", "eval")
  /\ mode[e] = "rebalance"
  /\ Finish(e)
  /\ UNCHANGED <<chain, files, statics, tries, todo, store, wvars, dvars, bounds>>

\* Closed but not reopened: load the file and upsert the session into the copy.
RebalanceIncomplete(e) ==
  /\ Goto(e, "fail", "save")
  /\ mode[e] = "rebalance"
  /\ store' = [store EXCEPT ![e] = Upsert(file, cur[e], 0)]
  /\ Finish(e)
  /\ UNCHANGED <<chain, files, statics, tries, todo, wvars, dvars, bounds>>

----------------------------------------------------------------------------
(* The stranded-rebalance watchdog: reconcile_stranded_with_il_path.       *)

\* Read the ledger tail: sessions with a close row and no open row.
WatchdogScan ==
  /\ WatchdogOn
  /\ wpc = "idle"
  /\ closeRows \ openRows # {}
  /\ wpc' = "scanned"
  /\ wrows' = closeRows \ openRows
  /\ UNCHANGED <<chain, files, statics, tasks, wstore, dvars, bounds>>

\* Load both files and add every session neither queued nor dismissed.
WatchdogLoad ==
  LET merged   == [file EXCEPT !.dismissed = @ \cup dismissedFile]
      enqueued == wrows \ (merged.queued \cup merged.dismissed)
  IN  /\ wpc = "scanned"
      /\ wrows' = {}
      /\ IF enqueued = {}
         THEN /\ wpc' = "idle"
              /\ UNCHANGED wstore
         ELSE /\ wpc' = "save"
              /\ wstore' = [merged EXCEPT !.queued = @ \cup enqueued]
      /\ UNCHANGED <<chain, files, statics, tasks, dvars, bounds>>

WatchdogTruncate ==
  /\ wpc = "save"
  /\ wpc' = "write"
  /\ file' = EmptyStore
  /\ UNCHANGED <<chain, closeRows, openRows, dismissedFile, statics, tasks,
                 wrows, wstore, dvars, bounds>>

WatchdogWrite ==
  /\ wpc = "write"
  /\ wpc' = "idle"
  /\ file' = wstore
  /\ wstore' = EmptyStore
  /\ UNCHANGED <<chain, closeRows, openRows, dismissedFile, statics, tasks,
                 wrows, dvars, bounds>>

----------------------------------------------------------------------------
(* The operator's dismiss: dismiss_stranded_rebalance_session_for_api.     *)

\* The operator dismisses a session the stranded list shows.
DismissLoad(s) ==
  /\ dpc = "idle"
  /\ s \in Dismissable \ dismissedFile
  /\ s \in (closeRows \cup file.queued) \ openRows
  /\ dpc' = "save"
  /\ dsid' = s
  /\ dstore' = [Prune(file, s) EXCEPT !.dismissed = @ \cup {s}]
  /\ UNCHANGED <<chain, files, statics, tasks, wvars, bounds>>

DismissTruncate ==
  /\ dpc = "save"
  /\ dpc' = "write"
  /\ file' = EmptyStore
  /\ UNCHANGED <<chain, closeRows, openRows, dismissedFile, statics, tasks, wvars,
                 dsid, dstore, bounds>>

DismissWrite ==
  /\ dpc = "write"
  /\ dpc' = "persist"
  /\ file' = dstore
  /\ dstore' = EmptyStore
  /\ UNCHANGED <<chain, closeRows, openRows, dismissedFile, statics, tasks, wvars,
                 dsid, bounds>>

\* save_dismissed_session_ids: the second file, only the dismiss writes it.
DismissPersist ==
  /\ dpc = "persist"
  /\ dpc' = "idle"
  /\ dismissedFile' = dismissedFile \cup {dsid}
  /\ dsid' = NoSession
  /\ UNCHANGED <<chain, closeRows, openRows, file, statics, tasks, wvars, dstore, bounds>>

----------------------------------------------------------------------------
\* The process dies and starts again: the chain and the files are what is left.
Crash ==
  /\ crashes < MaxCrashes
  /\ crashes' = crashes + 1
  /\ claims' = {}
  /\ inflight' = {}
  /\ completed' = {}
  /\ pc' = [e \in Executors |-> "idle"]
  /\ mode' = [e \in Executors |-> "none"]
  /\ cur' = [e \in Executors |-> NoSession]
  /\ tries' = [e \in Executors |-> 0]
  /\ todo' = [e \in Executors |-> {}]
  /\ store' = [e \in Executors |-> EmptyStore]
  /\ wpc' = "idle"
  /\ wrows' = {}
  /\ wstore' = EmptyStore
  /\ dpc' = "idle"
  /\ dsid' = NoSession
  /\ dstore' = EmptyStore
  /\ UNCHANGED <<chain, files, failures, lost>>

RecoveryPass(e) ==
  \/ LoadPass(e)
  \/ \E s \in Sessions : ClaimItem(e, s)
  \/ DropItem(e)
  \/ DeferItem(e)
  \/ AttemptItem(e)
  \/ RecoverDone(e)
  \/ RecoverUnmonitored(e)
  \/ RecoverFailed(e)

Save(e) ==
  \/ SaveTruncate(e)
  \/ SaveWrite(e)
  \/ SaveError(e)

OpenPath(e) ==
  \/ PrepareError(e)
  \/ LedgerGuard(e)
  \/ CompletedGuard(e)
  \/ InflightGuard(e)
  \/ MixError(e)
  \/ OpenFailed(e)
  \/ OpenUnconfirmed(e)
  \/ OpenConfirmed(e)
  \/ OpenRow(e)
  \/ ReleaseInflight(e)
  \/ MarkCompleted(e)

Evaluate(e) ==
  \/ \E s \in Sessions : StartRebalance(e, s)
  \/ EndEvaluation(e)
  \/ CloseFailed(e)
  \/ CloseUnconfirmed(e)
  \/ CloseConfirmed(e)
  \/ CloseRow(e)
  \/ RebalanceDone(e)
  \/ RebalanceIncomplete(e)

\* One step of the loop of StrategyExecutor::start.
ExecutorStep(e) == RecoveryPass(e) \/ Save(e) \/ OpenPath(e) \/ Evaluate(e)

WatchdogStep == WatchdogScan \/ WatchdogLoad \/ WatchdogTruncate \/ WatchdogWrite

DismissStep ==
  \/ \E s \in Sessions : DismissLoad(s)
  \/ DismissTruncate
  \/ DismissWrite
  \/ DismissPersist

Next ==
  \/ \E e \in Executors : ExecutorStep(e)
  \/ WatchdogStep
  \/ DismissStep
  \/ Crash

Spec == Init /\ [][Next]_vars

\* The loops keep ticking: every executor and the watchdog task are scheduled,
\* and a dismiss request that has begun runs to its end.
FairSpec ==
  /\ Spec
  /\ \A e \in Executors : WF_vars(ExecutorStep(e))
  /\ WF_vars(WatchdogStep)
  /\ WF_vars(DismissTruncate \/ DismissWrite \/ DismissPersist)

----------------------------------------------------------------------------
(* Properties.                                                             *)

\* The executors that hold the claim of the session they work on.
Claimants(s) == {e \in Executors : mode[e] = "recover" /\ cur[e] = s}

\* A pending-open item is claimed exactly while one executor works on it
\* (executor.rs, GLOBAL_PENDING_OPEN_CLAIMS): never by two tasks at once, and no
\* way out of the pass leaves a claim behind that would block the item for good.
ClaimsExact ==
  \A s \in Sessions :
    /\ s \in claims <=> Claimants(s) # {}
    /\ \A d, e \in Claimants(s) : d = e

\* The places where a task holds the in-process reservation of its session.
Reserving == {"open", "openRow", "release", "releaseDone"}

Holders(s) == {e \in Executors : pc[e] \in Reserving /\ cur[e] = s}

\* Between try_reserve_open_session and release_open_session_reservation one
\* task at a time sends open transactions for a session, whether it came from a
\* rebalance or from a recovery, and no error path leaks the reservation.
ReservationExact ==
  \A s \in Sessions :
    /\ s \in inflight <=> Holders(s) # {}
    /\ \A d, e \in Holders(s) : d = e

\* No replacement is opened for a position that is still open: whatever copy of
\* the pending-open file survives the overwrites, it only names closed positions.
ReopenOnlyClosed == \A s \in Sessions : opened[s] > 0 => s \in closed

\* While the watchdog does not queue sessions of its own, every open of a session
\* beyond the first is paid for by a restart or by a transaction that landed
\* without being confirmed to the bot: ledger guard, in-process guards and claims
\* together stop every other way to open twice.
DuplicateNeedsFault ==
  ~WatchdogOn => \A s \in Sessions : opened[s] <= 1 + crashes + lost

\* rebalance.rs: "at most one open per rebalance_session_id".
AtMostOneOpen == \A s \in Sessions : opened[s] <= 1

\* With the watchdog running and failures that stop, every bot close the ledger
\* knows of is followed by a reopen unless the operator dismisses the session:
\* lost updates of the file and used-up attempts are made good.
StrandedReopened ==
  \A s \in Sessions :
    s \in closeRows ~> (opened[s] > 0 \/ s \in file.dismissed \cup dismissedFile)
=============================================================================
