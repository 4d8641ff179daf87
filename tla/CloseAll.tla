------------------------------ MODULE CloseAll ------------------------------
(***************************************************************************)
(* The bulk close of positions (POST /positions/close-all): a background   *)
(* worker pauses the linked strategies, closes the positions wallet by     *)
(* wallet and reports every position in an in-memory job.  It runs beside  *)
(*   - the executors of the strategies, which refresh the monitored        *)
(*     positions they look at, rotate some (close the old one, open a new  *)
(*     one) and rewrite the strategy links in a spawned reopen hook, and   *)
(*   - GET /positions/:address, which puts a position back into the        *)
(*     monitor from a chain read made earlier.                             *)
(* Nothing else refreshes the monitor: the API server does not start the   *)
(* polling loop of PositionMonitor.                                        *)
(* Addresses, signatures and amounts are model values; the order in which  *)
(* a batch visits its addresses (alphabetical in the code) is left open.   *)
(***************************************************************************)
EXTENDS FiniteSets, Integers

CONSTANTS
  Batches,      \* close-all jobs
  Pos,          \* position addresses
  Fresh,        \* the addresses of positions not opened yet
  Strategies,   \* strategies with a running executor
  Owner,        \* the managed wallet that can sign for a position, or NoWallet
  NoWallet,     \* owner of a position no managed wallet can close
  NoPos,        \* no position
  NoStrategy,   \* no strategy
  Links0,       \* the positions each strategy is linked to at the start
  Scopes,       \* the address sets the callers ask for
  Viewed,       \* the addresses GET /positions/:address is asked for
  Modes,        \* the send modes requested: "send_first", "confirm_each"
  Pause,        \* pause_linked_strategies
  SlippageBps,  \* options.slippage_bps after validation
  MaxAttempts,  \* WHIRLPOOL_CLOSE_RETRY_ATTEMPTS
  Faults        \* what may go wrong outside: "rpc", "timeout", "wallet"

CLOSE_ALL_MAX_SLIPPAGE_BPS == 2000

ASSUME ConstantsAssumption ==
  /\ IsFiniteSet(Pos)
  /\ Fresh \subseteq Pos
  /\ NoPos \notin Pos
  /\ NoStrategy \notin Strategies
  /\ Links0 \in [Strategies -> SUBSET (Pos \ Fresh)]
  /\ Scopes \subseteq SUBSET Pos
  /\ Viewed \subseteq Pos
  /\ Modes \subseteq {"send_first", "confirm_each"}
  /\ Pause \in BOOLEAN
  /\ SlippageBps \in 0..CLOSE_ALL_MAX_SLIPPAGE_BPS
  /\ MaxAttempts \in Nat \ {0}
  /\ Faults \subseteq {"rpc", "timeout", "wallet"}

VARIABLES
  accounts,  \* positions whose account exists on chain
  unborn,    \* positions not opened yet
  recorded,  \* positions with a close row in the lifecycle ledger and registry
  monitor,   \* PositionMonitor.positions
  adding,    \* add_position calls between their chain read and their insert
  links,     \* parameters.position_addresses of each strategy
  disabled,  \* parameters.executor_disabled_position_addresses
  skip,      \* StrategyExecutor.skip_evaluation_for
  allow,     \* StrategyExecutor.managed_allowlist
  target,    \* StrategyExecutor.managed_target_count
  exec,      \* what the executor of a strategy is doing
  hooks,     \* spawned reopen-hook tasks that are not over
  job,       \* CloseAllJob.status, with the phase of the worker
  mode,      \* its send mode
  item,      \* CloseAllBatchItem.status of each batch and position
  topause,   \* addresses disable_automation_for_positions has still to visit
  touched,   \* the strategies it has already visited
  pausing,   \* what it is doing for the address it visits
  lost,      \* the wallets whose group could not load them
  task,      \* the close of one position by one batch
  tx,        \* its last transaction
  row        \* the last wallet-ledger row with its correlation id

chainVars == <<accounts, unborn, recorded>>
linkVars == <<links, disabled, skip, allow, target>>
execVars == <<exec, hooks>>
monitorVars == <<monitor, adding>>
pauseVars == <<topause, touched, pausing>>
jobVars == <<job, mode, pauseVars, lost>>
closeVars == <<item, task, tx, row>>
vars == <<chainVars, linkVars, execVars, monitorVars, jobVars, closeVars>>

-----------------------------------------------------------------------------
OpenItems == {"queued", "pending", "submitted"}
ClosedItems == {"confirmed", "already"}
Statuses == OpenItems \cup ClosedItems \cup {"none", "failed", "skipped"}

(***************************************************************************)
(* The steps of a close: who runs it (the wallet group, then the spawned   *)
(* finalizer of a send-first close), whether the one retry with a raised   *)
(* slippage is spent, how many transactions were built, and whether the    *)
(* account was found missing.                                              *)
(***************************************************************************)
Steps == {"idle", "snapshot", "lookup", "submit", "poll", "pool", "confirm",
          "unlink", "drop"}
TaskRecord == [pc : Steps, who : {"group", "fin"}, retried : BOOLEAN,
               tries : 0..MaxAttempts, already : BOOLEAN]
IdleTask == [pc |-> "idle", who |-> "group", retried |-> FALSE,
             tries |-> 0, already |-> FALSE]

\* An executor: the position it has taken up, the one it has opened for it, and
\* the positions its pass has still to look at.
ExecPlaces == {"idle", "pass", "refresh", "closing", "opening", "adding", "inserting"}
ExecRecord == [pc : ExecPlaces, old : Pos \cup {NoPos}, new : Pos \cup {NoPos},
               todo : SUBSET Pos]
IdleExec == [pc |-> "idle", old |-> NoPos, new |-> NoPos, todo |-> {}]

\* A pause and a reopen hook visit strategies one by one: the ones still to come,
\* the one at hand, and the list read from its configuration.
PauseRecord == [pc : {"next", "push", "list", "tell"}, pos : Pos \cup {NoPos},
                todo : SUBSET Strategies, at : Strategies \cup {NoStrategy},
                list : SUBSET Pos]
NoPause == [pc |-> "next", pos |-> NoPos, todo |-> {}, at |-> NoStrategy, list |-> {}]
HookRecord == [by : Strategies, old : Pos, new : Pos,
               pc : {"owners", "replace", "read", "set"},
               todo : SUBSET Strategies, at : Strategies \cup {NoStrategy},
               list : SUBSET Pos]

Init ==
  /\ accounts = Pos \ Fresh
  /\ unborn = Fresh
  /\ recorded = {}
  /\ monitor \in SUBSET (Pos \ Fresh)
  /\ adding = {}
  /\ links = Links0
  /\ disabled = [s \in Strategies |-> {}]
  /\ skip = [s \in Strategies |-> {}]
  /\ allow = Links0
  /\ target = [s \in Strategies |-> Cardinality(Links0[s])]
  /\ exec = [s \in Strategies |-> IdleExec]
  /\ hooks = {}
  /\ job = [b \in Batches |-> "none"]
  /\ mode = [b \in Batches |-> "none"]
  /\ item = [b \in Batches |-> [p \in Pos |-> "none"]]
  /\ topause = [b \in Batches |-> {}]
  /\ touched = [b \in Batches |-> {}]
  /\ pausing = [b \in Batches |-> NoPause]
  /\ lost = [b \in Batches |-> {}]
  /\ task = [b \in Batches |-> [p \in Pos |-> IdleTask]]
  /\ tx = [b \in Batches |-> [p \in Pos |-> "none"]]
  /\ row = [b \in Batches |-> [p \in Pos |-> "none"]]

-----------------------------------------------------------------------------
(***************************************************************************)
(* Starting a batch.                                                       *)
(***************************************************************************)

\* The scope "monitored": the monitor without what the registry has closed,
\* and the open positions it misses, read from the chain.
MonitoredAddresses == (monitor \cup accounts) \ recorded

\* A request names its addresses, or takes the monitored ones and excludes some.
RequestedSets == (Scopes \ {{}}) \cup {MonitoredAddresses \cap S : S \in Scopes}

Wallets == {Owner[p] : p \in Pos} \ {NoWallet}

Closable(S) == {p \in S : Owner[p] # NoWallet}

StartBatch(b, S, m) ==
  /\ job[b] = "none"
  /\ mode' = [mode EXCEPT ![b] = m]
  /\ LET todo == Closable(S) IN
       /\ item' = [item EXCEPT ![b] =
            [p \in Pos |-> IF p \in todo THEN "queued"
                           ELSE IF p \in S THEN "skipped" ELSE "none"]]
       /\ job' = [job EXCEPT ![b] = IF todo = {} THEN "done" ELSE "pausing"]
       /\ topause' = [topause EXCEPT ![b] = IF Pause THEN todo ELSE {}]
  /\ UNCHANGED <<chainVars, linkVars, execVars, monitorVars, touched, pausing, lost, task, tx, row>>

(***************************************************************************)
(* disable_automation_for_positions: the holders of one address after the  *)
(* other; a strategy that an earlier address of the batch already reached  *)
(* is passed over.  The holders are read, the list of each is changed,     *)
(* read again and given to its executor in four lock sections.             *)
(***************************************************************************)
Holding(p) == {s \in Strategies : p \in links[s]}

FindHolders(b, p) ==
  /\ job[b] = "pausing" /\ pausing[b].pc = "next" /\ p \in topause[b]
  /\ topause' = [topause EXCEPT ![b] = @ \ {p}]
  /\ touched' = [touched EXCEPT ![b] = @ \cup Holding(p)]
  /\ pausing' = [pausing EXCEPT ![b] =
        IF Holding(p) \subseteq touched[b] THEN NoPause
        ELSE [NoPause EXCEPT !.pc = "push", !.pos = p, !.todo = Holding(p) \ touched[b]]]
  /\ UNCHANGED <<chainVars, linkVars, execVars, monitorVars, job, mode, lost, closeVars>>

PushDisabled(b, s) ==
  /\ pausing[b].pc = "push" /\ s \in pausing[b].todo
  /\ disabled' = [disabled EXCEPT ![s] = @ \cup {pausing[b].pos}]
  /\ pausing' = [pausing EXCEPT ![b].pc = "list", ![b].at = s, ![b].todo = @ \ {s}]
  /\ UNCHANGED <<chainVars, links, skip, allow, target, execVars, monitorVars, job, mode, topause, touched, lost, closeVars>>

ReadDisabled(b) ==
  /\ pausing[b].pc = "list"
  /\ pausing' = [pausing EXCEPT ![b].pc = "tell", ![b].list = disabled[pausing[b].at]]
  /\ UNCHANGED <<chainVars, linkVars, execVars, monitorVars, job, mode, topause, touched, lost, closeVars>>

TellExecutor(b) ==
  /\ pausing[b].pc = "tell"
  /\ skip' = [skip EXCEPT ![pausing[b].at] = pausing[b].list]
  /\ pausing' = [pausing EXCEPT ![b] =
        IF pausing[b].todo = {} THEN NoPause
        ELSE [pausing[b] EXCEPT !.pc = "push", !.at = NoStrategy, !.list = {}]]
  /\ UNCHANGED <<chainVars, links, disabled, allow, target, execVars, monitorVars, job, mode, topause, touched, lost, closeVars>>

\* One task per wallet, which loads the wallet or fails all of its positions.
StartGroups(b) ==
  /\ job[b] = "pausing" /\ topause[b] = {} /\ pausing[b].pc = "next"
  /\ job' = [job EXCEPT ![b] = "closing"]
  /\ touched' = [touched EXCEPT ![b] = {}]
  /\ \E W \in SUBSET (IF "wallet" \in Faults THEN Wallets ELSE {}) :
       lost' = [lost EXCEPT ![b] = W]
  /\ UNCHANGED <<chainVars, linkVars, execVars, monitorVars, mode, topause, pausing, closeVars>>

-----------------------------------------------------------------------------
(***************************************************************************)
(* close_wallet_group: the positions of one wallet one after the other.    *)
(***************************************************************************)
SendFirst(b) == mode[b] = "send_first"

GroupBusy(b, w) ==
  \E p \in Pos : Owner[p] = w /\ task[b][p].pc # "idle" /\ task[b][p].who = "group"

\* Every way out of a close writes the job's item; the task is over with it.
Report(b, p, status) ==
  /\ item' = [item EXCEPT ![b][p] = status]
  /\ task' = [task EXCEPT ![b][p] = IdleTask]

Goto(b, p, pc) == task' = [task EXCEPT ![b][p].pc = pc]

\* The wallet does not load: every position of the group fails.
GroupWithoutWallet(b, p) ==
  /\ job[b] = "closing" /\ item[b][p] = "queued" /\ Owner[p] \in lost[b]
  /\ item' = [item EXCEPT ![b][p] = "failed"]
  /\ UNCHANGED <<chainVars, linkVars, execVars, monitorVars, jobVars, task, tx, row>>

BeginClose(b, p) ==
  /\ job[b] = "closing" /\ item[b][p] = "queued"
  /\ Owner[p] \notin lost[b] /\ ~GroupBusy(b, Owner[p])
  /\ item' = [item EXCEPT ![b][p] = "pending"]
  /\ task' = [task EXCEPT ![b][p] = [IdleTask EXCEPT !.pc = "snapshot"]]
  /\ UNCHANGED <<chainVars, linkVars, execVars, monitorVars, jobVars, tx, row>>

\* A position is known from the monitor, else from its account; the account
\* read may fail.
Known(p) == p \in monitor \/ p \in accounts
Unreadable(p) == p \notin monitor /\ (p \notin accounts \/ "rpc" \in Faults)

\* position_snapshot and the Pending row; without a snapshot there is no row.
Snapshot(b, p) ==
  /\ task[b][p].pc = "snapshot"
  /\ \/ /\ Known(p)
        /\ Goto(b, p, "lookup")
        /\ row' = [row EXCEPT ![b][p] = "pending"]
        /\ UNCHANGED item
     \/ /\ Unreadable(p)
        /\ Report(b, p, "failed")
        /\ UNCHANGED row
  /\ UNCHANGED <<chainVars, linkVars, execVars, monitorVars, jobVars, tx>>

\* The Failed row and the failed item of a close that gives up.
GiveUp(b, p) ==
  /\ Report(b, p, "failed")
  /\ row' = [row EXCEPT ![b][p] = "failed"]

\* The service looks the pool up a second time.
Lookup(b, p) ==
  /\ task[b][p].pc = "lookup"
  /\ \/ Known(p) /\ Goto(b, p, "submit") /\ UNCHANGED <<item, row>>
     \/ Unreadable(p) /\ GiveUp(b, p)
  /\ UNCHANGED <<chainVars, linkVars, execVars, monitorVars, jobVars, tx>>

(***************************************************************************)
(* The Orca executor fetches the account, builds the close and sends it.   *)
(* A missing account is an idempotent success: the position leaves the     *)
(* monitor and the row is Confirmed.                                       *)
(***************************************************************************)
SubmitMissing(b, p) ==
  /\ task[b][p].pc = "submit" /\ task[b][p].tries = 0 /\ p \notin accounts
  /\ monitor' = monitor \ {p}
  /\ row' = [row EXCEPT ![b][p] = "confirmed"]
  /\ task' = [task EXCEPT ![b][p].pc = "unlink", ![b][p].already = TRUE]
  /\ UNCHANGED <<chainVars, linkVars, execVars, adding, jobVars, item, tx>>

\* Sent: a send-first close is Submitted now, the other waits for its
\* confirmation.  A rebuilt close does not fetch the account again.
SubmitSent(b, p) ==
  /\ task[b][p].pc = "submit" /\ p \in accounts
  /\ tx' = [tx EXCEPT ![b][p] = "sent"]
  /\ task' = [task EXCEPT
        ![b][p].pc = IF ~SendFirst(b) THEN "confirm"
                     ELSE IF task[b][p].who = "fin" THEN "pool" ELSE "poll",
        ![b][p].tries = @ + 1]
  /\ item' = IF SendFirst(b) /\ task[b][p].who = "group"
             THEN [item EXCEPT ![b][p] = "submitted"] ELSE item
  /\ UNCHANGED <<chainVars, linkVars, execVars, monitorVars, jobVars, row>>

\* Refused before it is sent: the simulation fails, or the RPC call does.
SubmitError(b, p) ==
  /\ task[b][p].pc = "submit"
  /\ p \in accounts \/ task[b][p].tries > 0 \/ "rpc" \in Faults
  /\ GiveUp(b, p)
  /\ UNCHANGED <<chainVars, linkVars, execVars, monitorVars, jobVars, tx>>

-----------------------------------------------------------------------------
(***************************************************************************)
(* The chain: a sent transaction closes the account, is rejected because   *)
(* the pool moved (6018), fails for another reason, or is never included.  *)
(***************************************************************************)
Resolve(b, p, outcome) ==
  /\ tx[b][p] = "sent"
  /\ outcome \in {"landed", "slippage"} => p \in accounts
  /\ outcome = "dropped" => "timeout" \in Faults
  /\ tx' = [tx EXCEPT ![b][p] = outcome]
  /\ accounts' = IF outcome = "landed" THEN accounts \ {p} ELSE accounts
  /\ UNCHANGED <<unborn, recorded, linkVars, execVars, monitorVars, jobVars, item, task, row>>

\* bump_close_slippage_bps_for_6018_retry: doubled, at least 500, at most 2000.
Bumped == LET twice == 2 * SlippageBps IN
  IF twice < 500 THEN 500
  ELSE IF twice > CLOSE_ALL_MAX_SLIPPAGE_BPS THEN CLOSE_ALL_MAX_SLIPPAGE_BPS ELSE twice

\* One retry with a raised slippage, from the start of the submit.
MayRetry(b, p) ==
  /\ tx[b][p] = "slippage" /\ ~task[b][p].retried /\ Bumped > SlippageBps

\* A wrong RetryHigher: the attempts of the first submit count for the second.
RetryHigherCounting(b, p) ==
  task' = [task EXCEPT ![b][p].pc = "snapshot", ![b][p].retried = TRUE]

RetryHigher(b, p) ==
  task' = [task EXCEPT ![b][p].pc = "snapshot", ![b][p].retried = TRUE, ![b][p].tries = 0]

\* The group polls the signature: on 6018 it retries itself, else it spawns
\* the finalizer and goes on with its next position.
PollRetry(b, p) ==
  /\ task[b][p].pc = "poll" /\ MayRetry(b, p)
  /\ RetryHigher(b, p)
  /\ item' = [item EXCEPT ![b][p] = "pending"]
  /\ UNCHANGED <<chainVars, linkVars, execVars, monitorVars, jobVars, tx, row>>

PollDone(b, p) ==
  /\ task[b][p].pc = "poll" /\ ~MayRetry(b, p)
  /\ tx[b][p] = "sent" => "timeout" \in Faults
  /\ task' = [task EXCEPT ![b][p].pc = "pool", ![b][p].who = "fin"]
  /\ UNCHANGED <<chainVars, linkVars, execVars, monitorVars, jobVars, item, tx, row>>

(***************************************************************************)
(* finalize_close_submit_only looks the pool up a third time, in the       *)
(* monitor or from the account the close may already have removed.         *)
(***************************************************************************)
\* A wrong FinalizeLookup: it waits for a position it cannot read.
FinalizeLookupWaiting(b, p) ==
  /\ task[b][p].pc = "pool" /\ Known(p)
  /\ Goto(b, p, "confirm")
  /\ UNCHANGED <<chainVars, linkVars, execVars, monitorVars, jobVars, item, tx, row>>

FinalizeLookup(b, p) ==
  /\ task[b][p].pc = "pool"
  /\ \/ Known(p) /\ Goto(b, p, "confirm") /\ UNCHANGED <<item, row>>
     \/ Unreadable(p) /\ GiveUp(b, p)
  /\ UNCHANGED <<chainVars, linkVars, execVars, monitorVars, jobVars, tx>>

\* A wrong ConfirmLanded: the rows are written for a transaction that is only sent.
ConfirmUnseen(b, p) ==
  /\ task[b][p].pc = "confirm" /\ tx[b][p] \in {"sent", "landed"}
  /\ recorded' = recorded \cup {p}
  /\ row' = [row EXCEPT ![b][p] = "confirmed"]
  /\ Goto(b, p, "unlink")
  /\ UNCHANGED <<accounts, unborn, linkVars, execVars, monitorVars, jobVars, item, tx>>

\* The confirmed close: lifecycle and registry rows, then the Confirmed row.
ConfirmLanded(b, p) ==
  /\ task[b][p].pc = "confirm" /\ tx[b][p] = "landed"
  /\ recorded' = recorded \cup {p}
  /\ row' = [row EXCEPT ![b][p] = "confirmed"]
  /\ Goto(b, p, "unlink")
  /\ UNCHANGED <<accounts, unborn, linkVars, execVars, monitorVars, jobVars, item, tx>>

\* 6018: a send-first close is submitted once more with a raised slippage
\* after a Failed row, the other is rebuilt up to MaxAttempts times.
ConfirmSlippage(b, p) ==
  /\ task[b][p].pc = "confirm" /\ tx[b][p] = "slippage"
  /\ \/ /\ SendFirst(b) /\ MayRetry(b, p)
        /\ row' = [row EXCEPT ![b][p] = "failed"]
        /\ RetryHigher(b, p)
        /\ UNCHANGED item
     \/ /\ ~SendFirst(b) /\ task[b][p].tries < MaxAttempts
        /\ Goto(b, p, "submit")
        /\ UNCHANGED <<item, row>>
     \/ /\ IF SendFirst(b) THEN ~MayRetry(b, p) ELSE task[b][p].tries >= MaxAttempts
        /\ GiveUp(b, p)
  /\ UNCHANGED <<chainVars, linkVars, execVars, monitorVars, jobVars, tx>>

\* A confirmed close refused with 3007 counts as done when the registry has
\* the position closed.
ConfirmKnownClosed(b, p) ==
  /\ task[b][p].pc = "confirm" /\ ~SendFirst(b)
  /\ tx[b][p] = "error" /\ p \in recorded
  /\ monitor' = monitor \ {p}
  /\ row' = [row EXCEPT ![b][p] = "confirmed"]
  /\ task' = [task EXCEPT ![b][p].pc = "unlink", ![b][p].already = TRUE]
  /\ UNCHANGED <<chainVars, linkVars, execVars, adding, jobVars, item, tx>>

\* Any other failure, the confirmation timeout included, ends the close.
ConfirmFailed(b, p) ==
  /\ task[b][p].pc = "confirm"
  /\ \/ tx[b][p] \in {"error", "dropped"}
     \/ tx[b][p] \in {"sent", "landed"} /\ {"rpc", "timeout"} \cap Faults # {}
  /\ GiveUp(b, p)
  /\ UNCHANGED <<chainVars, linkVars, execVars, monitorVars, jobVars, tx>>

(***************************************************************************)
(* complete_manual_close_success: unlink the position from every strategy, *)
(* then drop it from the monitor and report it.  The allowlist and the     *)
(* skip set of a running executor are left as they are.                    *)
(***************************************************************************)
\* A wrong Unlink: a position found already closed keeps its links.
UnlinkOwnClose(b, p) ==
  /\ task[b][p].pc = "unlink"
  /\ links' = [s \in Strategies |-> IF task[b][p].already THEN links[s] ELSE links[s] \ {p}]
  /\ disabled' = [s \in Strategies |-> disabled[s] \ {p}]
  /\ Goto(b, p, "drop")
  /\ UNCHANGED <<chainVars, skip, allow, target, execVars, monitorVars, jobVars, item, tx, row>>

Unlink(b, p) ==
  /\ task[b][p].pc = "unlink"
  /\ links' = [s \in Strategies |-> links[s] \ {p}]
  /\ disabled' = [s \in Strategies |-> disabled[s] \ {p}]
  /\ Goto(b, p, "drop")
  /\ UNCHANGED <<chainVars, skip, allow, target, execVars, monitorVars, jobVars, item, tx, row>>

Drop(b, p) ==
  /\ task[b][p].pc = "drop"
  /\ monitor' = monitor \ {p}
  /\ Report(b, p, IF task[b][p].already /\ task[b][p].who = "group"
                  THEN "already" ELSE "confirmed")
  /\ UNCHANGED <<chainVars, linkVars, execVars, adding, jobVars, tx, row>>

\* A wrong FinishJob: the groups are joined, their finalizers are not.
FinishJobEarly(b) ==
  /\ job[b] = "closing"
  /\ \A p \in Pos : item[b][p] # "queued" /\ (task[b][p].pc # "idle" => task[b][p].who = "fin")
  /\ job' = [job EXCEPT ![b] = "done"]
  /\ UNCHANGED <<chainVars, linkVars, execVars, monitorVars, mode, pauseVars, lost, closeVars>>

\* The worker joins the groups, each of which joins its finalizers.
FinishJob(b) ==
  /\ job[b] = "closing"
  /\ \A p \in Pos : item[b][p] # "queued" /\ task[b][p].pc = "idle"
  /\ job' = [job EXCEPT ![b] = "done"]
  /\ UNCHANGED <<chainVars, linkVars, execVars, monitorVars, mode, pauseVars, lost, closeVars>>

-----------------------------------------------------------------------------
(***************************************************************************)
(* The executor of a strategy.  A pass takes the monitored positions of    *)
(* its allowlist as they are when it starts; the skip set is read for each *)
(* position before it is refreshed, and not again when it is rotated.      *)
(***************************************************************************)
Resumed(e) == [IdleExec EXCEPT !.pc = IF e.todo = {} THEN "idle" ELSE "pass", !.todo = e.todo]

StartPass(s) ==
  /\ exec[s].pc = "idle" /\ monitor \cap allow[s] # {}
  /\ exec' = [exec EXCEPT ![s] = [IdleExec EXCEPT !.pc = "pass", !.todo = monitor \cap allow[s]]]
  /\ UNCHANGED <<chainVars, linkVars, hooks, monitorVars, jobVars, closeVars>>

TakePosition(s, p) ==
  /\ exec[s].pc = "pass" /\ p \in exec[s].todo
  /\ LET rest == [exec[s] EXCEPT !.todo = @ \ {p}]
     IN exec' = [exec EXCEPT ![s] = IF p \in skip[s] THEN Resumed(rest)
                                    ELSE [rest EXCEPT !.pc = "refresh", !.old = p]]
  /\ UNCHANGED <<chainVars, linkVars, hooks, monitorVars, jobVars, closeVars>>

\* A position that the refresh finds missing leaves the monitor; one that is no
\* longer monitored, cannot be read or is to be held is passed over.
RefreshPosition(s) ==
  /\ exec[s].pc = "refresh"
  /\ \/ /\ exec[s].old \in accounts \cap monitor
        /\ exec' = [exec EXCEPT ![s].pc = "closing"]
        /\ UNCHANGED monitor
     \/ /\ exec' = [exec EXCEPT ![s] = Resumed(@)]
        /\ \/ (exec[s].old \in accounts \/ "rpc" \in Faults) /\ UNCHANGED monitor
           \/ exec[s].old \notin accounts /\ monitor' = monitor \ {exec[s].old}
  /\ UNCHANGED <<chainVars, linkVars, hooks, adding, jobVars, closeVars>>

RotateClose(s) ==
  /\ exec[s].pc = "closing"
  /\ \/ /\ exec[s].old \in accounts
        /\ accounts' = accounts \ {exec[s].old}
        /\ recorded' = recorded \cup {exec[s].old}
        /\ exec' = [exec EXCEPT ![s].pc = "opening"]
     \/ /\ exec[s].old \notin accounts \/ "rpc" \in Faults
        /\ exec' = [exec EXCEPT ![s] = Resumed(@)]
        /\ UNCHANGED <<accounts, recorded>>
  /\ UNCHANGED <<unborn, linkVars, hooks, monitorVars, jobVars, closeVars>>

\* The allowlist exchanges old for new; if it has grown beyond its target
\* size, arbitrary others are trimmed.
Exchanged(s, old, new) ==
  LET grown == (allow[s] \ {old}) \cup {new}
  IN {A \in SUBSET grown :
        /\ new \in A
        /\ IF Cardinality(grown) <= target[s] THEN A = grown
           ELSE Cardinality(A) = IF target[s] = 0 THEN 1 ELSE target[s]}

NewHook(s, old, new) ==
  [by |-> s, old |-> old, new |-> new, pc |-> "owners",
   todo |-> {}, at |-> NoStrategy, list |-> {}]

\* The open after the close: the old position leaves the monitor and the
\* reopen hook is spawned.  A failed open is left to the recovery queue
\* (RebalanceRecovery).
RotateOpen(s) ==
  /\ exec[s].pc = "opening"
  /\ \/ \E q \in unborn :
          /\ unborn' = unborn \ {q}
          /\ accounts' = accounts \cup {q}
          /\ monitor' = monitor \ {exec[s].old}
          /\ \E A \in Exchanged(s, exec[s].old, q) : allow' = [allow EXCEPT ![s] = A]
          /\ hooks' = hooks \cup {NewHook(s, exec[s].old, q)}
          /\ exec' = [exec EXCEPT ![s].pc = "adding", ![s].new = q]
     \/ /\ exec' = [exec EXCEPT ![s] = Resumed(@)]
        /\ UNCHANGED <<unborn, accounts, monitor, allow, hooks>>
  /\ UNCHANGED <<recorded, links, disabled, skip, target, adding, jobVars, closeVars>>

\* The executor awaits add_position of the new position: the chain read, then
\* the insert.
ReadRotated(s) ==
  /\ exec[s].pc = "adding"
  /\ exec' = IF exec[s].new \in accounts THEN [exec EXCEPT ![s].pc = "inserting"]
             ELSE [exec EXCEPT ![s] = Resumed(@)]
  /\ UNCHANGED <<chainVars, linkVars, hooks, monitorVars, jobVars, closeVars>>

InsertRotated(s) ==
  /\ exec[s].pc = "inserting"
  /\ monitor' = monitor \cup {exec[s].new}
  /\ exec' = [exec EXCEPT ![s] = Resumed(@)]
  /\ UNCHANGED <<chainVars, linkVars, hooks, adding, jobVars, closeVars>>

(***************************************************************************)
(* The reopen hook: the strategies that hold the old position, or else the *)
(* one that rotated it, exchange it for the new one; nothing is added      *)
(* where the old one is not found.  The allowlist of each is then set from *)
(* its links, which are read in a section of their own.                    *)
(***************************************************************************)
Becomes(h, next) == hooks' = (hooks \ {h}) \cup {next}

HookOwners(h) ==
  /\ h.pc = "owners"
  /\ LET owners == Holding(h.old)
     IN Becomes(h, [h EXCEPT !.pc = "replace", !.todo = IF owners = {} THEN {h.by} ELSE owners])
  /\ UNCHANGED <<chainVars, linkVars, exec, monitorVars, jobVars, closeVars>>

\* The skip list follows only where the link was found.
HookReplace(h, s) ==
  LET Swap(S) == IF h.old \in S THEN (S \ {h.old}) \cup {h.new} ELSE S
  IN
  /\ h.pc = "replace" /\ s \in h.todo
  /\ links' = [links EXCEPT ![s] = Swap(@)]
  /\ disabled' = IF h.old \in links[s] THEN [disabled EXCEPT ![s] = Swap(@)] ELSE disabled
  /\ Becomes(h, [h EXCEPT !.pc = "read", !.todo = @ \ {s}, !.at = s])
  /\ UNCHANGED <<chainVars, skip, allow, target, exec, monitorVars, jobVars, closeVars>>

HookReadLinks(h) ==
  /\ h.pc = "read"
  /\ Becomes(h, [h EXCEPT !.pc = "set", !.list = links[h.at]])
  /\ UNCHANGED <<chainVars, linkVars, exec, monitorVars, jobVars, closeVars>>

HookSetAllowlist(h) ==
  /\ h.pc = "set"
  /\ allow' = [allow EXCEPT ![h.at] = h.list]
  /\ target' = [target EXCEPT ![h.at] = Cardinality(h.list)]
  /\ IF h.todo = {} THEN hooks' = hooks \ {h}
     ELSE Becomes(h, [h EXCEPT !.pc = "replace", !.at = NoStrategy, !.list = {}])
  /\ UNCHANGED <<chainVars, links, disabled, skip, exec, monitorVars, jobVars, closeVars>>

\* GET /positions/:address of a position the monitor misses: read, then insert.
StartAdd(p) ==
  /\ p \in accounts /\ p \notin monitor /\ p \notin adding
  /\ adding' = adding \cup {p}
  /\ UNCHANGED <<chainVars, linkVars, execVars, monitor, jobVars, closeVars>>

FinishAdd(p) ==
  /\ p \in adding
  /\ adding' = adding \ {p}
  /\ monitor' = monitor \cup {p}
  /\ UNCHANGED <<chainVars, linkVars, execVars, jobVars, closeVars>>

-----------------------------------------------------------------------------
GroupStep(b, p) ==
  \/ GroupWithoutWallet(b, p) \/ BeginClose(b, p)
  \/ Snapshot(b, p) \/ Lookup(b, p)
  \/ SubmitMissing(b, p) \/ SubmitSent(b, p) \/ SubmitError(b, p)
  \/ PollRetry(b, p) \/ PollDone(b, p) \/ FinalizeLookup(b, p)
  \/ ConfirmLanded(b, p) \/ ConfirmSlippage(b, p)
  \/ ConfirmKnownClosed(b, p) \/ ConfirmFailed(b, p)
  \/ Unlink(b, p) \/ Drop(b, p)

ExecutorStep(s) ==
  \/ StartPass(s) \/ RefreshPosition(s)
  \/ \E p \in Pos : TakePosition(s, p)
  \/ RotateClose(s) \/ RotateOpen(s) \/ ReadRotated(s) \/ InsertRotated(s)

HookStep(h) ==
  \/ HookOwners(h) \/ HookReadLinks(h) \/ HookSetAllowlist(h)
  \/ \E s \in Strategies : HookReplace(h, s)

PauseStep(b) ==
  \/ \E p \in Pos : FindHolders(b, p)
  \/ \E s \in Strategies : PushDisabled(b, s)
  \/ ReadDisabled(b) \/ TellExecutor(b)

WorkerStep(b) ==
  \/ PauseStep(b)
  \/ StartGroups(b)
  \/ FinishJob(b)

Outcomes == {"landed", "slippage", "error", "dropped"}

Next ==
  \/ \E b \in Batches, S \in RequestedSets, m \in Modes : StartBatch(b, S, m)
  \/ \E b \in Batches : WorkerStep(b)
  \/ \E b \in Batches, p \in Pos : GroupStep(b, p)
  \/ \E b \in Batches, p \in Pos, o \in Outcomes : Resolve(b, p, o)
  \/ \E s \in Strategies : ExecutorStep(s)
  \/ \E h \in hooks : HookStep(h)
  \/ \E p \in Viewed : StartAdd(p) \/ FinishAdd(p)

\* The spawned tasks of a batch keep running, and the cluster includes or expires
\* every transaction.
Fairness ==
  /\ \A b \in Batches : WF_vars(WorkerStep(b))
  /\ \A b \in Batches, p \in Pos :
       /\ WF_vars(GroupStep(b, p))
       /\ WF_vars(\E o \in Outcomes : Resolve(b, p, o))

Spec == Init /\ [][Next]_vars /\ Fairness

-----------------------------------------------------------------------------
(***************************************************************************)
(* Properties.                                                             *)
(***************************************************************************)

\* Type invariant of the state of the batches, the chain and the executors.
TypeOK ==
  /\ accounts \subseteq Pos /\ unborn \subseteq Fresh /\ recorded \subseteq Pos
  /\ monitor \subseteq Pos /\ adding \subseteq Pos
  /\ links \in [Strategies -> SUBSET Pos] /\ disabled \in [Strategies -> SUBSET Pos]
  /\ skip \in [Strategies -> SUBSET Pos] /\ allow \in [Strategies -> SUBSET Pos]
  /\ target \in [Strategies -> Nat]
  /\ exec \in [Strategies -> ExecRecord]
  /\ hooks \subseteq HookRecord
  /\ job \in [Batches -> {"none", "pausing", "closing", "done"}]
  /\ mode \in [Batches -> Modes \cup {"none"}]
  /\ item \in [Batches -> [Pos -> Statuses]]
  /\ topause \in [Batches -> SUBSET Pos] /\ touched \in [Batches -> SUBSET Strategies]
  /\ pausing \in [Batches -> PauseRecord]
  /\ lost \in [Batches -> SUBSET Wallets]
  /\ task \in [Batches -> [Pos -> TaskRecord]]
  /\ tx \in [Batches -> [Pos -> Outcomes \cup {"none", "sent"}]]
  /\ row \in [Batches -> [Pos -> {"none", "pending", "failed", "confirmed"}]]

Gone == (Pos \ unborn) \ accounts

\* A position the job reports closed is gone from the chain, its last
\* wallet-ledger row is Confirmed and no strategy links it any more, whoever
\* closed it and whichever retry found out (complete_manual_close_success).  A
\* position that a rotation opened is excepted: its reopen hook may link it late.
ClosedIsSettled ==
  \A b \in Batches, p \in Pos : item[b][p] \in ClosedItems =>
    /\ p \in Gone
    /\ row[b][p] = "confirmed"
    /\ p \notin Fresh => \A s \in Strategies : p \notin links[s]

\* What the registry marks closed is gone: the 3007 branch of close_position
\* relies on it, whatever rotations and batches close at the same time.
RecordedIsGone == recorded \subseteq Gone

\* Once the worker has paused the linked strategies, no executor takes up a
\* position of the batch that is still to be closed: each address is in the skip
\* list of the strategies it is linked to (the batch close guard of
\* disable_automation_for_positions).
BatchGuard ==
  [][\A s \in Strategies, b \in Batches, p \in Pos :
       (Pause /\ job[b] = "closing" /\ item[b][p] \in OpenItems /\ p \in links[s])
         => (exec'[s].old = p => exec[s].old = p)]_vars

\* A batch without faults never reports a position Failed whose own close
\* transaction landed (finalize_close_submit_only).
LandedIsNotFailed ==
  \A b \in Batches, p \in Pos : tx[b][p] = "landed" => item[b][p] # "failed"

\* The report of every batch is the one BatchReport promises.
Abs(status) ==
  IF status \in OpenItems THEN "open"
  ELSE IF status \in ClosedItems THEN "closed" ELSE status

Report0 == INSTANCE BatchReport WITH
  gone <- Gone,
  report <- [b \in Batches |-> [p \in Pos |-> Abs(item[b][p])]],
  done <- {b \in Batches : job[b] = "done"}

RefinesBatchReport == Report0!ReportSpec

\* Every accepted batch comes to its end: no group or finalizer waits forever.
BatchEnds == \A b \in Batches : (job[b] # "none") ~> (job[b] = "done")
=============================================================================
