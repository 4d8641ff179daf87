-------------------------- MODULE StrategyLifecycle --------------------------
(***************************************************************************)
(* Starting, restarting, stopping and deleting a strategy over HTTP.       *)
(*                                                                         *)
(* One strategy record, its entry in the map of executors, the executor    *)
(* loops spawned for it and the file the record is saved in.  Handlers run *)
(* concurrently and give every lock back between their steps; a loop is    *)
(* told to stop by an AtomicBool and nobody waits for it to end.           *)
(*                                                                         *)
(* The strategy's configuration is a version number.  Requests refused     *)
(* with 404 or 409 before they change anything are left out, and so are    *)
(* alerts, the optimization_busy map, position links and the monitor.      *)
(***************************************************************************)
EXTENDS Naturals, FiniteSets

CONSTANTS
  Requests,       \* HTTP requests that may be in progress at once
  Instances,      \* StrategyExecutor objects that may exist at once
  NoInstance,     \* the executors map has no entry
  AutoStart,      \* parameters.auto_start of the strategy
  MaxUpdates,     \* bound: configuration updates of a behaviour
  MaxErrors,      \* bound: executor starts that return an error
  MaxRestarts     \* bound: restarts of the API process

ASSUME InstanceAssumption == NoInstance \notin Instances
ASSUME LimitAssumption ==
  /\ AutoStart \in BOOLEAN
  /\ MaxUpdates \in Nat
  /\ MaxErrors \in Nat
  /\ MaxRestarts \in Nat

VARIABLES
  present,        \* the strategies map has the strategy
  running,        \* StrategyState.running
  config,         \* version of StrategyState.config
  mapped,         \* state.executors.get(id)
  saved,          \* data/strategies.json
  loop,           \* instance -> where its spawned task is
  flag,           \* instance -> StrategyExecutor.running
  built,          \* instance -> config version it was built from
  rpc,            \* request -> where its handler is
  target,         \* request -> the instance it has fetched or built
  wasRunning,     \* request -> what update_strategy read first
  snapshot,       \* request -> the record it is about to save
  \* History, to name the circumstances of a behaviour.
  raced,          \* two requests have been in progress at once
  earlyStops,     \* a stop() came before the loop's start() had begun
  errors, restarts

record  == <<present, running, config>>
loops   == <<loop, flag, built>>
local   == <<target, wasRunning, snapshot>>
history == <<raced, earlyStops, errors, restarts>>
vars    == <<record, mapped, saved, loops, rpc, local, history>>

----------------------------------------------------------------------------
Record == [present : BOOLEAN, config : 0..MaxUpdates]

NoRecord == [present |-> FALSE, config |-> 0]

LoopPcs == {"unused", "built", "spawned", "check", "tick", "eval", "stopped"}

RequestPcs == {"free",
               "edit", "save", "replace", "rename",        \* update
               "updateGet", "updateHalt", "updateRemove",
               "get", "halt", "remove", "build", "insert", \* executor core
               "stopHalt", "stopRemove",                   \* stop
               "deleteHalt", "deleteRemove", "drop",       \* delete
               "deleteSave"}

\* The places where a handler works on an executor it has in hand.
Holding == {"halt", "updateHalt", "insert"}

TypeOK ==
  /\ present \in BOOLEAN
  /\ running \in BOOLEAN
  /\ config \in 0..MaxUpdates
  /\ mapped \in Instances \cup {NoInstance}
  /\ saved \in Record
  /\ loop \in [Instances -> LoopPcs]
  /\ flag \in [Instances -> BOOLEAN]
  /\ built \in [Instances -> 0..MaxUpdates]
  /\ rpc \in [Requests -> RequestPcs]
  /\ target \in [Requests -> Instances \cup {NoInstance}]
  /\ \A r \in Requests : rpc[r] \in Holding => target[r] \in Instances
  /\ wasRunning \in [Requests -> BOOLEAN]
  /\ snapshot \in [Requests -> Record]
  /\ raced \in BOOLEAN
  /\ earlyStops \in BOOLEAN
  /\ errors \in 0..MaxErrors
  /\ restarts \in 0..MaxRestarts

Init ==
  /\ present = TRUE
  /\ running = FALSE
  /\ config = 0
  /\ mapped = NoInstance
  /\ saved = [present |-> TRUE, config |-> 0]
  /\ loop = [x \in Instances |-> "unused"]
  /\ flag = [x \in Instances |-> FALSE]
  /\ built = [x \in Instances |-> 0]
  /\ rpc = [r \in Requests |-> "free"]
  /\ target = [r \in Requests |-> NoInstance]
  /\ wasRunning = [r \in Requests |-> FALSE]
  /\ snapshot = [r \in Requests |-> NoRecord]
  /\ raced = FALSE
  /\ earlyStops = FALSE
  /\ errors = 0
  /\ restarts = 0

Goto(r, from, to) == /\ rpc[r] = from
                     /\ rpc' = [rpc EXCEPT ![r] = to]

\* A request arrives; it races with any other that is in progress.
Arrive(r, to) ==
  /\ Goto(r, "free", to)
  /\ raced' = (raced \/ \E q \in Requests \ {r} : rpc[q] # "free")
  /\ UNCHANGED <<earlyStops, errors, restarts>>

\* StrategyExecutor::stop.
Halt(x) ==
  /\ flag' = [flag EXCEPT ![x] = FALSE]
  /\ earlyStops' = (earlyStops \/ loop[x] = "spawned")
  /\ UNCHANGED <<loop, built, raced, errors, restarts>>

\* An executor object nobody refers to any more.
Unreferenced(x) ==
  /\ loop[x] \in {"unused", "stopped"}
  /\ x # mapped
  /\ \A r \in Requests : target[r] # x

----------------------------------------------------------------------------
(* start_strategy, ensure_strategy_running_after_position_link.            *)

StartBegin(r) ==
  /\ Arrive(r, "get")
  /\ present
  /\ ~running
  /\ running' = TRUE
  /\ UNCHANGED <<present, config, mapped, saved, loops, local>>

----------------------------------------------------------------------------
(* start_strategy_executor_core: stop and remove an executor of the same   *)
(* id, build a fresh one, put it into the map and spawn its loop.          *)

\* A wrong Fetch: it does not ask whether the map has an entry.
FetchUnchecked(r) ==
  /\ Goto(r, "get", "halt") \/ Goto(r, "updateGet", "updateHalt")
  /\ target' = [target EXCEPT ![r] = mapped]
  /\ UNCHANGED <<record, mapped, saved, loops, wasRunning, snapshot, history>>

\* Clone the map's entry.  update_strategy does the same with its own copy of
\* these three steps, and removes the entry even when it found none.
Fetch(r) ==
  /\ \/ Goto(r, "get", IF mapped = NoInstance THEN "build" ELSE "halt")
     \/ Goto(r, "updateGet", IF mapped = NoInstance THEN "updateRemove" ELSE "updateHalt")
  /\ target' = [target EXCEPT ![r] = mapped]
  /\ UNCHANGED <<record, mapped, saved, loops, wasRunning, snapshot, history>>

\* A wrong HaltFetched: the replaced executor is not told to stop.
ForgetFetched(r) ==
  /\ Goto(r, "halt", "remove") \/ Goto(r, "updateHalt", "updateRemove")
  /\ target' = [target EXCEPT ![r] = NoInstance]
  /\ UNCHANGED <<record, mapped, saved, loops, wasRunning, snapshot, history>>

HaltFetched(r) ==
  /\ \/ Goto(r, "halt", "remove")
     \/ Goto(r, "updateHalt", "updateRemove")
  /\ Halt(target[r])
  /\ target' = [target EXCEPT ![r] = NoInstance]
  /\ UNCHANGED <<record, mapped, saved, wasRunning, snapshot>>

\* A wrong Remove: the stopped executor stays in the map.
RemoveNothing(r) ==
  /\ \/ Goto(r, "remove", "build")
     \/ Goto(r, "updateRemove", "get")
     \/ Goto(r, "stopRemove", "free")
     \/ Goto(r, "deleteRemove", "drop")
  /\ UNCHANGED <<record, mapped, saved, loops, local, history>>

\* Remove whatever the map holds by now.
Remove(r) ==
  /\ \/ Goto(r, "remove", "build")
     \/ Goto(r, "updateRemove", "get")
     \/ Goto(r, "stopRemove", "free")
     \/ Goto(r, "deleteRemove", "drop")
  /\ mapped' = NoInstance
  /\ UNCHANGED <<record, saved, loops, local, history>>

\* Read the configuration and create the executor.
Build(r, x) ==
  /\ Goto(r, "build", "insert")
  /\ Unreferenced(x)
  /\ loop' = [loop EXCEPT ![x] = "built"]
  /\ flag' = [flag EXCEPT ![x] = FALSE]
  /\ built' = [built EXCEPT ![x] = config]
  /\ target' = [target EXCEPT ![r] = x]
  /\ UNCHANGED <<record, mapped, saved, wasRunning, snapshot, history>>

\* No wallet, or position addresses that are not strings: the request fails
\* and strategy.running stays as the caller set it.
BuildError(r) ==
  /\ Goto(r, "build", "free")
  /\ errors < MaxErrors
  /\ errors' = errors + 1
  /\ UNCHANGED <<record, mapped, saved, loops, local, raced, earlyStops, restarts>>

\* Insert and spawn; an entry that came in between is overwritten.
Insert(r) ==
  /\ Goto(r, "insert", "free")
  /\ mapped' = target[r]
  /\ loop' = [loop EXCEPT ![target[r]] = "spawned"]
  /\ target' = [target EXCEPT ![r] = NoInstance]
  /\ UNCHANGED <<record, saved, flag, built, wasRunning, snapshot, history>>

----------------------------------------------------------------------------
(* update_strategy.                                                        *)

UpdateBegin(r) ==
  /\ Arrive(r, "edit")
  /\ present
  /\ config < MaxUpdates
  /\ wasRunning' = [wasRunning EXCEPT ![r] = running]
  /\ UNCHANGED <<record, mapped, saved, loops, target, snapshot>>

\* Store the new configuration; the strategy may be gone by now.
UpdateEdit(r) ==
  /\ IF present /\ config < MaxUpdates
     THEN /\ Goto(r, "edit", "save")
          /\ config' = config + 1
          /\ UNCHANGED wasRunning
     ELSE /\ Goto(r, "edit", "free")
          /\ wasRunning' = [wasRunning EXCEPT ![r] = FALSE]
          /\ UNCHANGED config
  /\ UNCHANGED <<present, running, mapped, saved, loops, target, snapshot, history>>

----------------------------------------------------------------------------
(* try_persist_strategies_best_effort: clone the records, write them to a  *)
(* temporary file, remove the old file, rename the new one.                *)

Snapshot(r) ==
  /\ rpc[r] \in {"save", "deleteSave"}
  /\ Goto(r, rpc[r], "replace")
  /\ snapshot' = [snapshot EXCEPT ![r] = [present |-> present, config |-> config]]
  /\ UNCHANGED <<record, mapped, saved, loops, target, wasRunning, history>>

RemoveFile(r) ==
  /\ Goto(r, "replace", "rename")
  /\ saved' = NoRecord
  /\ UNCHANGED <<record, mapped, loops, local, history>>

\* A wrong RenameFile: an update does not restart a running strategy.
RenameWithoutRestart(r) ==
  /\ Goto(r, "rename", "free")
  /\ saved' = snapshot[r]
  /\ wasRunning' = [wasRunning EXCEPT ![r] = FALSE]
  /\ snapshot' = [snapshot EXCEPT ![r] = NoRecord]
  /\ UNCHANGED <<record, mapped, loops, target, history>>

\* After the rename an update of a running strategy restarts its executor.
RenameFile(r) ==
  /\ Goto(r, "rename", IF wasRunning[r] THEN "updateGet" ELSE "free")
  /\ saved' = snapshot[r]
  /\ wasRunning' = [wasRunning EXCEPT ![r] = FALSE]
  /\ snapshot' = [snapshot EXCEPT ![r] = NoRecord]
  /\ UNCHANGED <<record, mapped, loops, target, history>>

----------------------------------------------------------------------------
(* stop_strategy and delete_strategy.                                      *)

\* A wrong StopBegin: the record keeps saying the strategy is running.
StopUnrecorded(r) ==
  /\ Arrive(r, "stopHalt")
  /\ present
  /\ running
  /\ UNCHANGED <<record, mapped, saved, loops, local>>

StopBegin(r) ==
  /\ Arrive(r, "stopHalt")
  /\ present
  /\ running
  /\ running' = FALSE
  /\ UNCHANGED <<present, config, mapped, saved, loops, local>>

DeleteBegin(r) ==
  /\ Arrive(r, "deleteHalt")
  /\ present
  /\ running' = FALSE
  /\ UNCHANGED <<present, config, mapped, saved, loops, local>>

\* The map's read lock is held from the lookup to the stop.
HaltListed(r) ==
  /\ \/ Goto(r, "stopHalt", "stopRemove")
     \/ Goto(r, "deleteHalt", "deleteRemove")
  /\ IF mapped = NoInstance
     THEN UNCHANGED <<loops, history>>
     ELSE Halt(mapped)
  /\ UNCHANGED <<record, mapped, saved, local>>

\* Remove the record, unless another delete was faster.
DeleteDrop(r) ==
  /\ Goto(r, "drop", IF present THEN "deleteSave" ELSE "free")
  /\ present' = FALSE
  /\ running' = FALSE
  /\ UNCHANGED <<config, mapped, saved, loops, local, history>>

----------------------------------------------------------------------------
(* StrategyExecutor::start, one spawned task per instance.                 *)

Advance(x, from, to) == /\ loop[x] = from
                        /\ loop' = [loop EXCEPT ![x] = to]

LoopStart(x) ==
  /\ Advance(x, "spawned", "check")
  /\ flag' = [flag EXCEPT ![x] = TRUE]
  /\ UNCHANGED <<record, mapped, saved, built, rpc, local, history>>

\* A wrong LoopCheck: the flag is not read again once the loop is running.
LoopAlways(x) ==
  /\ Advance(x, "check", "tick")
  /\ UNCHANGED <<record, mapped, saved, flag, built, rpc, local, history>>

LoopCheck(x) ==
  /\ Advance(x, "check", IF flag[x] THEN "tick" ELSE "stopped")
  /\ UNCHANGED <<record, mapped, saved, flag, built, rpc, local, history>>

\* The tick has come: evaluate, or go round when the circuit breaker is open.
LoopTick(x) ==
  /\ Advance(x, "tick", "eval") \/ Advance(x, "tick", "check")
  /\ UNCHANGED <<record, mapped, saved, flag, built, rpc, local, history>>

LoopEvaluated(x) ==
  /\ Advance(x, "eval", "check")
  /\ UNCHANGED <<record, mapped, saved, flag, built, rpc, local, history>>

----------------------------------------------------------------------------
\* The API process restarts: records come from the file, none is running, and
\* maybe_autostart_strategies tries to start the strategy before requests are
\* served.
Restart(x, succeeds) ==
  LET auto == AutoStart /\ saved.present /\ succeeds
  IN  /\ restarts < MaxRestarts
      /\ restarts' = restarts + 1
      /\ present' = saved.present
      /\ running' = auto
      /\ config' = saved.config
      /\ mapped' = IF auto THEN x ELSE NoInstance
      /\ loop' = [y \in Instances |-> IF auto /\ y = x THEN "spawned" ELSE "unused"]
      /\ flag' = [y \in Instances |-> FALSE]
      /\ built' = [y \in Instances |-> IF auto /\ y = x THEN saved.config ELSE 0]
      /\ rpc' = [r \in Requests |-> "free"]
      /\ target' = [r \in Requests |-> NoInstance]
      /\ wasRunning' = [r \in Requests |-> FALSE]
      /\ snapshot' = [r \in Requests |-> NoRecord]
      /\ UNCHANGED <<saved, raced, earlyStops, errors>>

Core(r) ==
  \/ Fetch(r)
  \/ HaltFetched(r)
  \/ Remove(r)
  \/ \E x \in Instances : Build(r, x)
  \/ BuildError(r)
  \/ Insert(r)

Persist(r) == Snapshot(r) \/ RemoveFile(r) \/ RenameFile(r)

RequestStep(r) == Core(r) \/ Persist(r) \/ UpdateEdit(r) \/ HaltListed(r) \/ DeleteDrop(r)

Request(r) == StartBegin(r) \/ UpdateBegin(r) \/ StopBegin(r) \/ DeleteBegin(r)

LoopStep(x) == LoopStart(x) \/ LoopCheck(x) \/ LoopTick(x) \/ LoopEvaluated(x)

Next ==
  \/ \E r \in Requests : Request(r) \/ RequestStep(r)
  \/ \E x \in Instances : LoopStep(x) \/ \E succeeds \in BOOLEAN : Restart(x, succeeds)

Spec == Init /\ [][Next]_vars

\* Spawned tasks are scheduled, the ticker ticks and evaluations return; a
\* request that has begun runs to its end.
FairSpec ==
  /\ Spec
  /\ \A r \in Requests : WF_vars(RequestStep(r))
  /\ \A x \in Instances : WF_vars(LoopStep(x))

----------------------------------------------------------------------------
(* Properties.                                                             *)

Idle == \A r \in Requests : rpc[r] = "free"

\* Requests have come one after the other, and each executor's task had begun
\* before it was told to stop.
Orderly == ~raced /\ ~earlyStops

Removing == {"remove", "updateRemove", "stopRemove", "deleteRemove"}

\* However requests interleave, the executor the map lists is one whose loop
\* will evaluate again, or a request is about to remove the entry: status
\* queries and the stop endpoint never find only a dead loop for good.
ListedLoopLives ==
  \/ mapped = NoInstance
  \/ flag[mapped]
  \/ loop[mapped] = "spawned"
  \/ \E r \in Requests : rpc[r] \in Removing

\* Orderly requests leave no loop behind: a loop that will evaluate again is the
\* one in the map, so the next stop or delete reaches it.
NoOrphanLoop ==
  Orderly /\ Idle => \A x \in Instances : flag[x] => x = mapped

\* Between requests that come one after the other a strategy is shown as running
\* exactly when it has an executor, unless a start or update returned an error.
RunningIffListed ==
  ~raced /\ Idle /\ errors = 0 => (running <=> mapped # NoInstance)

\* Between requests that come one after the other the listed executor works with
\* the configuration last stored, and the file holds the record as it is in
\* memory, whatever restarts happened in the middle of earlier ones.
CurrentConfig ==
  ~raced /\ Idle =>
    /\ mapped # NoInstance => built[mapped] = config
    /\ saved.present = present
    /\ present => saved.config = config

\* After an orderly stop or delete every loop of the strategy ends, unless it is
\* started again: the stop flag reaches a loop wherever it is.
StopSilences ==
  (Orderly /\ Idle /\ ~running) ~>
    \/ \A x \in Instances : loop[x] \in {"unused", "built", "stopped"}
    \/ running
    \/ ~Orderly
=============================================================================
