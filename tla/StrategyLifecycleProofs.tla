----------------------- MODULE StrategyLifecycleProofs -----------------------
(***************************************************************************)
(* What holds of StrategyLifecycle for any number of requests, executor    *)
(* objects, updates, errors and restarts.                                  *)
(***************************************************************************)
EXTENDS StrategyLifecycle, TLAPS

\* Every handler step, loop step and restart keeps the state well typed, and a
\* handler that is about to stop or insert an executor has one in hand.
THEOREM LifecycleTypeCorrect == Spec => []TypeOK
<1>1. Init => TypeOK
  <2> SUFFICES ASSUME Init PROVE TypeOK
    OBVIOUS
  <2>1. 0 \in 0..MaxUpdates /\ 0 \in 0..MaxErrors /\ 0 \in 0..MaxRestarts
    BY LimitAssumption
  <2>2. \A r \in Requests : rpc[r] \notin Holding
    BY DEF Init, Holding
  <2> QED
    BY <2>1, <2>2 DEF Init, TypeOK, Record, NoRecord, LoopPcs, RequestPcs
<1>2. TypeOK /\ [Next]_vars => TypeOK'
  <2> SUFFICES ASSUME TypeOK, [Next]_vars PROVE TypeOK'
    OBVIOUS
  <2> USE LimitAssumption, InstanceAssumption DEF TypeOK, Record, NoRecord, LoopPcs,
          RequestPcs, Holding, Goto, record, loops, local, history
  <2>1. ASSUME NEW r \in Requests, StartBegin(r) PROVE TypeOK'
    BY <2>1 DEF StartBegin, Arrive
  <2>2. ASSUME NEW r \in Requests, Fetch(r) PROVE TypeOK'
    BY <2>2 DEF Fetch
  <2>3. ASSUME NEW r \in Requests, HaltFetched(r) PROVE TypeOK'
    BY <2>3 DEF HaltFetched, Halt
  <2>4. ASSUME NEW r \in Requests, Remove(r) PROVE TypeOK'
    BY <2>4 DEF Remove
  <2>5. ASSUME NEW r \in Requests, NEW x \in Instances, Build(r, x) PROVE TypeOK'
    BY <2>5 DEF Build
  <2>6. ASSUME NEW r \in Requests, BuildError(r) PROVE TypeOK'
    BY <2>6 DEF BuildError
  <2>7. ASSUME NEW r \in Requests, Insert(r) PROVE TypeOK'
    BY <2>7 DEF Insert
  <2>8. ASSUME NEW r \in Requests, UpdateBegin(r) PROVE TypeOK'
    BY <2>8 DEF UpdateBegin, Arrive
  <2>9. ASSUME NEW r \in Requests, UpdateEdit(r) PROVE TypeOK'
    <3>1. CASE present /\ config < MaxUpdates
      BY <2>9, <3>1 DEF UpdateEdit
    <3>2. CASE ~(present /\ config < MaxUpdates)
      BY <2>9, <3>2 DEF UpdateEdit
    <3> QED
      BY <3>1, <3>2
  <2>10. ASSUME NEW r \in Requests, Snapshot(r) PROVE TypeOK'
    BY <2>10 DEF Snapshot
  <2>11. ASSUME NEW r \in Requests, RemoveFile(r) PROVE TypeOK'
    BY <2>11 DEF RemoveFile
  <2>12. ASSUME NEW r \in Requests, RenameFile(r) PROVE TypeOK'
    BY <2>12 DEF RenameFile
  <2>13. ASSUME NEW r \in Requests, StopBegin(r) PROVE TypeOK'
    BY <2>13 DEF StopBegin, Arrive
  <2>14. ASSUME NEW r \in Requests, DeleteBegin(r) PROVE TypeOK'
    BY <2>14 DEF DeleteBegin, Arrive
  <2>15. ASSUME NEW r \in Requests, HaltListed(r) PROVE TypeOK'
    BY <2>15 DEF HaltListed, Halt
  <2>16. ASSUME NEW r \in Requests, DeleteDrop(r) PROVE TypeOK'
    BY <2>16 DEF DeleteDrop
  <2>17. ASSUME NEW x \in Instances, LoopStep(x) PROVE TypeOK'
    BY <2>17 DEF LoopStep, LoopStart, LoopCheck, LoopTick, LoopEvaluated, Advance
  <2>18. ASSUME NEW x \in Instances, NEW ok \in BOOLEAN, Restart(x, ok) PROVE TypeOK'
    BY <2>18 DEF Restart
  <2>19. ASSUME UNCHANGED vars PROVE TypeOK'
    BY <2>19 DEF vars
  <2> QED
    BY <2>1, <2>2, <2>3, <2>4, <2>5, <2>6, <2>7, <2>8, <2>9, <2>10, <2>11, <2>12, <2>13,
       <2>14, <2>15, <2>16, <2>17, <2>18, <2>19
    DEF Next, Request, RequestStep, Core, Persist
<1> QED
  BY <1>1, <1>2, PTL DEF Spec

----------------------------------------------------------------------------
\* However many requests interleave, stop, restart and delete never leave the
\* map with an executor that has stopped for good (ListedLoopLives).
THEOREM ListedLives == Spec => []ListedLoopLives
<1>1. Init => ListedLoopLives
  BY DEF Init, ListedLoopLives
<1>2. TypeOK /\ ListedLoopLives /\ [Next]_vars => ListedLoopLives'
  <2> SUFFICES ASSUME TypeOK, ListedLoopLives, [Next]_vars PROVE ListedLoopLives'
    OBVIOUS
  <2> USE DEF ListedLoopLives, TypeOK, Removing, Goto, record, loops, local, history
  <2>1. ASSUME NEW r \in Requests, StartBegin(r) PROVE ListedLoopLives'
    BY <2>1 DEF StartBegin, Arrive
  <2>2. ASSUME NEW r \in Requests, Fetch(r) PROVE ListedLoopLives'
    BY <2>2 DEF Fetch
  <2>3. ASSUME NEW r \in Requests, HaltFetched(r) PROVE ListedLoopLives'
    BY <2>3 DEF HaltFetched, Halt
  <2>4. ASSUME NEW r \in Requests, Remove(r) PROVE ListedLoopLives'
    BY <2>4 DEF Remove
  <2>5. ASSUME NEW r \in Requests, NEW x \in Instances, Build(r, x) PROVE ListedLoopLives'
    BY <2>5 DEF Build, Unreferenced
  <2>6. ASSUME NEW r \in Requests, BuildError(r) PROVE ListedLoopLives'
    BY <2>6 DEF BuildError
  <2>7. ASSUME NEW r \in Requests, Insert(r) PROVE ListedLoopLives'
    BY <2>7 DEF Insert, Holding
  <2>8. ASSUME NEW r \in Requests, UpdateBegin(r) PROVE ListedLoopLives'
    BY <2>8 DEF UpdateBegin, Arrive
  <2>9. ASSUME NEW r \in Requests, UpdateEdit(r) PROVE ListedLoopLives'
    BY <2>9 DEF UpdateEdit
  <2>10. ASSUME NEW r \in Requests, Persist(r) PROVE ListedLoopLives'
    BY <2>10 DEF Persist, Snapshot, RemoveFile, RenameFile
  <2>11. ASSUME NEW r \in Requests, StopBegin(r) \/ DeleteBegin(r) PROVE ListedLoopLives'
    BY <2>11 DEF StopBegin, DeleteBegin, Arrive
  <2>12. ASSUME NEW r \in Requests, HaltListed(r) PROVE ListedLoopLives'
    BY <2>12 DEF HaltListed, Halt
  <2>13. ASSUME NEW r \in Requests, DeleteDrop(r) PROVE ListedLoopLives'
    BY <2>13 DEF DeleteDrop
  <2>14. ASSUME NEW x \in Instances, LoopStep(x) PROVE ListedLoopLives'
    BY <2>14 DEF LoopStep, LoopStart, LoopCheck, LoopTick, LoopEvaluated, Advance
  <2>15. ASSUME NEW x \in Instances, NEW ok \in BOOLEAN, Restart(x, ok)
         PROVE  ListedLoopLives'
    BY <2>15 DEF Restart
  <2>16. ASSUME UNCHANGED vars PROVE ListedLoopLives'
    BY <2>16 DEF vars
  <2> QED
    BY <2>1, <2>2, <2>3, <2>4, <2>5, <2>6, <2>7, <2>8, <2>9, <2>10, <2>11, <2>12, <2>13,
       <2>14, <2>15, <2>16
    DEF Next, Request, RequestStep, Core
<1> QED
  BY <1>1, <1>2, LifecycleTypeCorrect, PTL DEF Spec

----------------------------------------------------------------------------
(* Requests that come one after the other.                                 *)

\* Where update_strategy and delete_strategy are before or in the save.
Saving == {"edit", "save", "replace", "rename"}

\* Where a handler is on its way to a fresh executor.
CorePath == {"get", "halt", "remove", "build", "insert"}

\* The same, with the restart of update_strategy.
StartPath == CorePath \cup {"updateGet", "updateHalt", "updateRemove"}

\* Where a handler is on its way to no executor.
StopPath == {"stopHalt", "stopRemove", "deleteHalt", "deleteRemove", "drop", "deleteSave"}

\* The handler in progress, if any, is the only one.
Alone == \A p, q \in Requests : rpc[p] # "free" /\ rpc[q] # "free" => p = q

\* What the handler in progress knows of the map and of the running flag.
Listing ==
  /\ \A r \in Requests : rpc[r] = "updateHalt" => target[r] = mapped
  /\ \A r \in Requests : rpc[r] \in CorePath \cup {"drop", "deleteSave"} => mapped = NoInstance
  /\ \A r \in Requests : rpc[r] \in StartPath => running
  /\ \A r \in Requests : rpc[r] \in StopPath => ~running
  /\ \A r \in Requests : rpc[r] \in Saving => wasRunning[r] = running
  /\ mapped # NoInstance => running \/ \E r \in Requests : rpc[r] \in StopPath
  /\ running /\ errors = 0 => mapped # NoInstance \/ \E r \in Requests : rpc[r] \in StartPath

\* A loop that will evaluate again is listed, and not listed for removal.
LiveListed ==
  \A x \in Instances :
    flag[x] \/ loop[x] = "spawned" =>
      x = mapped /\ \A r \in Requests : rpc[r] \notin Removing

\* The file lags behind the record only while a handler is about to save.
Synced ==
  /\ \A r \in Requests : rpc[r] \in {"replace", "rename"} =>
       snapshot[r] = [present |-> present, config |-> config]
  /\ \/ \E r \in Requests : rpc[r] \in {"save", "deleteSave", "replace", "rename"}
     \/ saved.present = present /\ (present => saved.config = config)

\* The listed executor lags behind only while an update is about to replace it.
Fresh ==
  /\ \A r \in Requests : rpc[r] = "insert" => built[target[r]] = config
  /\ \/ mapped = NoInstance
     \/ built[mapped] = config
     \/ \E r \in Requests :
          rpc[r] \in {"save", "replace", "rename", "updateGet", "updateHalt", "updateRemove"}

\* The inductive invariant behind NoOrphanLoop, RunningIffListed, CurrentConfig.
OrderlyInv ==
  /\ \A r \in Requests : wasRunning[r] => rpc[r] \in Saving
  /\ ~raced => Alone /\ Listing /\ Synced /\ Fresh
  /\ Orderly => LiveListed

\* Before the first request.
LEMMA OrderlyInit == Init => OrderlyInv
BY DEF Init, OrderlyInv, Alone, Listing, Synced, Fresh, Orderly, LiveListed, CorePath,
       StartPath, StopPath, Saving

\* A request that arrives without a race finds every other handler at rest.
LEMMA ArriveAlone ==
  ASSUME TypeOK, NEW r \in Requests, NEW to, Arrive(r, to), ~raced'
  PROVE  /\ ~raced
         /\ rpc' = [rpc EXCEPT ![r] = to]
         /\ rpc[r] = "free" /\ rpc'[r] = to
         /\ \A q \in Requests : rpc[q] = "free"
         /\ \A q \in Requests : q # r => rpc'[q] = "free"
<1>1. ~raced /\ rpc[r] = "free" /\ rpc' = [rpc EXCEPT ![r] = to]
  BY DEF Arrive, Goto
<1>2. \A q \in Requests \ {r} : rpc[q] = "free"
  BY DEF Arrive
<1> QED
  BY <1>1, <1>2 DEF TypeOK

\* One step per handler step; the handlers that branch are split on the branch.
LEMMA OrderlyStep == TypeOK /\ OrderlyInv /\ [Next]_vars => OrderlyInv'
<1> SUFFICES ASSUME TypeOK, OrderlyInv, [Next]_vars PROVE OrderlyInv'
  OBVIOUS
<1> USE InstanceAssumption, LimitAssumption
    DEF TypeOK, OrderlyInv, Alone, Listing, Synced, Fresh, Orderly, LiveListed, CorePath,
        StartPath, StopPath, Saving, Removing, Holding, Goto, record, loops, local, history
<1>1. ASSUME NEW r \in Requests, StartBegin(r) PROVE OrderlyInv'
  <2>1. (\A q \in Requests : wasRunning[q] => rpc[q] \in Saving)'
    BY <1>1 DEF StartBegin, Arrive
  <2>2. ASSUME ~raced' PROVE Alone'
    <3>1. /\ ~raced
          /\ \A q \in Requests : rpc[q] = "free"
          /\ rpc'[r] = "get"
          /\ \A q \in Requests : q # r => rpc'[q] = "free"
      BY <1>1, <2>2, ArriveAlone DEF StartBegin
    <3> QED
      BY <1>1, <3>1 DEF StartBegin
  <2>3. ASSUME ~raced' PROVE Listing'
    <3>1. /\ ~raced
          /\ \A q \in Requests : rpc[q] = "free"
          /\ rpc'[r] = "get"
          /\ \A q \in Requests : q # r => rpc'[q] = "free"
      BY <1>1, <2>3, ArriveAlone DEF StartBegin
    <3> QED
      BY <1>1, <3>1 DEF StartBegin, Arrive
  <2>4. ASSUME ~raced' PROVE Synced'
    BY <1>1, <2>4 DEF StartBegin, Arrive
  <2>5. ASSUME ~raced' PROVE Fresh'
    BY <1>1, <2>5 DEF StartBegin, Arrive
  <2>6. ASSUME Orderly' PROVE LiveListed'
    BY <1>1, <2>6 DEF StartBegin, Arrive
  <2> QED
    BY <2>1, <2>2, <2>3, <2>4, <2>5, <2>6
<1>2. ASSUME NEW r \in Requests, Fetch(r) PROVE OrderlyInv'
  <2>1. (\A q \in Requests : wasRunning[q] => rpc[q] \in Saving)'
    BY <1>2 DEF Fetch
  <2>2. ASSUME ~raced' PROVE Alone'
    BY <1>2, <2>2 DEF Fetch
  <2>3. ASSUME ~raced' PROVE Listing'
    BY <1>2, <2>3 DEF Fetch
  <2>4. ASSUME ~raced' PROVE Synced'
    BY <1>2, <2>4 DEF Fetch
  <2>5. ASSUME ~raced' PROVE Fresh'
    BY <1>2, <2>5 DEF Fetch
  <2>6. ASSUME Orderly' PROVE LiveListed'
    BY <1>2, <2>6 DEF Fetch
  <2> QED
    BY <2>1, <2>2, <2>3, <2>4, <2>5, <2>6
<1>3. ASSUME NEW r \in Requests, HaltFetched(r) PROVE OrderlyInv'
  <2>1. (\A q \in Requests : wasRunning[q] => rpc[q] \in Saving)'
    BY <1>3 DEF HaltFetched, Halt
  <2>2. ASSUME ~raced' PROVE Alone'
    BY <1>3, <2>2 DEF HaltFetched, Halt
  <2>3. ASSUME ~raced' PROVE Listing'
    BY <1>3, <2>3 DEF HaltFetched, Halt
  <2>4. ASSUME ~raced' PROVE Synced'
    BY <1>3, <2>4 DEF HaltFetched, Halt
  <2>5. ASSUME ~raced' PROVE Fresh'
    BY <1>3, <2>5 DEF HaltFetched, Halt
  <2>6. ASSUME Orderly' PROVE LiveListed'
    BY <1>3, <2>6 DEF HaltFetched, Halt
  <2> QED
    BY <2>1, <2>2, <2>3, <2>4, <2>5, <2>6
<1>4. ASSUME NEW r \in Requests, Remove(r) PROVE OrderlyInv'
  <2>1. (\A q \in Requests : wasRunning[q] => rpc[q] \in Saving)'
    BY <1>4 DEF Remove
  <2>2. ASSUME ~raced' PROVE Alone'
    BY <1>4, <2>2 DEF Remove
  <2>3. ASSUME ~raced' PROVE Listing'
    BY <1>4, <2>3 DEF Remove
  <2>4. ASSUME ~raced' PROVE Synced'
    BY <1>4, <2>4 DEF Remove
  <2>5. ASSUME ~raced' PROVE Fresh'
    BY <1>4, <2>5 DEF Remove
  <2>6. ASSUME Orderly' PROVE LiveListed'
    BY <1>4, <2>6 DEF Remove
  <2> QED
    BY <2>1, <2>2, <2>3, <2>4, <2>5, <2>6
<1>5. ASSUME NEW r \in Requests, NEW x \in Instances, Build(r, x) PROVE OrderlyInv'
  <2>1. (\A q \in Requests : wasRunning[q] => rpc[q] \in Saving)'
    BY <1>5 DEF Build, Unreferenced
  <2>2. ASSUME ~raced' PROVE Alone'
    BY <1>5, <2>2 DEF Build, Unreferenced
  <2>3. ASSUME ~raced' PROVE Listing'
    BY <1>5, <2>3 DEF Build, Unreferenced
  <2>4. ASSUME ~raced' PROVE Synced'
    BY <1>5, <2>4 DEF Build, Unreferenced
  <2>5. ASSUME ~raced' PROVE Fresh'
    BY <1>5, <2>5 DEF Build, Unreferenced
  <2>6. ASSUME Orderly' PROVE LiveListed'
    BY <1>5, <2>6 DEF Build, Unreferenced
  <2> QED
    BY <2>1, <2>2, <2>3, <2>4, <2>5, <2>6
<1>6. ASSUME NEW r \in Requests, BuildError(r) PROVE OrderlyInv'
  <2>1. (\A q \in Requests : wasRunning[q] => rpc[q] \in Saving)'
    BY <1>6 DEF BuildError
  <2>2. ASSUME ~raced' PROVE Alone'
    BY <1>6, <2>2 DEF BuildError
  <2>3. ASSUME ~raced' PROVE Listing'
    BY <1>6, <2>3 DEF BuildError
  <2>4. ASSUME ~raced' PROVE Synced'
    BY <1>6, <2>4 DEF BuildError
  <2>5. ASSUME ~raced' PROVE Fresh'
    BY <1>6, <2>5 DEF BuildError
  <2>6. ASSUME Orderly' PROVE LiveListed'
    BY <1>6, <2>6 DEF BuildError
  <2> QED
    BY <2>1, <2>2, <2>3, <2>4, <2>5, <2>6
<1>7. ASSUME NEW r \in Requests, Insert(r) PROVE OrderlyInv'
  <2>1. (\A q \in Requests : wasRunning[q] => rpc[q] \in Saving)'
    BY <1>7 DEF Insert
  <2>2. ASSUME ~raced' PROVE Alone'
    BY <1>7, <2>2 DEF Insert
  <2>3. ASSUME ~raced' PROVE Listing'
    BY <1>7, <2>3 DEF Insert
  <2>4. ASSUME ~raced' PROVE Synced'
    BY <1>7, <2>4 DEF Insert
  <2>5. ASSUME ~raced' PROVE Fresh'
    BY <1>7, <2>5 DEF Insert
  <2>6. ASSUME Orderly' PROVE LiveListed'
    BY <1>7, <2>6 DEF Insert
  <2> QED
    BY <2>1, <2>2, <2>3, <2>4, <2>5, <2>6
<1>8. ASSUME NEW r \in Requests, UpdateBegin(r) PROVE OrderlyInv'
  <2>1. (\A q \in Requests : wasRunning[q] => rpc[q] \in Saving)'
    BY <1>8 DEF UpdateBegin, Arrive
  <2>2. ASSUME ~raced' PROVE Alone'
    <3>1. /\ ~raced
          /\ \A q \in Requests : rpc[q] = "free"
          /\ rpc'[r] = "edit"
          /\ \A q \in Requests : q # r => rpc'[q] = "free"
      BY <1>8, <2>2, ArriveAlone DEF UpdateBegin
    <3> QED
      BY <1>8, <3>1 DEF UpdateBegin
  <2>3. ASSUME ~raced' PROVE Listing'
    <3>1. /\ ~raced
          /\ \A q \in Requests : rpc[q] = "free"
          /\ rpc'[r] = "edit"
          /\ \A q \in Requests : q # r => rpc'[q] = "free"
      BY <1>8, <2>3, ArriveAlone DEF UpdateBegin
    <3> QED
      BY <1>8, <3>1 DEF UpdateBegin, Arrive
  <2>4. ASSUME ~raced' PROVE Synced'
    BY <1>8, <2>4 DEF UpdateBegin, Arrive
  <2>5. ASSUME ~raced' PROVE Fresh'
    BY <1>8, <2>5 DEF UpdateBegin, Arrive
  <2>6. ASSUME Orderly' PROVE LiveListed'
    BY <1>8, <2>6 DEF UpdateBegin, Arrive
  <2> QED
    BY <2>1, <2>2, <2>3, <2>4, <2>5, <2>6
<1>9. ASSUME NEW r \in Requests, UpdateEdit(r) PROVE OrderlyInv'
  <2>1. (\A q \in Requests : wasRunning[q] => rpc[q] \in Saving)'
    BY <1>9 DEF UpdateEdit
  <2>2. ASSUME ~raced' PROVE Alone'
    BY <1>9, <2>2 DEF UpdateEdit
  <2>3. ASSUME ~raced' PROVE Listing'
    BY <1>9, <2>3 DEF UpdateEdit
  <2>4. ASSUME ~raced' PROVE Synced'
    BY <1>9, <2>4 DEF UpdateEdit
  <2>5. ASSUME ~raced' PROVE Fresh'
    BY <1>9, <2>5 DEF UpdateEdit
  <2>6. ASSUME Orderly' PROVE LiveListed'
    BY <1>9, <2>6 DEF UpdateEdit
  <2> QED
    BY <2>1, <2>2, <2>3, <2>4, <2>5, <2>6
<1>10. ASSUME NEW r \in Requests, Snapshot(r) PROVE OrderlyInv'
  <2>1. (\A q \in Requests : wasRunning[q] => rpc[q] \in Saving)'
    BY <1>10 DEF Snapshot
  <2>2. ASSUME ~raced' PROVE Alone'
    BY <1>10, <2>2 DEF Snapshot
  <2>3. ASSUME ~raced' PROVE Listing'
    BY <1>10, <2>3 DEF Snapshot
  <2>4. ASSUME ~raced' PROVE Synced'
    BY <1>10, <2>4 DEF Snapshot
  <2>5. ASSUME ~raced' PROVE Fresh'
    BY <1>10, <2>5 DEF Snapshot
  <2>6. ASSUME Orderly' PROVE LiveListed'
    BY <1>10, <2>6 DEF Snapshot
  <2> QED
    BY <2>1, <2>2, <2>3, <2>4, <2>5, <2>6
<1>11. ASSUME NEW r \in Requests, RemoveFile(r) PROVE OrderlyInv'
  <2>1. (\A q \in Requests : wasRunning[q] => rpc[q] \in Saving)'
    BY <1>11 DEF RemoveFile
  <2>2. ASSUME ~raced' PROVE Alone'
    BY <1>11, <2>2 DEF RemoveFile
  <2>3. ASSUME ~raced' PROVE Listing'
    BY <1>11, <2>3 DEF RemoveFile
  <2>4. ASSUME ~raced' PROVE Synced'
    BY <1>11, <2>4 DEF RemoveFile
  <2>5. ASSUME ~raced' PROVE Fresh'
    BY <1>11, <2>5 DEF RemoveFile
  <2>6. ASSUME Orderly' PROVE LiveListed'
    BY <1>11, <2>6 DEF RemoveFile
  <2> QED
    BY <2>1, <2>2, <2>3, <2>4, <2>5, <2>6
<1>12. ASSUME NEW r \in Requests, RenameFile(r) PROVE OrderlyInv'
  <2>1. CASE wasRunning[r]
    <3>1. (\A q \in Requests : wasRunning[q] => rpc[q] \in Saving)'
      BY <1>12, <2>1 DEF RenameFile
    <3>2. ASSUME ~raced' PROVE Alone'
      BY <1>12, <2>1, <3>2 DEF RenameFile
    <3>3. ASSUME ~raced' PROVE Listing'
      <4>1. rpc[r] = "rename" /\ rpc' = [rpc EXCEPT ![r] = "updateGet"] /\ ~raced
        BY <1>12, <2>1, <3>3 DEF RenameFile
      <4>2. running /\ running'
        BY <1>12, <2>1, <4>1 DEF RenameFile
      <4>3. \A q \in Requests : q # r => rpc[q] = "free" /\ rpc'[q] = "free"
        BY <4>1
      <4>4. rpc'[r] = "updateGet" /\ \A q \in Requests : rpc'[q] \in {"free", "updateGet"}
        BY <4>1, <4>3
      <4>5. \A q \in Requests : rpc'[q] \notin StopPath \cup CorePath \cup Saving \cup {"updateHalt"}
        BY <4>4
      <4>6. \E q \in Requests : rpc'[q] \in StartPath
        BY <4>4
      <4> QED
        BY <4>2, <4>5, <4>6
    <3>4. ASSUME ~raced' PROVE Synced'
      BY <1>12, <2>1, <3>4 DEF RenameFile
    <3>5. ASSUME ~raced' PROVE Fresh'
      BY <1>12, <2>1, <3>5 DEF RenameFile
    <3>6. ASSUME Orderly' PROVE LiveListed'
      BY <1>12, <2>1, <3>6 DEF RenameFile
    <3> QED
      BY <3>1, <3>2, <3>3, <3>4, <3>5, <3>6
  <2>2. CASE ~wasRunning[r]
    <3>1. (\A q \in Requests : wasRunning[q] => rpc[q] \in Saving)'
      BY <1>12, <2>2 DEF RenameFile
    <3>2. ASSUME ~raced' PROVE Alone'
      BY <1>12, <2>2, <3>2 DEF RenameFile
    <3>3. ASSUME ~raced' PROVE Listing'
      BY <1>12, <2>2, <3>3 DEF RenameFile
    <3>4. ASSUME ~raced' PROVE Synced'
      BY <1>12, <2>2, <3>4 DEF RenameFile
    <3>5. ASSUME ~raced' PROVE Fresh'
      BY <1>12, <2>2, <3>5 DEF RenameFile
    <3>6. ASSUME Orderly' PROVE LiveListed'
      BY <1>12, <2>2, <3>6 DEF RenameFile
    <3> QED
      BY <3>1, <3>2, <3>3, <3>4, <3>5, <3>6
  <2> QED
    BY <2>1, <2>2
<1>13. ASSUME NEW r \in Requests, StopBegin(r) PROVE OrderlyInv'
  <2>1. (\A q \in Requests : wasRunning[q] => rpc[q] \in Saving)'
    BY <1>13 DEF StopBegin, Arrive
  <2>2. ASSUME ~raced' PROVE Alone'
    <3>1. /\ ~raced
          /\ \A q \in Requests : rpc[q] = "free"
          /\ rpc'[r] = "stopHalt"
          /\ \A q \in Requests : q # r => rpc'[q] = "free"
      BY <1>13, <2>2, ArriveAlone DEF StopBegin
    <3> QED
      BY <1>13, <3>1 DEF StopBegin
  <2>3. ASSUME ~raced' PROVE Listing'
    <3>1. /\ ~raced
          /\ \A q \in Requests : rpc[q] = "free"
          /\ rpc'[r] = "stopHalt"
          /\ \A q \in Requests : q # r => rpc'[q] = "free"
      BY <1>13, <2>3, ArriveAlone DEF StopBegin
    <3> QED
      BY <1>13, <3>1 DEF StopBegin, Arrive
  <2>4. ASSUME ~raced' PROVE Synced'
    BY <1>13, <2>4 DEF StopBegin, Arrive
  <2>5. ASSUME ~raced' PROVE Fresh'
    BY <1>13, <2>5 DEF StopBegin, Arrive
  <2>6. ASSUME Orderly' PROVE LiveListed'
    BY <1>13, <2>6 DEF StopBegin, Arrive
  <2> QED
    BY <2>1, <2>2, <2>3, <2>4, <2>5, <2>6
<1>14. ASSUME NEW r \in Requests, DeleteBegin(r) PROVE OrderlyInv'
  <2>1. (\A q \in Requests : wasRunning[q] => rpc[q] \in Saving)'
    BY <1>14 DEF DeleteBegin, Arrive
  <2>2. ASSUME ~raced' PROVE Alone'
    <3>1. /\ ~raced
          /\ \A q \in Requests : rpc[q] = "free"
          /\ rpc'[r] = "deleteHalt"
          /\ \A q \in Requests : q # r => rpc'[q] = "free"
      BY <1>14, <2>2, ArriveAlone DEF DeleteBegin
    <3> QED
      BY <1>14, <3>1 DEF DeleteBegin
  <2>3. ASSUME ~raced' PROVE Listing'
    <3>1. /\ ~raced
          /\ \A q \in Requests : rpc[q] = "free"
          /\ rpc'[r] = "deleteHalt"
          /\ \A q \in Requests : q # r => rpc'[q] = "free"
      BY <1>14, <2>3, ArriveAlone DEF DeleteBegin
    <3> QED
      BY <1>14, <3>1 DEF DeleteBegin, Arrive
  <2>4. ASSUME ~raced' PROVE Synced'
    BY <1>14, <2>4 DEF DeleteBegin, Arrive
  <2>5. ASSUME ~raced' PROVE Fresh'
    BY <1>14, <2>5 DEF DeleteBegin, Arrive
  <2>6. ASSUME Orderly' PROVE LiveListed'
    BY <1>14, <2>6 DEF DeleteBegin, Arrive
  <2> QED
    BY <2>1, <2>2, <2>3, <2>4, <2>5, <2>6
<1>15. ASSUME NEW r \in Requests, HaltListed(r) PROVE OrderlyInv'
  <2>1. CASE mapped = NoInstance
    BY <1>15, <2>1 DEF HaltListed
  <2>2. CASE mapped # NoInstance /\ Goto(r, "stopHalt", "stopRemove")
    <3>1. (\A q \in Requests : wasRunning[q] => rpc[q] \in Saving)'
      BY <1>15, <2>2 DEF HaltListed, Halt
    <3>2. ASSUME ~raced' PROVE Alone'
      BY <1>15, <2>2, <3>2 DEF HaltListed, Halt
    <3>3. ASSUME ~raced' PROVE Listing'
      BY <1>15, <2>2, <3>3 DEF HaltListed, Halt
    <3>4. ASSUME ~raced' PROVE Synced'
      BY <1>15, <2>2, <3>4 DEF HaltListed, Halt
    <3>5. ASSUME ~raced' PROVE Fresh'
      BY <1>15, <2>2, <3>5 DEF HaltListed, Halt
    <3>6. ASSUME Orderly' PROVE LiveListed'
      <4> SUFFICES ASSUME NEW x \in Instances, flag'[x] \/ loop'[x] = "spawned"
                   PROVE  FALSE
        OBVIOUS
      <4>1. ~raced /\ ~earlyStops /\ loop[mapped] # "spawned" /\ loop' = loop
        BY <1>15, <2>2, <3>6 DEF HaltListed, Halt
      <4>2. x = mapped
        BY <1>15, <2>2, <4>1 DEF HaltListed, Halt
      <4> QED
        BY <1>15, <2>2, <4>1, <4>2 DEF HaltListed, Halt
    <3> QED
      BY <3>1, <3>2, <3>3, <3>4, <3>5, <3>6
  <2>3. CASE mapped # NoInstance /\ Goto(r, "deleteHalt", "deleteRemove")
    <3>1. (\A q \in Requests : wasRunning[q] => rpc[q] \in Saving)'
      BY <1>15, <2>3 DEF HaltListed, Halt
    <3>2. ASSUME ~raced' PROVE Alone'
      BY <1>15, <2>3, <3>2 DEF HaltListed, Halt
    <3>3. ASSUME ~raced' PROVE Listing'
      BY <1>15, <2>3, <3>3 DEF HaltListed, Halt
    <3>4. ASSUME ~raced' PROVE Synced'
      BY <1>15, <2>3, <3>4 DEF HaltListed, Halt
    <3>5. ASSUME ~raced' PROVE Fresh'
      BY <1>15, <2>3, <3>5 DEF HaltListed, Halt
    <3>6. ASSUME Orderly' PROVE LiveListed'
      <4> SUFFICES ASSUME NEW x \in Instances, flag'[x] \/ loop'[x] = "spawned"
                   PROVE  FALSE
        OBVIOUS
      <4>1. ~raced /\ ~earlyStops /\ loop[mapped] # "spawned" /\ loop' = loop
        BY <1>15, <2>3, <3>6 DEF HaltListed, Halt
      <4>2. x = mapped
        BY <1>15, <2>3, <4>1 DEF HaltListed, Halt
      <4> QED
        BY <1>15, <2>3, <4>1, <4>2 DEF HaltListed, Halt
    <3> QED
      BY <3>1, <3>2, <3>3, <3>4, <3>5, <3>6
  <2> QED
    BY <1>15, <2>1, <2>2, <2>3 DEF HaltListed
<1>16. ASSUME NEW r \in Requests, DeleteDrop(r) PROVE OrderlyInv'
  <2>1. CASE present
    <3>1. (\A q \in Requests : wasRunning[q] => rpc[q] \in Saving)'
      BY <1>16, <2>1 DEF DeleteDrop
    <3>2. ASSUME ~raced' PROVE Alone'
      BY <1>16, <2>1, <3>2 DEF DeleteDrop
    <3>3. ASSUME ~raced' PROVE Listing'
      BY <1>16, <2>1, <3>3 DEF DeleteDrop
    <3>4. ASSUME ~raced' PROVE Synced'
      BY <1>16, <2>1, <3>4 DEF DeleteDrop
    <3>5. ASSUME ~raced' PROVE Fresh'
      BY <1>16, <2>1, <3>5 DEF DeleteDrop
    <3>6. ASSUME Orderly' PROVE LiveListed'
      BY <1>16, <2>1, <3>6 DEF DeleteDrop
    <3> QED
      BY <3>1, <3>2, <3>3, <3>4, <3>5, <3>6
  <2>2. CASE ~present
    <3>1. (\A q \in Requests : wasRunning[q] => rpc[q] \in Saving)'
      BY <1>16, <2>2 DEF DeleteDrop
    <3>2. ASSUME ~raced' PROVE Alone'
      BY <1>16, <2>2, <3>2 DEF DeleteDrop
    <3>3. ASSUME ~raced' PROVE Listing'
      BY <1>16, <2>2, <3>3 DEF DeleteDrop
    <3>4. ASSUME ~raced' PROVE Synced'
      BY <1>16, <2>2, <3>4 DEF DeleteDrop
    <3>5. ASSUME ~raced' PROVE Fresh'
      BY <1>16, <2>2, <3>5 DEF DeleteDrop
    <3>6. ASSUME Orderly' PROVE LiveListed'
      BY <1>16, <2>2, <3>6 DEF DeleteDrop
    <3> QED
      BY <3>1, <3>2, <3>3, <3>4, <3>5, <3>6
  <2> QED
    BY <2>1, <2>2
<1>17. ASSUME NEW x \in Instances, LoopStep(x) PROVE OrderlyInv'
  <2>1. (\A q \in Requests : wasRunning[q] => rpc[q] \in Saving)'
    BY <1>17 DEF LoopStep, LoopStart, LoopCheck, LoopTick, LoopEvaluated, Advance
  <2>2. ASSUME ~raced' PROVE Alone'
    BY <1>17, <2>2 DEF LoopStep, LoopStart, LoopCheck, LoopTick, LoopEvaluated, Advance
  <2>3. ASSUME ~raced' PROVE Listing'
    BY <1>17, <2>3 DEF LoopStep, LoopStart, LoopCheck, LoopTick, LoopEvaluated, Advance
  <2>4. ASSUME ~raced' PROVE Synced'
    BY <1>17, <2>4 DEF LoopStep, LoopStart, LoopCheck, LoopTick, LoopEvaluated, Advance
  <2>5. ASSUME ~raced' PROVE Fresh'
    BY <1>17, <2>5 DEF LoopStep, LoopStart, LoopCheck, LoopTick, LoopEvaluated, Advance
  <2>6. ASSUME Orderly' PROVE LiveListed'
    BY <1>17, <2>6 DEF LoopStep, LoopStart, LoopCheck, LoopTick, LoopEvaluated, Advance
  <2> QED
    BY <2>1, <2>2, <2>3, <2>4, <2>5, <2>6
<1>18. ASSUME NEW x \in Instances, NEW ok \in BOOLEAN, Restart(x, ok) PROVE OrderlyInv'
  <2>1. (\A q \in Requests : wasRunning[q] => rpc[q] \in Saving)'
    BY <1>18 DEF Restart
  <2>2. ASSUME ~raced' PROVE Alone'
    BY <1>18, <2>2 DEF Restart
  <2>3. ASSUME ~raced' PROVE Listing'
    BY <1>18, <2>3 DEF Restart
  <2>4. ASSUME ~raced' PROVE Synced'
    BY <1>18, <2>4 DEF Restart
  <2>5. ASSUME ~raced' PROVE Fresh'
    BY <1>18, <2>5 DEF Restart
  <2>6. ASSUME Orderly' PROVE LiveListed'
    BY <1>18, <2>6 DEF Restart
  <2> QED
    BY <2>1, <2>2, <2>3, <2>4, <2>5, <2>6
<1>19. ASSUME UNCHANGED vars PROVE OrderlyInv'
  BY <1>19 DEF vars
<1> QED
  BY <1>1, <1>2, <1>3, <1>4, <1>5, <1>6, <1>7, <1>8, <1>9, <1>10, <1>11, <1>12, <1>13, <1>14, <1>15, <1>16, <1>17, <1>18, <1>19
  DEF Next, Request, RequestStep, Core, Persist

\* The strengthened invariant holds throughout.
LEMMA OrderlyInvariant == Spec => [](TypeOK /\ OrderlyInv)
BY OrderlyInit, OrderlyStep, LifecycleTypeCorrect, PTL DEF Spec

\* Requests that come one after the other, each stopping only executors whose
\* task has begun, leave no loop that the next stop could not reach.
THEOREM OrphansNeedRaces == Spec => []NoOrphanLoop
<1>1. TypeOK /\ OrderlyInv => NoOrphanLoop
  BY DEF OrderlyInv, NoOrphanLoop, LiveListed, Orderly
<1> QED
  BY <1>1, OrderlyInvariant, PTL

\* Between such requests strategy.running tells whether there is an executor.
THEOREM RunningIsListed == Spec => []RunningIffListed
<1>1. TypeOK /\ OrderlyInv => RunningIffListed
  BY DEF OrderlyInv, RunningIffListed, Listing, StartPath, CorePath, StopPath, Idle
<1> QED
  BY <1>1, OrderlyInvariant, PTL

\* Between such requests neither the listed executor nor the file is stale.
THEOREM ConfigIsCurrent == Spec => []CurrentConfig
<1>1. TypeOK /\ OrderlyInv => CurrentConfig
  BY DEF OrderlyInv, CurrentConfig, Synced, Fresh, Idle
<1> QED
  BY <1>1, OrderlyInvariant, PTL
=============================================================================
