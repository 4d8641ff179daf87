----------------------- MODULE RebalanceRecoveryProofs -----------------------
(***************************************************************************)
(* What holds of RebalanceRecovery for any executors, sessions, owners,    *)
(* limits and switches, and any number of failures and restarts.           *)
(***************************************************************************)
EXTENDS RebalanceRecovery, TLAPS

\* The places where a task works on a session.
Working == {"screen", "ledger", "completed", "inflight", "open", "openRow", "release",
            "releaseDone", "mark", "done", "fail", "close", "closeRow"}

\* A task has a session and a mode exactly while it works on one; the screening
\* of an item belongs to a recovery, the close to a rebalance.
Occupied ==
  /\ \A e \in Executors :
       /\ pc[e] \in Working => cur[e] \in Sessions /\ mode[e] # "none"
       /\ pc[e] \notin Working => cur[e] = NoSession /\ mode[e] = "none"
       /\ pc[e] = "screen" => mode[e] = "recover"
       /\ pc[e] \in {"close", "closeRow"} => mode[e] = "rebalance"
  /\ dpc # "idle" => dsid \in Sessions

\* The type invariant, with every task where it can be.
Typed == TypeOK /\ Occupied

\* Wherever the session of a task or of a queue comes from, it has been closed.
OnlyClosed ==
  /\ ReopenOnlyClosed
  /\ file.queued \subseteq closed
  /\ wstore.queued \subseteq closed
  /\ dstore.queued \subseteq closed
  /\ closeRows \subseteq closed
  /\ wrows \subseteq closed
  /\ \A e \in Executors :
       /\ todo[e] \subseteq closed
       /\ store[e].queued \subseteq closed
       /\ pc[e] \in Working \ {"close"} => cur[e] \in closed

----------------------------------------------------------------------------
(* The pending-open store.                                                 *)

\* The store an absent or truncated file is read as is a store.
LEMMA EmptyStoreType == EmptyStore \in StoreType
BY BoundAssumption DEF EmptyStore, StoreType

\* upsert of a session with a legal number of attempts keeps the store typed.
LEMMA UpsertType ==
  ASSUME NEW st \in StoreType, NEW s \in Sessions, NEW n \in 0..MaxAttempts
  PROVE  Upsert(st, s, n) \in StoreType /\ Upsert(st, s, n).queued = st.queued \cup {s}
<1>1. [st.attempts EXCEPT ![s] = n] \in [Sessions -> 0..MaxAttempts]
  BY DEF StoreType
<1> QED
  BY <1>1 DEF Upsert, StoreType

\* Counting an attempt below the limit keeps the store typed and its queue.
LEMMA CountAttemptType ==
  ASSUME NEW st \in StoreType, NEW s \in Sessions, st.attempts[s] < MaxAttempts
  PROVE  CountAttempt(st, s) \in StoreType /\ CountAttempt(st, s).queued = st.queued
<1>1. st.attempts \in [Sessions -> 0..MaxAttempts]
  BY DEF StoreType
<1>2. st.attempts[s] + 1 \in 0..MaxAttempts
  BY <1>1, BoundAssumption
<1>3. [st.attempts EXCEPT ![s] = st.attempts[s] + 1] \in [Sessions -> 0..MaxAttempts]
  BY <1>1, <1>2
<1> QED
  BY <1>3 DEF CountAttempt, StoreType

\* Dropping an item keeps the store typed and adds nothing to the queue.
LEMMA PruneType ==
  ASSUME NEW st \in StoreType, NEW s \in Sessions
  PROVE  Prune(st, s) \in StoreType /\ Prune(st, s).queued \subseteq st.queued
<1>1. [st.attempts EXCEPT ![s] = 0] \in [Sessions -> 0..MaxAttempts]
  BY BoundAssumption DEF StoreType
<1> QED
  BY <1>1 DEF Prune, StoreType

\* Keeping an item keeps the store typed and queues only that item.
LEMMA KeptType ==
  ASSUME NEW e \in Executors, store \in [Executors -> StoreType], cur[e] \in Sessions
  PROVE  /\ Kept(e) \in StoreType
         /\ Kept(e).queued = store[e].queued \cup {cur[e]}
         /\ KeptIfAttemptsRemain(e) \in StoreType
         /\ KeptIfAttemptsRemain(e).queued \subseteq store[e].queued \cup {cur[e]}
<1>1. Kept(e) \in StoreType /\ Kept(e).queued = store[e].queued \cup {cur[e]}
  BY DEF Kept, StoreType
<1> QED
  BY <1>1, PruneType DEF KeptIfAttemptsRemain

----------------------------------------------------------------------------
\* The initial state is typed and idle.
LEMMA TypedInit == Init => Typed
<1> SUFFICES ASSUME Init PROVE Typed
  OBVIOUS
<1>1. 0 \in 0..(MaxOpenTries - 1) /\ 0 \in 0..MaxFailures /\ 0 \in 0..MaxCrashes
  BY BoundAssumption
<1>2. TypeOK
  BY <1>1, EmptyStoreType DEF Init, TypeOK, Pcs, Modes
<1>3. Occupied
  BY DEF Init, Occupied, Working
<1> QED
  BY <1>2, <1>3 DEF Typed

\* One step per action of the executors, the watchdog, the operator and the crash.
LEMMA TypedStep == Typed /\ [Next]_vars => Typed'
<1> SUFFICES ASSUME Typed, [Next]_vars PROVE Typed'
  OBVIOUS
<1> USE BoundAssumption, SwitchAssumption, SessionAssumption, EmptyStoreType
    DEF Typed, TypeOK, Occupied, Working, Pcs, Modes, Goto, Failure, chain, files, statics,
        tasks, wvars, dvars, bounds
<1>1. ASSUME NEW e \in Executors, LoadPass(e) PROVE Typed'
  <2>1. CASE file.queued = {}
    BY <1>1, <2>1 DEF LoadPass
  <2>2. CASE file.queued # {}
    <3>1. [file EXCEPT !.queued = {}] \in StoreType
      BY DEF StoreType
    <3>2. file.queued \subseteq Sessions
      BY DEF StoreType
    <3>3. /\ pc' = [pc EXCEPT ![e] = "items"]
          /\ todo' = [todo EXCEPT ![e] = file.queued]
          /\ store' = [store EXCEPT ![e] = [file EXCEPT !.queued = {}]]
      BY <1>1, <2>2 DEF LoadPass
    <3>4. store' \in [Executors -> StoreType]
      BY <3>1, <3>3
    <3>5. todo' \in [Executors -> SUBSET Sessions]
      BY <3>2, <3>3
    <3> QED
      BY <1>1, <2>2, <3>3, <3>4, <3>5 DEF LoadPass
  <2> QED
    BY <2>1, <2>2
<1>2. ASSUME NEW e \in Executors, NEW s \in Sessions, ClaimItem(e, s) PROVE Typed'
  <2>1. CASE s \in claims
    <3>1. [store[e] EXCEPT !.queued = @ \cup {s}] \in StoreType
      BY DEF StoreType
    <3>2. store' = [store EXCEPT ![e] = [store[e] EXCEPT !.queued = @ \cup {s}]]
      BY <1>2, <2>1 DEF ClaimItem
    <3> QED
      BY <1>2, <2>1, <3>1, <3>2 DEF ClaimItem
  <2>2. CASE s \notin claims
    BY <1>2, <2>2 DEF ClaimItem
  <2> QED
    BY <2>1, <2>2
<1>3. ASSUME NEW e \in Executors, DropItem(e) PROVE Typed'
  <2>1. pc[e] = "screen" /\ cur[e] \in Sessions
    BY <1>3 DEF DropItem
  <2>2. Prune(store[e], cur[e]) \in StoreType
    BY <2>1, PruneType
  <2> QED
    BY <1>3, <2>1, <2>2 DEF DropItem, ReleaseClaim
<1>4. ASSUME NEW e \in Executors, DeferItem(e) PROVE Typed'
  <2>1. pc[e] = "screen" /\ cur[e] \in Sessions
    BY <1>4 DEF DeferItem
  <2>2. Kept(e) \in StoreType
    BY <2>1, KeptType
  <2> QED
    BY <1>4, <2>1, <2>2 DEF DeferItem, ReleaseClaim
<1>5. ASSUME NEW e \in Executors, AttemptItem(e) PROVE Typed'
  <2>1. pc[e] = "screen" /\ cur[e] \in Sessions /\ store[e].attempts[cur[e]] < MaxAttempts
    BY <1>5 DEF AttemptItem
  <2>2. CountAttempt(store[e], cur[e]) \in StoreType
    BY <2>1, CountAttemptType
  <2> QED
    BY <1>5, <2>1, <2>2 DEF AttemptItem
<1>6. ASSUME NEW e \in Executors, RecoverDone(e) PROVE Typed'
  <2>1. pc[e] = "done" /\ cur[e] \in Sessions
    BY <1>6 DEF RecoverDone
  <2>2. Prune(store[e], cur[e]) \in StoreType
    BY <2>1, PruneType
  <2> QED
    BY <1>6, <2>1, <2>2 DEF RecoverDone, ReleaseClaim
<1>7. ASSUME NEW e \in Executors, RecoverUnmonitored(e) PROVE Typed'
  <2>1. pc[e] = "done" /\ cur[e] \in Sessions
    BY <1>7 DEF RecoverUnmonitored
  <2>2. KeptIfAttemptsRemain(e) \in StoreType
    BY <2>1, KeptType
  <2> QED
    BY <1>7, <2>1, <2>2 DEF RecoverUnmonitored, ReleaseClaim
<1>8. ASSUME NEW e \in Executors, RecoverFailed(e) PROVE Typed'
  <2>1. pc[e] = "fail" /\ cur[e] \in Sessions
    BY <1>8 DEF RecoverFailed
  <2>2. KeptIfAttemptsRemain(e) \in StoreType
    BY <2>1, KeptType
  <2> QED
    BY <1>8, <2>1, <2>2 DEF RecoverFailed, ReleaseClaim
<1>9. ASSUME NEW e \in Executors, SaveTruncate(e) PROVE Typed'
  BY <1>9 DEF SaveTruncate
<1>10. ASSUME NEW e \in Executors, SaveWrite(e) PROVE Typed'
  BY <1>10 DEF SaveWrite
<1>11. ASSUME NEW e \in Executors, SaveError(e) PROVE Typed'
  BY <1>11 DEF SaveError
<1>12. ASSUME NEW e \in Executors, PrepareError(e) PROVE Typed'
  BY <1>12 DEF PrepareError
<1>13. ASSUME NEW e \in Executors, LedgerGuard(e) PROVE Typed'
  BY <1>13 DEF LedgerGuard
<1>14. ASSUME NEW e \in Executors, CompletedGuard(e) PROVE Typed'
  BY <1>14 DEF CompletedGuard
<1>15. ASSUME NEW e \in Executors, InflightGuard(e) PROVE Typed'
  BY <1>15 DEF InflightGuard
<1>16. ASSUME NEW e \in Executors, MixError(e) PROVE Typed'
  BY <1>16 DEF MixError
<1>17. ASSUME NEW e \in Executors, OpenFailed(e) PROVE Typed'
  BY <1>17 DEF OpenFailed, CountTry
<1>18. ASSUME NEW e \in Executors, OpenUnconfirmed(e) PROVE Typed'
  BY <1>18 DEF OpenUnconfirmed, CountTry
<1>19. ASSUME NEW e \in Executors, OpenConfirmed(e) PROVE Typed'
  BY <1>19 DEF OpenConfirmed
<1>20. ASSUME NEW e \in Executors, OpenRow(e) PROVE Typed'
  BY <1>20 DEF OpenRow
<1>21. ASSUME NEW e \in Executors, ReleaseInflight(e) PROVE Typed'
  BY <1>21 DEF ReleaseInflight
<1>22. ASSUME NEW e \in Executors, MarkCompleted(e) PROVE Typed'
  BY <1>22 DEF MarkCompleted
<1>23. ASSUME NEW e \in Executors, NEW s \in Sessions, StartRebalance(e, s) PROVE Typed'
  BY <1>23 DEF StartRebalance
<1>24. ASSUME NEW e \in Executors, EndEvaluation(e) PROVE Typed'
  BY <1>24 DEF EndEvaluation
<1>25. ASSUME NEW e \in Executors, CloseFailed(e) PROVE Typed'
  BY <1>25 DEF CloseFailed, Finish
<1>26. ASSUME NEW e \in Executors, CloseUnconfirmed(e) PROVE Typed'
  BY <1>26 DEF CloseUnconfirmed, Finish
<1>27. ASSUME NEW e \in Executors, CloseConfirmed(e) PROVE Typed'
  BY <1>27 DEF CloseConfirmed
<1>28. ASSUME NEW e \in Executors, CloseRow(e) PROVE Typed'
  BY <1>28 DEF CloseRow
<1>29. ASSUME NEW e \in Executors, RebalanceDone(e) PROVE Typed'
  BY <1>29 DEF RebalanceDone, Finish
<1>30. ASSUME NEW e \in Executors, RebalanceIncomplete(e) PROVE Typed'
  <2>1. pc[e] = "fail" /\ cur[e] \in Sessions
    BY <1>30 DEF RebalanceIncomplete
  <2>2. Upsert(file, cur[e], 0) \in StoreType
    BY <2>1, UpsertType
  <2> QED
    BY <1>30, <2>1, <2>2 DEF RebalanceIncomplete, Finish
<1>31. ASSUME WatchdogScan PROVE Typed'
  BY <1>31 DEF WatchdogScan
<1>32. ASSUME WatchdogLoad PROVE Typed'
  <2> DEFINE merged == [file EXCEPT !.dismissed = @ \cup dismissedFile]
             added  == wrows \ (merged.queued \cup merged.dismissed)
  <2>1. [merged EXCEPT !.queued = @ \cup added] \in StoreType
    BY DEF StoreType
  <2> HIDE DEF merged, added
  <2>2. wstore' \in StoreType
    BY <1>32, <2>1 DEF WatchdogLoad, merged, added
  <2> QED
    BY <1>32, <2>2 DEF WatchdogLoad
<1>33. ASSUME WatchdogTruncate PROVE Typed'
  BY <1>33 DEF WatchdogTruncate
<1>34. ASSUME WatchdogWrite PROVE Typed'
  BY <1>34 DEF WatchdogWrite
<1>35. ASSUME NEW s \in Sessions, DismissLoad(s) PROVE Typed'
  <2>1. ASSUME NEW st \in StoreType PROVE [st EXCEPT !.dismissed = @ \cup {s}] \in StoreType
    BY DEF StoreType
  <2>2. [Prune(file, s) EXCEPT !.dismissed = @ \cup {s}] \in StoreType
    BY <2>1, PruneType
  <2> QED
    BY <1>35, <2>2 DEF DismissLoad
<1>36. ASSUME DismissTruncate PROVE Typed'
  BY <1>36 DEF DismissTruncate
<1>37. ASSUME DismissWrite PROVE Typed'
  BY <1>37 DEF DismissWrite
<1>38. ASSUME DismissPersist PROVE Typed'
  BY <1>38 DEF DismissPersist
<1>39. ASSUME Crash PROVE Typed'
  BY <1>39 DEF Crash
<1>40. ASSUME UNCHANGED vars PROVE Typed'
  BY <1>40 DEF vars
<1> QED
  BY <1>1, <1>2, <1>3, <1>4, <1>5, <1>6, <1>7, <1>8, <1>9, <1>10, <1>11,
     <1>12, <1>13, <1>14, <1>15, <1>16, <1>17, <1>18, <1>19, <1>20, <1>21,
     <1>22, <1>23, <1>24, <1>25, <1>26, <1>27, <1>28, <1>29, <1>30, <1>31,
     <1>32, <1>33, <1>34, <1>35, <1>36, <1>37, <1>38, <1>39, <1>40
  DEF Next, ExecutorStep, RecoveryPass, Save, OpenPath, Evaluate, WatchdogStep, DismissStep

\* The strengthened type invariant holds throughout.
LEMMA TypedInvariant == Spec => []Typed
BY TypedInit, TypedStep, PTL DEF Spec

\* Every step of every actor keeps the files, the statics and the tasks well
\* typed: attempts and open tries stay within their limits.
THEOREM RecoveryTypeCorrect == Spec => []TypeOK
BY TypedInvariant, PTL DEF Typed

----------------------------------------------------------------------------
(* Claims: GLOBAL_PENDING_OPEN_CLAIMS.                                     *)

\* A task that gives its claim back is the only one that held it.
LEMMA ReleaseKeepsClaims ==
  ASSUME Typed, ClaimsExact, NEW e \in Executors, NEW st, mode[e] = "recover",
         cur[e] \in Sessions, ReleaseClaim(e, st)
  PROVE  ClaimsExact'
BY SessionAssumption DEF Typed, TypeOK, ClaimsExact, Claimants, ReleaseClaim

\* A task that leaves a rebalance held no claim.
LEMMA FinishKeepsClaims ==
  ASSUME Typed, ClaimsExact, NEW e \in Executors, mode[e] = "rebalance", Finish(e),
         UNCHANGED claims
  PROVE  ClaimsExact'
BY SessionAssumption DEF Typed, TypeOK, ClaimsExact, Claimants, Finish

\* Each item is claimed by at most one task, and a claim never outlives the work
\* on its item, on any path through process_pending_open_recoveries.
THEOREM ClaimsAreExact == Spec => []ClaimsExact
<1>1. Init => ClaimsExact
  BY DEF Init, ClaimsExact, Claimants
<1>2. Typed /\ ClaimsExact /\ [Next]_vars => ClaimsExact'
  <2> SUFFICES ASSUME Typed, ClaimsExact, [Next]_vars PROVE ClaimsExact'
    OBVIOUS
  <2> USE DEF chain, files, statics, tasks, wvars, dvars, bounds
  <2>1. ASSUME UNCHANGED <<claims, mode, cur>> PROVE ClaimsExact'
    BY <2>1 DEF ClaimsExact, Claimants
  <2>2. ASSUME NEW e \in Executors, NEW s \in Sessions, ClaimItem(e, s) PROVE ClaimsExact'
    <3>1. CASE s \in claims
      BY <2>1, <2>2, <3>1 DEF ClaimItem
    <3>2. CASE s \notin claims
      <4>1. /\ mode[e] = "none"
            /\ claims' = claims \cup {s}
            /\ mode' = [mode EXCEPT ![e] = "recover"]
            /\ cur' = [cur EXCEPT ![e] = s]
        BY <2>2, <3>2 DEF ClaimItem, Goto, Typed, Occupied, Working
      <4> QED
        BY <3>2, <4>1 DEF Typed, TypeOK, ClaimsExact, Claimants
    <3> QED
      BY <3>1, <3>2
  <2>3. ASSUME NEW e \in Executors, DropItem(e) \/ DeferItem(e) PROVE ClaimsExact'
    BY <2>3, ReleaseKeepsClaims DEF DropItem, DeferItem, Goto, Typed, Occupied, Working
  <2>4. ASSUME NEW e \in Executors, RecoverDone(e) \/ RecoverUnmonitored(e) \/ RecoverFailed(e)
        PROVE  ClaimsExact'
    BY <2>4, ReleaseKeepsClaims
    DEF RecoverDone, RecoverUnmonitored, RecoverFailed, Goto, Typed, Occupied, Working
  <2>5. ASSUME NEW e \in Executors, NEW s \in Sessions, StartRebalance(e, s) PROVE ClaimsExact'
    <3>1. /\ mode[e] = "none"
          /\ claims' = claims
          /\ mode' = [mode EXCEPT ![e] = "rebalance"]
          /\ cur' = [cur EXCEPT ![e] = s]
      BY <2>5 DEF StartRebalance, Goto, Typed, Occupied, Working
    <3> QED
      BY <3>1 DEF Typed, TypeOK, ClaimsExact, Claimants
  <2>6. ASSUME NEW e \in Executors,
               CloseFailed(e) \/ CloseUnconfirmed(e) \/ RebalanceDone(e) \/ RebalanceIncomplete(e)
        PROVE  ClaimsExact'
    BY <2>6, FinishKeepsClaims
    DEF CloseFailed, CloseUnconfirmed, RebalanceDone, RebalanceIncomplete, Goto, Typed, Occupied
  <2>7. ASSUME Crash PROVE ClaimsExact'
    BY <2>7 DEF Crash, ClaimsExact, Claimants
  <2>8. ASSUME NEW e \in Executors,
               \/ LoadPass(e) \/ AttemptItem(e) \/ Save(e) \/ OpenPath(e)
               \/ EndEvaluation(e) \/ CloseConfirmed(e) \/ CloseRow(e)
        PROVE  UNCHANGED <<claims, mode, cur>>
    BY <2>8 DEF LoadPass, AttemptItem, Save, SaveTruncate, SaveWrite, SaveError, OpenPath,
                PrepareError, LedgerGuard, CompletedGuard, InflightGuard, MixError, OpenFailed,
                OpenUnconfirmed, OpenConfirmed, OpenRow, ReleaseInflight, MarkCompleted,
                EndEvaluation, CloseConfirmed, CloseRow
  <2>9. ASSUME WatchdogStep \/ DismissStep PROVE UNCHANGED <<claims, mode, cur>>
    BY <2>9 DEF WatchdogStep, WatchdogScan, WatchdogLoad, WatchdogTruncate, WatchdogWrite,
                DismissStep, DismissLoad, DismissTruncate, DismissWrite, DismissPersist
  <2>10. ASSUME UNCHANGED vars PROVE UNCHANGED <<claims, mode, cur>>
    BY <2>10 DEF vars
  <2> QED
    BY <2>1, <2>2, <2>3, <2>4, <2>5, <2>6, <2>7, <2>8, <2>9, <2>10
    DEF Next, ExecutorStep, RecoveryPass, Evaluate
<1> QED
  BY <1>1, <1>2, TypedInvariant, PTL DEF Spec

----------------------------------------------------------------------------
(* Reservations: OPEN_GUARD_INFLIGHT.                                      *)

\* A step that moves one task neither into nor out of the reserved section, and
\* changes the session of no task inside it, keeps the reservations exact.
LEMMA OutsideKeepsReservation ==
  ASSUME ReservationExact, inflight' = inflight,
         \A e \in Executors : /\ pc'[e] \in Reserving <=> pc[e] \in Reserving
                              /\ pc[e] \in Reserving => cur'[e] = cur[e]
  PROVE  ReservationExact'
BY DEF ReservationExact, Holders

\* One task at a time sends open transactions for a session, and every way out of
\* open_new_range_with_wallet_mix gives the reservation back.
THEOREM ReservationsAreExact == Spec => []ReservationExact
<1>1. Init => ReservationExact
  BY DEF Init, ReservationExact, Holders, Reserving
<1>2. Typed /\ ReservationExact /\ [Next]_vars => ReservationExact'
  <2> SUFFICES ASSUME Typed, ReservationExact, [Next]_vars PROVE ReservationExact'
    OBVIOUS
  <2> USE DEF chain, files, statics, tasks, wvars, dvars, bounds
  <2>1. pc \in [Executors -> Pcs] /\ cur \in [Executors -> Sessions \cup {NoSession}]
    BY DEF Typed, TypeOK
  <2>2. ASSUME NEW e \in Executors, InflightGuard(e) PROVE ReservationExact'
    <3>1. pc[e] = "inflight" /\ cur[e] \in Sessions
      BY <2>2 DEF InflightGuard, Goto, Typed, Occupied, Working
    <3>2. CASE cur[e] \in inflight
      BY <2>1, <2>2, <3>1, <3>2, OutsideKeepsReservation DEF InflightGuard, Goto, Reserving
    <3>3. CASE cur[e] \notin inflight
      <4>1. /\ inflight' = inflight \cup {cur[e]}
            /\ pc' = [pc EXCEPT ![e] = "open"]
            /\ cur' = cur
        BY <2>2, <3>3 DEF InflightGuard, Goto
      <4> QED
        BY <2>1, <3>1, <3>3, <4>1 DEF ReservationExact, Holders, Reserving
    <3> QED
      BY <3>2, <3>3
  <2>3. ASSUME NEW e \in Executors, ReleaseInflight(e) PROVE ReservationExact'
    <3>1. /\ pc[e] \in Reserving
          /\ inflight' = inflight \ {cur[e]}
          /\ \/ pc' = [pc EXCEPT ![e] = "fail"]
             \/ pc' = [pc EXCEPT ![e] = "mark"]
          /\ cur' = cur
      BY <2>3 DEF ReleaseInflight, Goto, Reserving
    <3> QED
      BY <2>1, <3>1 DEF ReservationExact, Holders, Reserving
  <2>4. ASSUME NEW e \in Executors, MixError(e) \/ OpenFailed(e) \/ OpenUnconfirmed(e)
                                    \/ OpenConfirmed(e) \/ OpenRow(e)
        PROVE  ReservationExact'
    <3>1. inflight' = inflight /\ cur' = cur
      BY <2>4 DEF MixError, OpenFailed, OpenUnconfirmed, OpenConfirmed, OpenRow
    <3>2. \A d \in Executors : pc'[d] \in Reserving <=> pc[d] \in Reserving
      BY <2>1, <2>4
      DEF MixError, OpenFailed, OpenUnconfirmed, OpenConfirmed, OpenRow, CountTry, Goto, Reserving
    <3> QED
      BY <3>1, <3>2, OutsideKeepsReservation
  <2>5. ASSUME NEW e \in Executors,
               PrepareError(e) \/ LedgerGuard(e) \/ CompletedGuard(e) \/ MarkCompleted(e)
        PROVE  ReservationExact'
    <3>1. inflight' = inflight /\ cur' = cur
      BY <2>5 DEF PrepareError, LedgerGuard, CompletedGuard, MarkCompleted
    <3>2. \A d \in Executors : pc'[d] \in Reserving <=> pc[d] \in Reserving
      BY <2>1, <2>5 DEF PrepareError, LedgerGuard, CompletedGuard, MarkCompleted, Goto, Reserving
    <3> QED
      BY <3>1, <3>2, OutsideKeepsReservation
  <2>6. ASSUME NEW e \in Executors, RecoveryPass(e) PROVE ReservationExact'
    <3>1. inflight' = inflight
      BY <2>6 DEF RecoveryPass, LoadPass, ClaimItem, DropItem, DeferItem, AttemptItem, RecoverDone,
                  RecoverUnmonitored, RecoverFailed
    <3>2. pc[e] \notin Reserving /\ pc'[e] \notin Reserving
      BY <2>1, <2>6
      DEF RecoveryPass, LoadPass, ClaimItem, DropItem, DeferItem, AttemptItem, RecoverDone,
          RecoverUnmonitored, RecoverFailed, Goto, Reserving
    <3>3. \A d \in Executors : d # e => pc'[d] = pc[d] /\ cur'[d] = cur[d]
      BY <2>1, <2>6
      DEF RecoveryPass, LoadPass, ClaimItem, DropItem, DeferItem, AttemptItem, RecoverDone,
          RecoverUnmonitored, RecoverFailed, ReleaseClaim, Goto
    <3> QED
      BY <3>1, <3>2, <3>3, OutsideKeepsReservation
  <2>7. ASSUME NEW e \in Executors, Save(e) \/ Evaluate(e) PROVE ReservationExact'
    <3>1. inflight' = inflight
      BY <2>7 DEF Save, SaveTruncate, SaveWrite, SaveError, Evaluate, StartRebalance,
                  EndEvaluation, CloseFailed, CloseUnconfirmed, CloseConfirmed, CloseRow,
                  RebalanceDone, RebalanceIncomplete
    <3>2. pc[e] \notin Reserving /\ pc'[e] \notin Reserving
      BY <2>1, <2>7
      DEF Save, SaveTruncate, SaveWrite, SaveError, Evaluate, StartRebalance, EndEvaluation,
          CloseFailed, CloseUnconfirmed, CloseConfirmed, CloseRow, RebalanceDone,
          RebalanceIncomplete, Goto, Reserving
    <3>3. \A d \in Executors : d # e => pc'[d] = pc[d] /\ cur'[d] = cur[d]
      BY <2>1, <2>7
      DEF Save, SaveTruncate, SaveWrite, SaveError, Evaluate, StartRebalance, EndEvaluation,
          CloseFailed, CloseUnconfirmed, CloseConfirmed, CloseRow, RebalanceDone,
          RebalanceIncomplete, Finish, Goto
    <3> QED
      BY <3>1, <3>2, <3>3, OutsideKeepsReservation
  <2>8. ASSUME Crash PROVE ReservationExact'
    BY <2>8 DEF Crash, ReservationExact, Holders, Reserving
  <2>9. ASSUME WatchdogStep \/ DismissStep \/ UNCHANGED vars
        PROVE  UNCHANGED <<inflight, pc, cur>>
    BY <2>9 DEF WatchdogStep, WatchdogScan, WatchdogLoad, WatchdogTruncate, WatchdogWrite,
                DismissStep, DismissLoad, DismissTruncate, DismissWrite, DismissPersist, vars
  <2>10. ASSUME UNCHANGED <<inflight, pc, cur>> PROVE ReservationExact'
    BY <2>10, OutsideKeepsReservation
  <2> QED
    BY <2>2, <2>3, <2>4, <2>5, <2>6, <2>7, <2>8, <2>9, <2>10 DEF Next, ExecutorStep, OpenPath
<1> QED
  BY <1>1, <1>2, TypedInvariant, PTL DEF Spec

----------------------------------------------------------------------------
(* Only closed positions are replaced.                                     *)

\* One step per action, over every copy of the queue an actor may hold.
LEMMA OnlyClosedStep == Typed /\ OnlyClosed /\ [Next]_vars => OnlyClosed'
<1> SUFFICES ASSUME Typed, OnlyClosed, [Next]_vars PROVE OnlyClosed'
  OBVIOUS
<1>0. EmptyStore.queued = {}
  BY DEF EmptyStore
<1> USE <1>0, SessionAssumption
    DEF Typed, TypeOK, Occupied, OnlyClosed, ReopenOnlyClosed, Working, Goto, Failure, chain,
        files, statics, tasks, wvars, dvars, bounds
<1>1. ASSUME NEW e \in Executors, LoadPass(e) PROVE OnlyClosed'
  <2>1. CASE file.queued = {}
    BY <1>1, <2>1 DEF LoadPass
  <2>2. CASE file.queued # {}
    <3>1. [file EXCEPT !.queued = {}].queued = {}
      BY DEF StoreType
    <3>2. /\ pc[e] = "idle" /\ pc' = [pc EXCEPT ![e] = "items"]
          /\ todo' = [todo EXCEPT ![e] = file.queued]
          /\ store' = [store EXCEPT ![e] = [file EXCEPT !.queued = {}]]
      BY <1>1, <2>2 DEF LoadPass
    <3>3. \A d \in Executors : store'[d].queued \subseteq closed /\ todo'[d] \subseteq closed
      BY <3>1, <3>2
    <3> QED
      BY <1>1, <3>2, <3>3 DEF LoadPass
  <2> QED
    BY <2>1, <2>2
<1>2. ASSUME NEW e \in Executors, NEW s \in Sessions, ClaimItem(e, s) PROVE OnlyClosed'
  <2>1. CASE s \in claims
    <3>1. [store[e] EXCEPT !.queued = @ \cup {s}].queued = store[e].queued \cup {s}
      BY DEF StoreType
    <3>2. /\ store' = [store EXCEPT ![e] = [store[e] EXCEPT !.queued = @ \cup {s}]]
          /\ s \in todo[e]
          /\ todo' = [todo EXCEPT ![e] = @ \ {s}]
      BY <1>2, <2>1 DEF ClaimItem
    <3>3. \A d \in Executors : store'[d].queued \subseteq closed /\ todo'[d] \subseteq closed
      BY <3>1, <3>2
    <3> QED
      BY <1>2, <2>1, <3>3 DEF ClaimItem
  <2>2. CASE s \notin claims
    BY <1>2, <2>2 DEF ClaimItem
  <2> QED
    BY <2>1, <2>2
<1>3. ASSUME NEW e \in Executors, DropItem(e) PROVE OnlyClosed'
  <2>1. pc[e] = "screen" /\ cur[e] \in Sessions /\ cur[e] \in closed
    BY <1>3 DEF DropItem
  <2>2. Prune(store[e], cur[e]).queued \subseteq closed
    BY <2>1, PruneType
  <2>3. \A d \in Executors : store'[d].queued \subseteq closed
    BY <1>3, <2>2 DEF DropItem, ReleaseClaim
  <2> QED
    BY <1>3, <2>1, <2>3 DEF DropItem, ReleaseClaim
<1>4. ASSUME NEW e \in Executors, DeferItem(e) PROVE OnlyClosed'
  BY <1>4 DEF DeferItem, ReleaseClaim, Kept
<1>5. ASSUME NEW e \in Executors, AttemptItem(e) PROVE OnlyClosed'
  <2>1. pc[e] = "screen" /\ cur[e] \in closed
    BY <1>5 DEF AttemptItem
  <2>2. CountAttempt(store[e], cur[e]).queued \subseteq closed
    BY <1>5, <2>1, CountAttemptType DEF AttemptItem
  <2>3. \A d \in Executors : store'[d].queued \subseteq closed
    BY <1>5, <2>2 DEF AttemptItem
  <2> QED
    BY <1>5, <2>1, <2>3 DEF AttemptItem
<1>6. ASSUME NEW e \in Executors, RecoverDone(e) PROVE OnlyClosed'
  <2>1. pc[e] = "done" /\ cur[e] \in Sessions /\ cur[e] \in closed
    BY <1>6 DEF RecoverDone
  <2>2. Prune(store[e], cur[e]).queued \subseteq closed
    BY <2>1, PruneType
  <2>3. \A d \in Executors : store'[d].queued \subseteq closed
    BY <1>6, <2>2 DEF RecoverDone, ReleaseClaim
  <2> QED
    BY <1>6, <2>1, <2>3 DEF RecoverDone, ReleaseClaim
<1>7. ASSUME NEW e \in Executors, RecoverUnmonitored(e) PROVE OnlyClosed'
  <2>1. pc[e] = "done" /\ cur[e] \in Sessions /\ cur[e] \in closed
    BY <1>7 DEF RecoverUnmonitored
  <2>2. KeptIfAttemptsRemain(e).queued \subseteq closed
    BY <2>1, KeptType
  <2>3. \A d \in Executors : store'[d].queued \subseteq closed
    BY <1>7, <2>2 DEF RecoverUnmonitored, ReleaseClaim
  <2> QED
    BY <1>7, <2>1, <2>3 DEF RecoverUnmonitored, ReleaseClaim
<1>8. ASSUME NEW e \in Executors, RecoverFailed(e) PROVE OnlyClosed'
  <2>1. pc[e] = "fail" /\ cur[e] \in Sessions /\ cur[e] \in closed
    BY <1>8 DEF RecoverFailed
  <2>2. KeptIfAttemptsRemain(e).queued \subseteq closed
    BY <2>1, KeptType
  <2>3. \A d \in Executors : store'[d].queued \subseteq closed
    BY <1>8, <2>2 DEF RecoverFailed, ReleaseClaim
  <2> QED
    BY <1>8, <2>1, <2>3 DEF RecoverFailed, ReleaseClaim
<1>9. ASSUME NEW e \in Executors, SaveTruncate(e) PROVE OnlyClosed'
  BY <1>9 DEF SaveTruncate
<1>10. ASSUME NEW e \in Executors, SaveWrite(e) PROVE OnlyClosed'
  BY <1>10 DEF SaveWrite
<1>11. ASSUME NEW e \in Executors, SaveError(e) PROVE OnlyClosed'
  BY <1>11 DEF SaveError
<1>12. ASSUME NEW e \in Executors, PrepareError(e) PROVE OnlyClosed'
  BY <1>12 DEF PrepareError
<1>13. ASSUME NEW e \in Executors, LedgerGuard(e) PROVE OnlyClosed'
  BY <1>13 DEF LedgerGuard
<1>14. ASSUME NEW e \in Executors, CompletedGuard(e) PROVE OnlyClosed'
  BY <1>14 DEF CompletedGuard
<1>15. ASSUME NEW e \in Executors, InflightGuard(e) PROVE OnlyClosed'
  BY <1>15 DEF InflightGuard
<1>16. ASSUME NEW e \in Executors, MixError(e) PROVE OnlyClosed'
  BY <1>16 DEF MixError
<1>17. ASSUME NEW e \in Executors, OpenFailed(e) PROVE OnlyClosed'
  BY <1>17 DEF OpenFailed, CountTry
<1>18. ASSUME NEW e \in Executors, OpenUnconfirmed(e) PROVE OnlyClosed'
  BY <1>18 DEF OpenUnconfirmed, CountTry
<1>19. ASSUME NEW e \in Executors, OpenConfirmed(e) PROVE OnlyClosed'
  BY <1>19 DEF OpenConfirmed
<1>20. ASSUME NEW e \in Executors, OpenRow(e) PROVE OnlyClosed'
  BY <1>20 DEF OpenRow
<1>21. ASSUME NEW e \in Executors, ReleaseInflight(e) PROVE OnlyClosed'
  BY <1>21 DEF ReleaseInflight
<1>22. ASSUME NEW e \in Executors, MarkCompleted(e) PROVE OnlyClosed'
  BY <1>22 DEF MarkCompleted
<1>23. ASSUME NEW e \in Executors, NEW s \in Sessions, StartRebalance(e, s) PROVE OnlyClosed'
  BY <1>23 DEF StartRebalance
<1>24. ASSUME NEW e \in Executors, EndEvaluation(e) PROVE OnlyClosed'
  BY <1>24 DEF EndEvaluation
<1>25. ASSUME NEW e \in Executors, CloseFailed(e) PROVE OnlyClosed'
  BY <1>25 DEF CloseFailed, Finish
<1>26. ASSUME NEW e \in Executors, CloseUnconfirmed(e) PROVE OnlyClosed'
  BY <1>26 DEF CloseUnconfirmed, Finish
<1>27. ASSUME NEW e \in Executors, CloseConfirmed(e) PROVE OnlyClosed'
  BY <1>27 DEF CloseConfirmed
<1>28. ASSUME NEW e \in Executors, CloseRow(e) PROVE OnlyClosed'
  BY <1>28 DEF CloseRow
<1>29. ASSUME NEW e \in Executors, RebalanceDone(e) PROVE OnlyClosed'
  BY <1>29 DEF RebalanceDone, Finish
<1>30. ASSUME NEW e \in Executors, RebalanceIncomplete(e) PROVE OnlyClosed'
  <2>1. pc[e] = "fail" /\ cur[e] \in Sessions /\ cur[e] \in closed
    BY <1>30 DEF RebalanceIncomplete
  <2>2. Upsert(file, cur[e], 0).queued \subseteq closed
    BY <2>1, UpsertType, BoundAssumption
  <2>3. \A d \in Executors : store'[d].queued \subseteq closed
    BY <1>30, <2>2 DEF RebalanceIncomplete
  <2> QED
    BY <1>30, <2>1, <2>3 DEF RebalanceIncomplete, Finish
<1>31. ASSUME WatchdogScan PROVE OnlyClosed'
  BY <1>31 DEF WatchdogScan
<1>32. ASSUME WatchdogLoad PROVE OnlyClosed'
  <2> DEFINE merged == [file EXCEPT !.dismissed = @ \cup dismissedFile]
             added  == wrows \ (merged.queued \cup merged.dismissed)
  <2>1. [merged EXCEPT !.queued = @ \cup added].queued \subseteq closed
    BY DEF StoreType
  <2> HIDE DEF merged, added
  <2>2. wstore'.queued \subseteq closed
    BY <1>32, <2>1 DEF WatchdogLoad, merged, added
  <2> QED
    BY <1>32, <2>2 DEF WatchdogLoad
<1>33. ASSUME WatchdogTruncate PROVE OnlyClosed'
  BY <1>33 DEF WatchdogTruncate
<1>34. ASSUME WatchdogWrite PROVE OnlyClosed'
  BY <1>34 DEF WatchdogWrite
<1>35. ASSUME NEW s \in Sessions, DismissLoad(s) PROVE OnlyClosed'
  <2>1. ASSUME NEW st \in StoreType
        PROVE  [st EXCEPT !.dismissed = @ \cup {s}].queued = st.queued
    BY DEF StoreType
  <2>2. dstore'.queued \subseteq closed
    BY <1>35, <2>1, PruneType DEF DismissLoad
  <2> QED
    BY <1>35, <2>2 DEF DismissLoad
<1>36. ASSUME DismissTruncate PROVE OnlyClosed'
  BY <1>36 DEF DismissTruncate
<1>37. ASSUME DismissWrite PROVE OnlyClosed'
  BY <1>37 DEF DismissWrite
<1>38. ASSUME DismissPersist PROVE OnlyClosed'
  BY <1>38 DEF DismissPersist
<1>39. ASSUME Crash PROVE OnlyClosed'
  BY <1>39 DEF Crash
<1>40. ASSUME UNCHANGED vars PROVE OnlyClosed'
  BY <1>40 DEF vars
<1> QED
  BY <1>1, <1>2, <1>3, <1>4, <1>5, <1>6, <1>7, <1>8, <1>9, <1>10, <1>11,
     <1>12, <1>13, <1>14, <1>15, <1>16, <1>17, <1>18, <1>19, <1>20, <1>21,
     <1>22, <1>23, <1>24, <1>25, <1>26, <1>27, <1>28, <1>29, <1>30, <1>31,
     <1>32, <1>33, <1>34, <1>35, <1>36, <1>37, <1>38, <1>39, <1>40
  DEF Next, ExecutorStep, RecoveryPass, Save, OpenPath, Evaluate, WatchdogStep, DismissStep

\* Every queue, every copy of a queue and every open names closed positions only.
LEMMA OnlyClosedInvariant == Spec => []OnlyClosed
<1>1. Init => OnlyClosed
  BY DEF Init, OnlyClosed, ReopenOnlyClosed, EmptyStore, Working
<1> QED
  BY <1>1, OnlyClosedStep, TypedInvariant, PTL DEF Spec

\* Whatever interleaving of saves, lost updates, restarts and retries produced
\* the queue, a replacement is opened only for a position that is closed.
THEOREM ReopensOnlyClosed == Spec => []ReopenOnlyClosed
BY OnlyClosedInvariant, PTL DEF OnlyClosed

----------------------------------------------------------------------------
(* Without the watchdog a session is opened once per fault at most.        *)

\* While the watchdog is off nothing but a rebalance works on a session before
\* it is queued: the rebalance belongs to the owner of the position, and no queue,
\* no copy of a queue and no recovery names its session.
RebalanceAlone ==
  /\ wpc = "idle"
  /\ \A e \in Executors : mode[e] = "rebalance" =>
       /\ Owner[cur[e]] = e
       /\ pc[e] = "close" => cur[e] \notin closed
       /\ cur[e] \notin file.queued
       /\ cur[e] \notin dstore.queued
       /\ \A d \in Executors :
            /\ cur[e] \notin todo[d]
            /\ cur[e] \notin store[d].queued
            /\ mode[d] = "recover" => cur[d] # cur[e]

\* The confirmed open of a session that a task or the completed set accounts for.
Paid(s) == \/ s \in completed
           \/ \E e \in Executors : cur[e] = s /\ pc[e] \in {"openRow", "releaseDone", "mark"}

\* Past the first lock a session is not completed, and its opens are paid for.
OpensPaid ==
  /\ \A e \in Executors : pc[e] \in {"inflight", "open"} => cur[e] \notin completed
  /\ \A s \in Sessions : opened[s] <= (IF Paid(s) THEN 1 ELSE 0) + crashes + lost

\* Two tasks never work on the same session: two recoveries are kept apart by the
\* claim, two rebalances by the owner, and a rebalance and a recovery because no
\* queue names the session of a rebalance.
LEMMA SoleWorker ==
  ASSUME Typed, ClaimsExact, RebalanceAlone, NEW d \in Executors, NEW e \in Executors,
         cur[d] = cur[e], cur[e] \in Sessions
  PROVE  d = e
<1>1. /\ mode[d] \in {"rebalance", "recover"}
      /\ mode[e] \in {"rebalance", "recover"}
  BY SessionAssumption DEF Typed, TypeOK, Occupied, Modes
<1>2. CASE mode[d] = "recover" /\ mode[e] = "recover"
  BY <1>2 DEF ClaimsExact, Claimants
<1>3. CASE mode[d] = "rebalance" \/ mode[e] = "rebalance"
  BY <1>1, <1>3 DEF RebalanceAlone
<1> QED
  BY <1>1, <1>2, <1>3

\* A step that leaves sessions, queues and closed positions alone and starts no
\* close keeps every rebalance alone.
LEMMA AloneKept ==
  ASSUME RebalanceAlone, UNCHANGED <<mode, cur, closed, file, dstore, todo, store, wpc>>,
         \A e \in Executors : pc'[e] = "close" => pc[e] = "close"
  PROVE  RebalanceAlone'
BY DEF RebalanceAlone

\* A recovery that gives its claim back queues at most its own session again.
LEMMA ReleaseKeepsAlone ==
  ASSUME Typed, RebalanceAlone, NEW e \in Executors, NEW st \in StoreType,
         mode[e] = "recover", cur[e] \in Sessions, ReleaseClaim(e, st),
         st.queued \subseteq store[e].queued \cup {cur[e]},
         pc' = [pc EXCEPT ![e] = "items"],
         UNCHANGED <<closed, file, dstore, todo, wpc>>
  PROVE  RebalanceAlone'
<1>1. /\ mode' = [mode EXCEPT ![e] = "none"]
      /\ cur' = [cur EXCEPT ![e] = NoSession]
      /\ store' = [store EXCEPT ![e] = st]
  BY DEF ReleaseClaim
<1>2. SUFFICES ASSUME NEW d \in Executors, mode'[d] = "rebalance"
               PROVE  /\ Owner[cur'[d]] = d
                      /\ pc'[d] = "close" => cur'[d] \notin closed
                      /\ cur'[d] \notin file.queued
                      /\ cur'[d] \notin dstore.queued
                      /\ \A c \in Executors :
                           /\ cur'[d] \notin todo[c]
                           /\ cur'[d] \notin store'[c].queued
                           /\ mode'[c] = "recover" => cur'[c] # cur'[d]
  BY DEF RebalanceAlone
<1>3. d # e /\ mode[d] = "rebalance" /\ cur'[d] = cur[d] /\ pc'[d] = pc[d]
  BY <1>1, <1>2 DEF Typed, TypeOK
<1>4. cur[d] # cur[e]
  BY <1>3 DEF RebalanceAlone
<1>5. \A c \in Executors : cur[d] \notin store'[c].queued
  BY <1>1, <1>3, <1>4 DEF RebalanceAlone, Typed, TypeOK
<1>6. \A c \in Executors : mode'[c] = "recover" => cur'[c] # cur[d]
  BY <1>1, <1>3 DEF RebalanceAlone, Typed, TypeOK
<1> QED
  BY <1>3, <1>5, <1>6 DEF RebalanceAlone

\* A task that leaves its rebalance may close its own session on chain and put it
\* into its own copy of the queue: no other rebalance works on that session.
LEMMA FinishKeepsAlone ==
  ASSUME Typed, RebalanceAlone, NEW e \in Executors, mode[e] = "rebalance", cur[e] \in Sessions,
         Finish(e), closed' \subseteq closed \cup {cur[e]},
         store' \in [Executors -> StoreType],
         \A c \in Executors : store'[c].queued \subseteq
                                store[c].queued \cup file.queued \cup {cur[e]},
         \A d \in Executors \ {e} : pc'[d] = pc[d],
         UNCHANGED <<file, dstore, todo, wpc>>
  PROVE  RebalanceAlone'
<1>1. /\ mode' = [mode EXCEPT ![e] = "none"]
      /\ cur' = [cur EXCEPT ![e] = NoSession]
  BY DEF Finish
<1>2. SUFFICES ASSUME NEW d \in Executors, mode'[d] = "rebalance"
               PROVE  /\ Owner[cur'[d]] = d
                      /\ pc'[d] = "close" => cur'[d] \notin closed'
                      /\ cur'[d] \notin file.queued
                      /\ cur'[d] \notin dstore.queued
                      /\ \A c \in Executors :
                           /\ cur'[d] \notin todo[c]
                           /\ cur'[d] \notin store'[c].queued
                           /\ mode'[c] = "recover" => cur'[c] # cur'[d]
  BY DEF RebalanceAlone
<1>3. d # e /\ mode[d] = "rebalance" /\ cur'[d] = cur[d] /\ pc'[d] = pc[d]
  BY <1>1, <1>2 DEF Typed, TypeOK
<1>4. cur[d] # cur[e]
  BY <1>3 DEF RebalanceAlone
<1>5. \A c \in Executors : cur[d] \notin store'[c].queued
  BY <1>3, <1>4 DEF RebalanceAlone
<1>6. \A c \in Executors : mode'[c] = "recover" => cur'[c] # cur[d]
  BY <1>1, <1>3 DEF RebalanceAlone, Typed, TypeOK
<1>7. pc[d] = "close" => cur[d] \notin closed'
  BY <1>3, <1>4 DEF RebalanceAlone
<1> QED
  BY <1>3, <1>5, <1>6, <1>7 DEF RebalanceAlone

\* One step per action; the start of a rebalance needs that whatever is queued or
\* under recovery is already closed, and its own position is not.
LEMMA RebalanceAloneStep ==
  ASSUME ~WatchdogOn
  PROVE  Typed /\ Typed' /\ OnlyClosed /\ RebalanceAlone /\ [Next]_vars => RebalanceAlone'
<1> SUFFICES ASSUME Typed, Typed', OnlyClosed, RebalanceAlone, [Next]_vars
             PROVE  RebalanceAlone'
  OBVIOUS
<1>0. EmptyStore.queued = {}
  BY DEF EmptyStore
<1> USE DEF Goto, Failure, chain, files, statics, tasks, wvars, dvars, bounds
<1>1. ASSUME NEW e \in Executors, LoadPass(e) PROVE RebalanceAlone'
  <2>1. CASE file.queued = {}
    <3>1. UNCHANGED <<mode, cur, closed, file, dstore, todo, store, wpc>>
      BY <1>1, <2>1 DEF LoadPass
    <3>2. \A d \in Executors : pc'[d] = "close" => pc[d] = "close"
      BY <1>1, <2>1 DEF LoadPass, Typed, TypeOK
    <3> QED
      BY <3>1, <3>2, AloneKept
  <2>2. CASE file.queued # {}
    <3>1. [file EXCEPT !.queued = {}].queued = {}
      BY DEF StoreType, Typed, TypeOK
    <3>2. /\ pc' = [pc EXCEPT ![e] = "items"]
          /\ todo' = [todo EXCEPT ![e] = file.queued]
          /\ store' = [store EXCEPT ![e] = [file EXCEPT !.queued = {}]]
          /\ UNCHANGED <<mode, cur, closed, file, dstore, wpc>>
      BY <1>1, <2>2 DEF LoadPass
    <3>3. \A d \in Executors : pc'[d] = "close" => pc[d] = "close"
      BY <3>2 DEF Typed, TypeOK
    <3>4. \A d \in Executors : /\ todo'[d] \subseteq todo[d] \cup file.queued
                               /\ store'[d].queued \subseteq store[d].queued
      BY <3>1, <3>2 DEF Typed, TypeOK
    <3> QED
      BY <3>2, <3>3, <3>4 DEF RebalanceAlone
  <2> QED
    BY <2>1, <2>2
<1>2. ASSUME NEW e \in Executors, NEW s \in Sessions, ClaimItem(e, s) PROVE RebalanceAlone'
  <2>1. /\ s \in todo[e]
        /\ todo' = [todo EXCEPT ![e] = @ \ {s}]
        /\ UNCHANGED <<closed, file, dstore, wpc>>
    BY <1>2 DEF ClaimItem
  <2>2. \A d \in Executors : todo'[d] \subseteq todo[d]
    BY <2>1 DEF Typed, TypeOK
  <2>3. CASE s \in claims
    <3>1. store' = [store EXCEPT ![e] = [store[e] EXCEPT !.queued = @ \cup {s}]]
      BY <1>2, <2>3 DEF ClaimItem
    <3>2. [store[e] EXCEPT !.queued = @ \cup {s}].queued = store[e].queued \cup {s}
      BY DEF StoreType, Typed, TypeOK
    <3>3. \A d \in Executors : store'[d].queued \subseteq store[d].queued \cup {s}
      BY <3>1, <3>2 DEF Typed, TypeOK
    <3>4. UNCHANGED <<pc, mode, cur>>
      BY <1>2, <2>3 DEF ClaimItem
    <3> QED
      BY <2>1, <2>2, <3>3, <3>4 DEF RebalanceAlone
  <2>4. CASE s \notin claims
    <3>1. /\ pc' = [pc EXCEPT ![e] = "screen"]
          /\ mode' = [mode EXCEPT ![e] = "recover"]
          /\ cur' = [cur EXCEPT ![e] = s]
          /\ store' = store
      BY <1>2, <2>4 DEF ClaimItem
    <3>2. \A d \in Executors : mode'[d] = "rebalance" =>
             mode[d] = "rebalance" /\ cur'[d] = cur[d] /\ pc'[d] = pc[d]
      BY <3>1 DEF Typed, TypeOK
    <3>3. \A d \in Executors : mode'[d] = "recover" => cur'[d] = s \/
             (mode[d] = "recover" /\ cur'[d] = cur[d])
      BY <3>1 DEF Typed, TypeOK
    <3> QED
      BY <2>1, <2>2, <3>1, <3>2, <3>3 DEF RebalanceAlone
  <2> QED
    BY <2>3, <2>4
<1>3. ASSUME NEW e \in Executors, DropItem(e) PROVE RebalanceAlone'
  <2>1. cur[e] \in Sessions /\ mode[e] = "recover" /\ store[e] \in StoreType
    BY <1>3 DEF DropItem, Typed, TypeOK, Occupied, Working
  <2> QED
    BY <1>3, <2>1, PruneType, ReleaseKeepsAlone DEF DropItem
<1>4. ASSUME NEW e \in Executors, DeferItem(e) PROVE RebalanceAlone'
  <2>1. cur[e] \in Sessions /\ mode[e] = "recover" /\ store \in [Executors -> StoreType]
    BY <1>4 DEF DeferItem, Typed, TypeOK, Occupied, Working
  <2> QED
    BY <1>4, <2>1, KeptType, ReleaseKeepsAlone DEF DeferItem
<1>5. ASSUME NEW e \in Executors, AttemptItem(e) PROVE RebalanceAlone'
  <2>1. cur[e] \in Sessions /\ store[e].attempts[cur[e]] < MaxAttempts /\ store[e] \in StoreType
    BY <1>5 DEF AttemptItem, Typed, TypeOK, Occupied, Working
  <2>2. /\ store' = [store EXCEPT ![e] = CountAttempt(store[e], cur[e])]
        /\ pc' = [pc EXCEPT ![e] = "ledger"]
        /\ UNCHANGED <<mode, cur, closed, file, dstore, todo, wpc>>
    BY <1>5 DEF AttemptItem
  <2>3. \A d \in Executors : store'[d].queued = store[d].queued
    BY <2>1, <2>2, CountAttemptType DEF Typed, TypeOK
  <2>4. \A d \in Executors : pc'[d] = "close" => pc[d] = "close"
    BY <2>2 DEF Typed, TypeOK
  <2> QED
    BY <2>2, <2>3, <2>4 DEF RebalanceAlone
<1>6. ASSUME NEW e \in Executors, RecoverDone(e) PROVE RebalanceAlone'
  <2>1. cur[e] \in Sessions /\ mode[e] = "recover" /\ store[e] \in StoreType
    BY <1>6 DEF RecoverDone, Typed, TypeOK, Occupied, Working
  <2> QED
    BY <1>6, <2>1, PruneType, ReleaseKeepsAlone DEF RecoverDone
<1>7. ASSUME NEW e \in Executors, RecoverUnmonitored(e) PROVE RebalanceAlone'
  <2>1. cur[e] \in Sessions /\ mode[e] = "recover" /\ store \in [Executors -> StoreType]
    BY <1>7 DEF RecoverUnmonitored, Typed, TypeOK, Occupied, Working
  <2> QED
    BY <1>7, <2>1, KeptType, ReleaseKeepsAlone DEF RecoverUnmonitored
<1>8. ASSUME NEW e \in Executors, RecoverFailed(e) PROVE RebalanceAlone'
  <2>1. cur[e] \in Sessions /\ mode[e] = "recover" /\ store \in [Executors -> StoreType]
    BY <1>8 DEF RecoverFailed, Typed, TypeOK, Occupied, Working
  <2> QED
    BY <1>8, <2>1, KeptType, ReleaseKeepsAlone DEF RecoverFailed
<1>9. ASSUME NEW e \in Executors, Save(e) PROVE RebalanceAlone'
  <2>1. UNCHANGED <<mode, cur, closed, dstore, todo, wpc>>
    BY <1>9 DEF Save, SaveTruncate, SaveWrite, SaveError
  <2>2. \A d \in Executors : pc'[d] = "close" => pc[d] = "close"
    BY <1>9 DEF Save, SaveTruncate, SaveWrite, SaveError, Typed, TypeOK
  <2>3. file'.queued \subseteq file.queued \cup store[e].queued
    BY <1>0, <1>9 DEF Save, SaveTruncate, SaveWrite, SaveError
  <2>4. \A d \in Executors : store'[d].queued \subseteq store[d].queued
    BY <1>0, <1>9 DEF Save, SaveTruncate, SaveWrite, SaveError, Typed, TypeOK
  <2> QED
    BY <2>1, <2>2, <2>3, <2>4 DEF RebalanceAlone
<1>10. ASSUME NEW e \in Executors, OpenPath(e) PROVE RebalanceAlone'
  <2>1. UNCHANGED <<mode, cur, closed, file, dstore, todo, store, wpc>>
    BY <1>10 DEF OpenPath, PrepareError, LedgerGuard, CompletedGuard, InflightGuard, MixError,
                 OpenFailed, OpenUnconfirmed, OpenConfirmed, OpenRow, ReleaseInflight,
                 MarkCompleted
  <2>2. \A d \in Executors : pc'[d] = "close" => pc[d] = "close"
    BY <1>10
    DEF OpenPath, PrepareError, LedgerGuard, CompletedGuard, InflightGuard, MixError, OpenFailed,
        OpenUnconfirmed, OpenConfirmed, OpenRow, ReleaseInflight, MarkCompleted, CountTry, Typed,
        TypeOK
  <2> QED
    BY <2>1, <2>2, AloneKept
<1>11. ASSUME NEW e \in Executors, NEW s \in Sessions, StartRebalance(e, s)
       PROVE  RebalanceAlone'
  <2>1. /\ pc[e] = "eval" /\ Owner[s] = e /\ s \notin closed
        /\ pc' = [pc EXCEPT ![e] = "close"]
        /\ mode' = [mode EXCEPT ![e] = "rebalance"]
        /\ cur' = [cur EXCEPT ![e] = s]
        /\ UNCHANGED <<closed, file, dstore, todo, store, wpc>>
    BY <1>11 DEF StartRebalance
  <2>2. /\ s \notin file.queued
        /\ s \notin dstore.queued
        /\ \A d \in Executors : s \notin todo[d] /\ s \notin store[d].queued
    BY <2>1 DEF OnlyClosed
  <2>3. \A d \in Executors : mode[d] = "recover" => cur[d] # s
    BY <2>1 DEF OnlyClosed, Typed, Occupied, Working
  <2>4. mode[e] = "none"
    BY <2>1 DEF Typed, Occupied, Working
  <2>5. \A d \in Executors : d # e => pc'[d] = pc[d] /\ mode'[d] = mode[d] /\ cur'[d] = cur[d]
    BY <2>1 DEF Typed, TypeOK
  <2>6. pc'[e] = "close" /\ mode'[e] = "rebalance" /\ cur'[e] = s
    BY <2>1 DEF Typed, TypeOK
  <2> QED
    BY <2>1, <2>2, <2>3, <2>4, <2>5, <2>6 DEF RebalanceAlone
<1>12. ASSUME NEW e \in Executors, EndEvaluation(e) \/ CloseRow(e) PROVE RebalanceAlone'
  <2>1. UNCHANGED <<mode, cur, closed, file, dstore, todo, store, wpc>>
    BY <1>12 DEF EndEvaluation, CloseRow
  <2>2. \A d \in Executors : pc'[d] = "close" => pc[d] = "close"
    BY <1>12 DEF EndEvaluation, CloseRow, Typed, TypeOK
  <2> QED
    BY <2>1, <2>2, AloneKept
<1>13. ASSUME NEW e \in Executors,
              CloseFailed(e) \/ CloseUnconfirmed(e) \/ RebalanceDone(e)
       PROVE  RebalanceAlone'
  <2>1. mode[e] = "rebalance" /\ cur[e] \in Sessions
    BY <1>13 DEF CloseFailed, CloseUnconfirmed, RebalanceDone, Typed, Occupied, Working
  <2>2. /\ Finish(e)
        /\ closed' \subseteq closed \cup {cur[e]}
        /\ UNCHANGED <<file, dstore, todo, store, wpc>>
    BY <1>13 DEF CloseFailed, CloseUnconfirmed, RebalanceDone
  <2>3. \A d \in Executors \ {e} : pc'[d] = pc[d]
    BY <1>13 DEF CloseFailed, CloseUnconfirmed, RebalanceDone, Typed, TypeOK
  <2>4. store' \in [Executors -> StoreType]
    BY DEF Typed, TypeOK
  <2> QED
    BY <2>1, <2>2, <2>3, <2>4, FinishKeepsAlone
<1>14. ASSUME NEW e \in Executors, CloseConfirmed(e) PROVE RebalanceAlone'
  <2>1. /\ pc[e] = "close"
        /\ pc' = [pc EXCEPT ![e] = "closeRow"]
        /\ closed' = closed \cup {cur[e]}
        /\ UNCHANGED <<mode, cur, file, dstore, todo, store, wpc>>
    BY <1>14 DEF CloseConfirmed
  <2>2. mode[e] = "rebalance" /\ pc'[e] = "closeRow"
    BY <2>1 DEF Typed, TypeOK, Occupied
  <2>3. \A d \in Executors : d # e => pc'[d] = pc[d]
    BY <2>1 DEF Typed, TypeOK
  <2>4. \A d \in Executors : d # e /\ mode[d] = "rebalance" => cur[d] # cur[e]
    BY <2>2 DEF RebalanceAlone
  <2> QED
    BY <2>1, <2>2, <2>3, <2>4 DEF RebalanceAlone
<1>15. ASSUME NEW e \in Executors, RebalanceIncomplete(e) PROVE RebalanceAlone'
  <2>1. mode[e] = "rebalance" /\ cur[e] \in Sessions /\ file \in StoreType
    BY <1>15 DEF RebalanceIncomplete, Typed, TypeOK, Occupied, Working
  <2>2. /\ Finish(e)
        /\ store' = [store EXCEPT ![e] = Upsert(file, cur[e], 0)]
        /\ UNCHANGED <<closed, file, dstore, todo, wpc>>
    BY <1>15 DEF RebalanceIncomplete
  <2>3. Upsert(file, cur[e], 0).queued = file.queued \cup {cur[e]}
    BY <2>1, UpsertType, BoundAssumption
  <2>4. \A c \in Executors : store'[c].queued \subseteq
                               store[c].queued \cup file.queued \cup {cur[e]}
    BY <2>2, <2>3 DEF Typed, TypeOK
  <2>5. \A d \in Executors \ {e} : pc'[d] = pc[d]
    BY <1>15 DEF RebalanceIncomplete, Typed, TypeOK
  <2>6. store' \in [Executors -> StoreType]
    BY DEF Typed, TypeOK
  <2> QED
    BY <2>1, <2>2, <2>4, <2>5, <2>6, FinishKeepsAlone
<1>16. ~WatchdogStep
  BY DEF RebalanceAlone, WatchdogStep, WatchdogScan, WatchdogLoad, WatchdogTruncate,
         WatchdogWrite
<1>17. ASSUME DismissStep PROVE RebalanceAlone'
  <2>1. UNCHANGED <<pc, mode, cur, closed, todo, store, wpc>>
    BY <1>17 DEF DismissStep, DismissLoad, DismissTruncate, DismissWrite, DismissPersist
  <2>2. file'.queued \subseteq file.queued \cup dstore.queued
    BY <1>0, <1>17 DEF DismissStep, DismissLoad, DismissTruncate, DismissWrite, DismissPersist
  <2>3. dstore'.queued \subseteq file.queued \cup dstore.queued
    <3>1. ASSUME NEW s \in Sessions, DismissLoad(s) PROVE dstore'.queued \subseteq file.queued
      <4>1. ASSUME NEW st \in StoreType
            PROVE  [st EXCEPT !.dismissed = @ \cup {s}].queued = st.queued
        BY DEF StoreType
      <4>2. Prune(file, s) \in StoreType /\ Prune(file, s).queued \subseteq file.queued
        BY PruneType DEF Typed, TypeOK
      <4> QED
        BY <3>1, <4>1, <4>2 DEF DismissLoad
    <3> QED
      BY <1>0, <1>17, <3>1 DEF DismissStep, DismissTruncate, DismissWrite, DismissPersist
  <2> QED
    BY <2>1, <2>2, <2>3 DEF RebalanceAlone
<1>18. ASSUME Crash PROVE RebalanceAlone'
  BY <1>18 DEF Crash, RebalanceAlone
<1>19. ASSUME UNCHANGED vars PROVE RebalanceAlone'
  BY <1>19 DEF vars, RebalanceAlone
<1> QED
  BY <1>1, <1>2, <1>3, <1>4, <1>5, <1>6, <1>7, <1>8, <1>9, <1>10, <1>11, <1>12, <1>13, <1>14,
     <1>15, <1>16, <1>17, <1>18, <1>19
  DEF Next, ExecutorStep, RecoveryPass, Evaluate

\* A step that opens nothing, completes nothing and leaves the tasks between the
\* guards and the completed mark where they are keeps every open paid for.
LEMMA PaidKept ==
  ASSUME Typed, OpensPaid, UNCHANGED <<opened, completed, crashes, lost>>,
         \A e \in Executors : pc'[e] \in {"inflight", "open"} =>
           pc[e] \in {"inflight", "open"} /\ cur'[e] = cur[e],
         \A e \in Executors : pc[e] \in {"openRow", "releaseDone", "mark"} =>
           pc'[e] \in {"openRow", "releaseDone", "mark"} /\ cur'[e] = cur[e]
  PROVE  OpensPaid'
<1>1. \A s \in Sessions : Paid(s) => Paid(s)'
  BY DEF Paid
<1>2. opened \in [Sessions -> Nat] /\ crashes \in Nat /\ lost \in Nat
  BY BoundAssumption DEF Typed, TypeOK
<1>3. \A s \in Sessions : opened[s] <= (IF Paid(s)' THEN 1 ELSE 0) + crashes + lost
  BY <1>1, <1>2 DEF OpensPaid
<1> QED
  BY <1>3 DEF OpensPaid

\* The guards admit one open at a time, and none after a completed one.
LEMMA OpensPaidStep ==
  Typed /\ Typed' /\ ClaimsExact /\ RebalanceAlone /\ OpensPaid /\ [Next]_vars => OpensPaid'
<1> SUFFICES ASSUME Typed, Typed', ClaimsExact, RebalanceAlone, OpensPaid, [Next]_vars
             PROVE  OpensPaid'
  OBVIOUS
<1> USE DEF Goto, Failure, chain, files, statics, tasks, wvars, dvars, bounds
<1>0. /\ opened \in [Sessions -> Nat] /\ crashes \in Nat /\ lost \in Nat
      /\ pc \in [Executors -> Pcs] /\ cur \in [Executors -> Sessions \cup {NoSession}]
      /\ mode \in [Executors -> Modes]
  BY BoundAssumption DEF Typed, TypeOK
<1>1. ASSUME NEW e \in Executors, CompletedGuard(e) PROVE OpensPaid'
  <2>1. /\ UNCHANGED <<opened, completed, crashes, lost, cur>>
        /\ pc[e] = "completed"
        /\ pc' = [pc EXCEPT ![e] = IF cur[e] \in completed THEN "fail" ELSE "inflight"]
    BY <1>1 DEF CompletedGuard
  <2>2. \A s \in Sessions : Paid(s) => Paid(s)'
    BY <1>0, <2>1 DEF Paid
  <2>3. \A s \in Sessions : opened[s] <= (IF Paid(s)' THEN 1 ELSE 0) + crashes + lost
    BY <1>0, <2>2 DEF OpensPaid
  <2>4. \A d \in Executors : pc'[d] \in {"inflight", "open"} => cur[d] \notin completed
    BY <1>0, <2>1 DEF OpensPaid
  <2> QED
    BY <2>1, <2>3, <2>4 DEF OpensPaid
<1>2. ASSUME NEW e \in Executors, OpenConfirmed(e) PROVE OpensPaid'
  <2>1. /\ UNCHANGED <<completed, crashes, lost, cur>>
        /\ pc[e] = "open" /\ cur[e] \in Sessions /\ cur[e] \notin completed
        /\ pc' = [pc EXCEPT ![e] = "openRow"]
        /\ opened' = [opened EXCEPT ![cur[e]] = @ + 1]
    BY <1>2 DEF OpenConfirmed, OpensPaid, Typed, Occupied, Working
  <2>2. ~Paid(cur[e])
    BY <2>1, SoleWorker DEF Paid
  <2>3. \A s \in Sessions : Paid(s) => Paid(s)'
    BY <1>0, <2>1 DEF Paid
  <2>4. Paid(cur[e])'
    BY <1>0, <2>1 DEF Paid
  <2>5. opened[cur[e]] <= crashes + lost
    BY <1>0, <2>1, <2>2 DEF OpensPaid
  <2>6. ASSUME NEW s \in Sessions
        PROVE  opened'[s] <= (IF Paid(s)' THEN 1 ELSE 0) + crashes + lost
    <3>1. CASE s = cur[e]
      BY <1>0, <2>1, <2>4, <2>5, <3>1
    <3>2. CASE s # cur[e]
      <4>1. opened'[s] = opened[s]
        BY <1>0, <2>1, <3>2
      <4> QED
        BY <1>0, <2>3, <4>1 DEF OpensPaid
    <3> QED
      BY <3>1, <3>2
  <2>7. \A d \in Executors : pc'[d] \in {"inflight", "open"} => cur[d] \notin completed
    BY <1>0, <2>1 DEF OpensPaid
  <2> QED
    BY <2>1, <2>6, <2>7 DEF OpensPaid
<1>3. ASSUME NEW e \in Executors, OpenUnconfirmed(e) PROVE OpensPaid'
  <2>1. /\ UNCHANGED <<completed, crashes, cur>>
        /\ pc[e] = "open" /\ cur[e] \in Sessions
        /\ lost' = lost + 1
        /\ opened' = [opened EXCEPT ![cur[e]] = @ + 1]
    BY <1>3 DEF OpenUnconfirmed, CountTry, Typed, Occupied, Working
  <2>2. pc' = [pc EXCEPT ![e] = "open"] \/ pc' = [pc EXCEPT ![e] = "release"]
    BY <1>3 DEF OpenUnconfirmed, CountTry
  <2>3. \A s \in Sessions : Paid(s) => Paid(s)'
    BY <1>0, <2>1, <2>2 DEF Paid
  <2>4. \A s \in Sessions : opened'[s] <= opened[s] + 1
    BY <1>0, <2>1
  <2>5. opened' \in [Sessions -> Nat]
    BY <1>0, <2>1
  <2>6. \A s \in Sessions : opened'[s] <= (IF Paid(s)' THEN 1 ELSE 0) + crashes + lost + 1
    BY <1>0, <2>3, <2>4, <2>5 DEF OpensPaid
  <2>7. \A d \in Executors : pc'[d] \in {"inflight", "open"} => cur[d] \notin completed
    BY <1>0, <2>1, <2>2 DEF OpensPaid
  <2>8. \A s \in Sessions : opened'[s] <= (IF Paid(s)' THEN 1 ELSE 0) + crashes + lost'
    BY <1>0, <2>1, <2>5, <2>6
  <2> QED
    BY <2>1, <2>7, <2>8 DEF OpensPaid
<1>4. ASSUME NEW e \in Executors, MarkCompleted(e) PROVE OpensPaid'
  <2>1. /\ UNCHANGED <<opened, crashes, lost, cur>>
        /\ pc[e] = "mark" /\ cur[e] \in Sessions
        /\ pc' = [pc EXCEPT ![e] = "done"]
        /\ completed' = completed \cup {cur[e]}
    BY <1>4 DEF MarkCompleted, Typed, Occupied, Working
  <2>2. \A s \in Sessions : Paid(s) => Paid(s)'
    BY <1>0, <2>1 DEF Paid
  <2>3. \A s \in Sessions : opened[s] <= (IF Paid(s)' THEN 1 ELSE 0) + crashes + lost
    BY <1>0, <2>2 DEF OpensPaid
  <2>4. ASSUME NEW d \in Executors, pc'[d] \in {"inflight", "open"}
        PROVE  cur[d] \notin completed'
    <3>1. d # e /\ pc[d] = pc'[d]
      BY <1>0, <2>1, <2>4
    <3>2. cur[d] # cur[e]
      BY <2>1, <3>1, SoleWorker
    <3> QED
      BY <2>1, <2>4, <3>1, <3>2 DEF OpensPaid
  <2> QED
    BY <2>1, <2>3, <2>4 DEF OpensPaid
<1>5. ASSUME Crash PROVE OpensPaid'
  <2>1. /\ crashes' = crashes + 1 /\ lost' = lost /\ opened' = opened
        /\ \A e \in Executors : pc'[e] = "idle"
    BY <1>5 DEF Crash
  <2>2. \A s \in Sessions : opened[s] <= crashes + 1 + lost
    BY <1>0 DEF OpensPaid
  <2>3. \A s \in Sessions : opened'[s] <= (IF Paid(s)' THEN 1 ELSE 0) + crashes' + lost'
    BY <1>0, <2>1, <2>2
  <2> QED
    BY <2>1, <2>3 DEF OpensPaid
<1>6. ASSUME NEW e \in Executors, RecoveryPass(e) PROVE OpensPaid'
  <2>1. UNCHANGED <<opened, completed, crashes, lost>>
    BY <1>6 DEF RecoveryPass, LoadPass, ClaimItem, DropItem, DeferItem, AttemptItem, RecoverDone,
                RecoverUnmonitored, RecoverFailed
  <2>2. /\ pc[e] \notin {"inflight", "open", "openRow", "releaseDone", "mark"}
        /\ pc'[e] \notin {"inflight", "open", "openRow", "releaseDone", "mark"}
    BY <1>0, <1>6
    DEF RecoveryPass, LoadPass, ClaimItem, DropItem, DeferItem, AttemptItem, RecoverDone,
        RecoverUnmonitored, RecoverFailed
  <2>3. \A d \in Executors : d # e => pc'[d] = pc[d] /\ cur'[d] = cur[d]
    BY <1>0, <1>6
    DEF RecoveryPass, LoadPass, ClaimItem, DropItem, DeferItem, AttemptItem, RecoverDone,
        RecoverUnmonitored, RecoverFailed, ReleaseClaim
  <2> QED
    BY <2>1, <2>2, <2>3, PaidKept
<1>7. ASSUME NEW e \in Executors, Save(e) \/ Evaluate(e) PROVE OpensPaid'
  <2>1. UNCHANGED <<opened, completed, crashes, lost>>
    BY <1>7 DEF Save, SaveTruncate, SaveWrite, SaveError, Evaluate, StartRebalance,
                EndEvaluation, CloseFailed, CloseUnconfirmed, CloseConfirmed, CloseRow,
                RebalanceDone, RebalanceIncomplete
  <2>2. /\ pc[e] \notin {"inflight", "open", "openRow", "releaseDone", "mark"}
        /\ pc'[e] \notin {"inflight", "open", "openRow", "releaseDone", "mark"}
    BY <1>0, <1>7
    DEF Save, SaveTruncate, SaveWrite, SaveError, Evaluate, StartRebalance, EndEvaluation,
        CloseFailed, CloseUnconfirmed, CloseConfirmed, CloseRow, RebalanceDone,
        RebalanceIncomplete
  <2>3. \A d \in Executors : d # e => pc'[d] = pc[d] /\ cur'[d] = cur[d]
    BY <1>0, <1>7
    DEF Save, SaveTruncate, SaveWrite, SaveError, Evaluate, StartRebalance, EndEvaluation,
        CloseFailed, CloseUnconfirmed, CloseConfirmed, CloseRow, RebalanceDone,
        RebalanceIncomplete, Finish
  <2> QED
    BY <2>1, <2>2, <2>3, PaidKept
<1>8. ASSUME NEW e \in Executors,
             \/ PrepareError(e) \/ LedgerGuard(e) \/ InflightGuard(e) \/ MixError(e)
             \/ OpenFailed(e) \/ OpenRow(e) \/ ReleaseInflight(e)
      PROVE  OpensPaid'
  <2>1. UNCHANGED <<opened, completed, crashes, lost, cur>>
    BY <1>8 DEF PrepareError, LedgerGuard, InflightGuard, MixError, OpenFailed, CountTry, OpenRow,
                ReleaseInflight
  <2>2. /\ pc'[e] \in {"inflight", "open"} => pc[e] \in {"inflight", "open"}
        /\ pc[e] \in {"openRow", "releaseDone", "mark"} =>
             pc'[e] \in {"openRow", "releaseDone", "mark"}
    BY <1>0, <1>8
    DEF PrepareError, LedgerGuard, InflightGuard, MixError, OpenFailed, CountTry, OpenRow,
        ReleaseInflight
  <2>3. \A d \in Executors : d # e => pc'[d] = pc[d]
    BY <1>0, <1>8
    DEF PrepareError, LedgerGuard, InflightGuard, MixError, OpenFailed, CountTry, OpenRow,
        ReleaseInflight
  <2> QED
    BY <2>1, <2>2, <2>3, PaidKept
<1>9. ASSUME WatchdogStep \/ DismissStep \/ UNCHANGED vars PROVE OpensPaid'
  <2>1. UNCHANGED <<opened, completed, crashes, lost, pc, cur>>
    BY <1>9 DEF WatchdogStep, WatchdogScan, WatchdogLoad, WatchdogTruncate, WatchdogWrite,
                DismissStep, DismissLoad, DismissTruncate, DismissWrite, DismissPersist, vars
  <2> QED
    BY <2>1, PaidKept
<1> QED
  BY <1>1, <1>2, <1>3, <1>4, <1>5, <1>6, <1>7, <1>8, <1>9 DEF Next, ExecutorStep, OpenPath

\* While the watchdog queues nothing of its own, each open of a session beyond the
\* first needs a restart or a transaction that landed unconfirmed, for any number
\* of executors sharing the pending-open file and any order of their saves.
THEOREM DuplicatesNeedFaults == Spec => []DuplicateNeedsFault
<1>1. CASE WatchdogOn
  BY <1>1, PTL DEF DuplicateNeedsFault
<1>2. CASE ~WatchdogOn
  <2>1. Init => RebalanceAlone /\ OpensPaid
    <3>1. Init => RebalanceAlone
      BY DEF Init, RebalanceAlone
    <3>2. Init => OpensPaid
      BY DEF Init, OpensPaid
    <3> QED
      BY <3>1, <3>2
  <2>2. Typed /\ Typed' /\ ClaimsExact /\ OnlyClosed /\ RebalanceAlone /\ OpensPaid
          /\ [Next]_vars => RebalanceAlone' /\ OpensPaid'
    BY <1>2, RebalanceAloneStep, OpensPaidStep
  <2>3. Typed /\ OpensPaid => DuplicateNeedsFault
    <3> SUFFICES ASSUME Typed, OpensPaid, NEW s \in Sessions
                 PROVE  opened[s] <= 1 + crashes + lost
      BY DEF DuplicateNeedsFault
    <3>1. opened[s] \in Nat /\ crashes \in Nat /\ lost \in Nat
      BY BoundAssumption DEF Typed, TypeOK
    <3> QED
      BY <3>1 DEF OpensPaid
  <2> QED
    BY <2>1, <2>2, <2>3, TypedInvariant, ClaimsAreExact, OnlyClosedInvariant, PTL DEF Spec
<1> QED
  BY <1>1, <1>2
=============================================================================
