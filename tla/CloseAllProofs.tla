--------------------------- MODULE CloseAllProofs ---------------------------
(***************************************************************************)
(* What holds of CloseAll for any number of batches, positions and         *)
(* strategies, and for every fault: the states stay well typed, what is    *)
(* reported closed is settled, and every batch implements BatchReport.     *)
(***************************************************************************)
EXTENDS CloseAll, FiniteSetTheorems, TLAPS

\* A close that is to be submitted has an attempt left.
GoodTask == {t \in TaskRecord :
               /\ t.pc \in {"snapshot", "lookup"} => t.tries = 0
               /\ t.pc = "submit" => t.tries < MaxAttempts}

\* An executor in the middle of a rotation has its positions in hand.
ExecTyped ==
  /\ exec \in [Strategies -> ExecRecord]
  /\ \A s \in Strategies :
       /\ exec[s].pc \notin {"idle", "pass"} => exec[s].old \in Pos
       /\ exec[s].pc \in {"adding", "inserting"} => exec[s].new \in Pos

\* A pause and a reopen hook in the middle of a visit know whom they visit.
GoodPause == {u \in PauseRecord :
                /\ u.pc = "push" => u.pos \in Pos
                /\ u.pc \in {"list", "tell"} => u.pos \in Pos /\ u.at \in Strategies}
GoodHook == {h \in HookRecord : h.pc \in {"read", "set"} => h.at \in Strategies}

\* The records of closes, executors, pauses and hooks are where they can be.
Bounded ==
  /\ task \in [Batches -> [Pos -> GoodTask]]
  /\ ExecTyped
  /\ pausing \in [Batches -> GoodPause]
  /\ hooks \subseteq GoodHook

\* Nothing but a rotation touches a position before it is opened, and a close
\* transaction that landed has removed the account.
Born ==
  /\ accounts \cap unborn = {}
  /\ monitor \cap unborn = {}
  /\ adding \cap unborn = {}
  /\ \A s \in Strategies :
       exec[s].pc \in {"adding", "inserting"} => exec[s].new \notin unborn
  /\ \A b \in Batches, p \in Pos :
       /\ task[b][p].pc \notin {"idle", "snapshot"} => p \notin unborn
       /\ tx[b][p] = "landed" => p \in Gone
  /\ recorded \subseteq Gone

\* The job's items follow the closes, and what is closed was written first.
Reported ==
  \A b \in Batches :
    /\ job[b] = "none" => \A p \in Pos : item[b][p] = "none"
    /\ job[b] \in {"pausing", "closing"} => \E p \in Pos : item[b][p] # "none"
    /\ \A p \in Pos :
         /\ (task[b][p].pc # "idle") <=> (item[b][p] \in {"pending", "submitted"})
         /\ item[b][p] \in OpenItems => job[b] \in {"pausing", "closing"}
         /\ (task[b][p].pc \in {"unlink", "drop"} \/ item[b][p] \in ClosedItems)
              => p \in Gone /\ row[b][p] = "confirmed"

\* Once unlinked, a position is linked again only if a rotation opened it.
Unlinked ==
  /\ \A h \in hooks : h.new \in Fresh
  /\ \A b \in Batches, p \in Pos \ Fresh :
       (task[b][p].pc = "drop" \/ item[b][p] \in ClosedItems)
         => \A s \in Strategies : p \notin links[s]

\* The inductive invariant of the bulk close.
IndInv == TypeOK /\ Bounded /\ Born /\ Reported /\ Unlinked
-----------------------------------------------------------------------------
(* Types and bounds.                                                       *)

\* A batch works on positions that exist.
LEMMA RequestsArePositions ==
  ASSUME TypeOK, NEW S \in RequestedSets PROVE S \subseteq Pos
  BY ConstantsAssumption DEF TypeOK, RequestedSets, MonitoredAddresses

\* Subsets of the positions can be counted.
LEMMA CountPositions ==
  ASSUME NEW S \in SUBSET Pos PROVE Cardinality(S) \in Nat
  BY ConstantsAssumption, FS_Subset, FS_CardinalityType

\* Setting one field keeps a task record a task record, and the other fields.
LEMMA SetStep ==
  ASSUME NEW t \in TaskRecord, NEW x \in Steps
  PROVE  /\ [t EXCEPT !.pc = x] \in TaskRecord
         /\ [t EXCEPT !.pc = x].pc = x
         /\ [t EXCEPT !.pc = x].tries = t.tries
  BY DEF TaskRecord

\* The same for the number of attempts,
LEMMA SetTries ==
  ASSUME NEW t \in TaskRecord, NEW n \in 0..MaxAttempts
  PROVE  /\ [t EXCEPT !.tries = n] \in TaskRecord
         /\ [t EXCEPT !.tries = n].pc = t.pc
         /\ [t EXCEPT !.tries = n].tries = n
  BY DEF TaskRecord

\* and for the other fields.
LEMMA SetOthers ==
  ASSUME NEW t \in TaskRecord
  PROVE  /\ [t EXCEPT !.who = "fin"] \in TaskRecord
         /\ [t EXCEPT !.who = "fin"].pc = t.pc
         /\ [t EXCEPT !.retried = TRUE] \in TaskRecord
         /\ [t EXCEPT !.retried = TRUE].pc = t.pc
         /\ [t EXCEPT !.already = TRUE] \in TaskRecord
         /\ [t EXCEPT !.already = TRUE].pc = t.pc
  BY DEF TaskRecord

\* The record of a position that is not being closed.
LEMMA IdleIsGood == IdleTask \in GoodTask /\ [IdleTask EXCEPT !.pc = "snapshot"] \in GoodTask
<1>1. IdleTask \in TaskRecord /\ IdleTask.pc = "idle" /\ IdleTask.tries = 0
  BY ConstantsAssumption DEF TaskRecord, Steps, IdleTask
<1>2. "snapshot" \in Steps
  BY DEF Steps
<1> QED
  BY <1>1, <1>2, SetStep DEF GoodTask

\* A step other than to the submit or back to its start needs no attempt left.
LEMMA GotoIsGood ==
  ASSUME NEW t \in GoodTask, NEW x \in Steps \ {"snapshot", "lookup", "submit"}
  PROVE  /\ [t EXCEPT !.pc = x] \in GoodTask
         /\ [t EXCEPT !.pc = x, !.already = TRUE] \in GoodTask
         /\ [t EXCEPT !.pc = x, !.who = "fin"] \in GoodTask
<1>1. t \in TaskRecord
  BY DEF GoodTask
<1>2. [t EXCEPT !.pc = x] \in TaskRecord /\ [t EXCEPT !.pc = x].pc = x
  BY <1>1, SetStep
<1>3. [[t EXCEPT !.pc = x] EXCEPT !.already = TRUE] \in TaskRecord
      /\ [[t EXCEPT !.pc = x] EXCEPT !.already = TRUE].pc = x
  BY <1>2, SetOthers
<1>4. [[t EXCEPT !.pc = x] EXCEPT !.who = "fin"] \in TaskRecord
      /\ [[t EXCEPT !.pc = x] EXCEPT !.who = "fin"].pc = x
  BY <1>2, SetOthers
<1> QED
  BY <1>2, <1>3, <1>4 DEF GoodTask

\* The retry with a raised slippage starts to count again.
LEMMA RetryIsGood ==
  ASSUME NEW t \in GoodTask
  PROVE  [t EXCEPT !.pc = "snapshot", !.retried = TRUE, !.tries = 0] \in GoodTask
<1> DEFINE u == [t EXCEPT !.pc = "snapshot"]
           v == [u EXCEPT !.retried = TRUE]
           w == [v EXCEPT !.tries = 0]
<1>0. t \in TaskRecord /\ "snapshot" \in Steps /\ 0 \in 0..MaxAttempts
  BY ConstantsAssumption DEF GoodTask, Steps
<1>1. u \in TaskRecord /\ u.pc = "snapshot"
  BY <1>0, SetStep
<1>2. v \in TaskRecord /\ v.pc = "snapshot"
  BY <1>1, SetOthers
<1>3. w \in TaskRecord /\ w.pc = "snapshot" /\ w.tries = 0
  BY <1>0, <1>2, SetTries
<1>4. w \in GoodTask
  BY <1>3 DEF GoodTask
<1> QED
  BY <1>4

\* A submit counts one attempt, which it has left.
LEMMA SentIsGood ==
  ASSUME NEW t \in GoodTask, t.pc = "submit", NEW x \in {"confirm", "pool", "poll"}
  PROVE  [t EXCEPT !.pc = x, !.tries = @ + 1] \in GoodTask
<1> DEFINE u == [t EXCEPT !.pc = x]
<1>1. u \in TaskRecord /\ u.tries = t.tries /\ u.pc = x
  <2>1. t \in TaskRecord /\ x \in Steps
    BY DEF GoodTask, Steps
  <2> QED
    BY <2>1, SetStep
<1>2. t.tries + 1 \in 0..MaxAttempts
  BY ConstantsAssumption DEF GoodTask, TaskRecord
<1>3. [u EXCEPT !.tries = t.tries + 1] \in TaskRecord /\ [u EXCEPT !.tries = t.tries + 1].pc = x
  BY <1>1, <1>2, SetTries
<1> QED
  BY <1>3 DEF GoodTask

\* Every step of a close sets the record of that close, and keeps it good.
LEMMA CloseSetsTask ==
  ASSUME TypeOK, Bounded, NEW b \in Batches, NEW p \in Pos, GroupStep(b, p)
  PROVE  \E t \in GoodTask : task' = [task EXCEPT ![b][p] = t]
<1>0. task[b][p] \in GoodTask /\ task \in [Batches -> [Pos -> GoodTask]]
  BY DEF Bounded
<1>1. CASE GroupWithoutWallet(b, p)
  BY <1>0, <1>1 DEF GroupWithoutWallet
<1>2. CASE BeginClose(b, p)
  BY <1>0, <1>2, IdleIsGood DEF BeginClose
<1>3. CASE \E status : Report(b, p, status)
  BY <1>0, <1>3, IdleIsGood DEF Report
<1>4. CASE \E x \in Steps \ {"snapshot", "lookup", "submit"} : Goto(b, p, x)
  <2> PICK x \in Steps \ {"snapshot", "lookup", "submit"} : Goto(b, p, x)
    BY <1>4
  <2> QED
    BY <1>0, GotoIsGood DEF Goto
<1>5. CASE RetryHigher(b, p)
  <2> DEFINE t == [task[b][p] EXCEPT !.pc = "snapshot", !.retried = TRUE, !.tries = 0]
  <2>1. t \in GoodTask
    BY <1>0, RetryIsGood
  <2>2. task' = [task EXCEPT ![b][p] = t]
    BY <1>0, <1>5 DEF RetryHigher
  <2> QED
    BY <2>1, <2>2
<1>6. CASE Snapshot(b, p) /\ Goto(b, p, "lookup")
  <2> DEFINE t == [task[b][p] EXCEPT !.pc = "lookup"]
  <2>1. t \in TaskRecord /\ t.pc = "lookup" /\ t.tries = 0
    BY <1>0, <1>6, SetStep DEF Snapshot, GoodTask, Steps
  <2> QED
    BY <1>0, <1>6, <2>1 DEF Goto, GoodTask
<1>7. CASE Lookup(b, p) /\ Goto(b, p, "submit")
  <2> DEFINE t == [task[b][p] EXCEPT !.pc = "submit"]
  <2>1. t \in TaskRecord /\ t.pc = "submit" /\ t.tries < MaxAttempts
    <3>1. task[b][p] \in TaskRecord /\ task[b][p].tries = 0 /\ "submit" \in Steps
      BY <1>0, <1>7 DEF Lookup, GoodTask, Steps
    <3>2. 0 < MaxAttempts
      BY ConstantsAssumption
    <3> QED
      BY <3>1, <3>2, SetStep
  <2> QED
    BY <1>0, <1>7, <2>1 DEF Goto, GoodTask
<1>8. CASE ConfirmSlippage(b, p) /\ task[b][p].tries < MaxAttempts /\ Goto(b, p, "submit")
  <2> DEFINE t == [task[b][p] EXCEPT !.pc = "submit"]
  <2>1. t \in TaskRecord /\ t.pc = "submit" /\ t.tries < MaxAttempts
    BY <1>0, <1>8, SetStep DEF GoodTask, Steps
  <2> QED
    BY <1>0, <1>8, <2>1 DEF Goto, GoodTask
<1>9. CASE SubmitMissing(b, p) \/ ConfirmKnownClosed(b, p)
  <2>1. "unlink" \in Steps \ {"snapshot", "lookup", "submit"}
    BY DEF Steps
  <2> DEFINE t == [task[b][p] EXCEPT !.pc = "unlink", !.already = TRUE]
  <2>2. t \in GoodTask
    BY <1>0, <2>1, GotoIsGood
  <2>3. task' = [task EXCEPT ![b][p] = t]
    BY <1>0, <1>9 DEF SubmitMissing, ConfirmKnownClosed
  <2> QED
    BY <2>2, <2>3
<1>10. CASE SubmitSent(b, p)
  <2> DEFINE x == IF ~SendFirst(b) THEN "confirm"
                  ELSE IF task[b][p].who = "fin" THEN "pool" ELSE "poll"
  <2>1. x \in {"confirm", "pool", "poll"}
    OBVIOUS
  <2> HIDE DEF x
  <2>2. [task[b][p] EXCEPT !.pc = x, !.tries = @ + 1] \in GoodTask
    BY <1>0, <1>10, <2>1, SentIsGood DEF SubmitSent
  <2>3. task' = [task EXCEPT ![b][p] = [task[b][p] EXCEPT !.pc = x, !.tries = @ + 1]]
    BY <1>0, <1>10 DEF SubmitSent, x
  <2> QED
    BY <2>2, <2>3
<1>11. CASE PollDone(b, p)
  <2>1. "pool" \in Steps \ {"snapshot", "lookup", "submit"}
    BY DEF Steps
  <2> QED
    BY <1>0, <1>11, <2>1, GotoIsGood DEF PollDone
<1> QED
  <2>1. CASE Snapshot(b, p)
    BY <2>1, <1>3, <1>6 DEF Snapshot
  <2>2. CASE Lookup(b, p)
    BY <2>2, <1>3, <1>7 DEF Lookup, GiveUp
  <2>3. CASE SubmitError(b, p) \/ ConfirmFailed(b, p) \/ Drop(b, p)
    BY <2>3, <1>3 DEF SubmitError, ConfirmFailed, Drop, GiveUp
  <2>4. CASE PollRetry(b, p)
    BY <2>4, <1>5 DEF PollRetry
  <2>5. CASE FinalizeLookup(b, p)
    BY <2>5, <1>3, <1>4 DEF FinalizeLookup, GiveUp, Steps
  <2>6. CASE ConfirmLanded(b, p) \/ Unlink(b, p)
    BY <2>6, <1>4 DEF ConfirmLanded, Unlink, Steps
  <2>7. CASE ConfirmSlippage(b, p)
    BY <2>7, <1>3, <1>5, <1>8 DEF ConfirmSlippage, GiveUp
  <2> QED
    BY <1>1, <1>2, <1>9, <1>10, <1>11, <2>1, <2>2, <2>3, <2>4, <2>5, <2>6, <2>7 DEF GroupStep

\* A two-level table with one entry set.
LEMMA SetEntry ==
  ASSUME NEW V, NEW f \in [Batches -> [Pos -> V]],
         NEW b \in Batches, NEW p \in Pos, NEW v \in V
  PROVE  [f EXCEPT ![b][p] = v] \in [Batches -> [Pos -> V]]
  OBVIOUS

\* An executor moves on with its positions in hand.
LEMMA SetExec ==
  ASSUME ExecTyped, NEW s \in Strategies, NEW e \in ExecRecord,
         e.pc \notin {"idle", "pass"} => e.old \in Pos,
         e.pc \in {"adding", "inserting"} => e.new \in Pos,
         exec' = [exec EXCEPT ![s] = e]
  PROVE  ExecTyped'
  BY DEF ExecTyped

\* The record of an executor that goes on with its pass.
LEMMA ResumedTyped ==
  ASSUME NEW e \in ExecRecord
  PROVE  Resumed(e) \in ExecRecord /\ Resumed(e).pc \in {"idle", "pass"}
BY DEF Resumed, IdleExec, ExecRecord, ExecPlaces

\* The records an executor's steps leave.
LEMMA ExecSteps ==
  ASSUME ExecTyped, NEW s \in Strategies
  PROVE  /\ exec' = [exec EXCEPT ![s] = Resumed(exec[s])] => ExecTyped'
         /\ exec[s].pc = "refresh" /\ exec' = [exec EXCEPT ![s].pc = "closing"] => ExecTyped'
         /\ exec[s].pc = "closing" /\ exec' = [exec EXCEPT ![s].pc = "opening"] => ExecTyped'
         /\ exec[s].pc = "adding" /\ exec' = [exec EXCEPT ![s].pc = "inserting"] => ExecTyped'
         /\ \A q \in Pos : exec[s].pc = "opening"
              /\ exec' = [exec EXCEPT ![s].pc = "adding", ![s].new = q] => ExecTyped'
<1>0. exec \in [Strategies -> ExecRecord] /\ exec[s] \in ExecRecord
  BY DEF ExecTyped
<1>1. ASSUME exec' = [exec EXCEPT ![s] = Resumed(exec[s])] PROVE ExecTyped'
  <2>1. Resumed(exec[s]) \in ExecRecord /\ Resumed(exec[s]).pc \in {"idle", "pass"}
    BY <1>0, ResumedTyped
  <2> QED
    BY <1>1, <2>1, SetExec
<1>2. ASSUME exec[s].pc = "refresh", exec' = [exec EXCEPT ![s].pc = "closing"] PROVE ExecTyped'
  <2> DEFINE e == [exec[s] EXCEPT !.pc = "closing"]
  <2>1. e \in ExecRecord /\ e.pc = "closing" /\ e.old = exec[s].old
    BY <1>0 DEF ExecRecord, ExecPlaces
  <2>2. exec' = [exec EXCEPT ![s] = e] /\ exec[s].old \in Pos
    BY <1>0, <1>2 DEF ExecTyped
  <2> HIDE DEF e
  <2> QED
    BY <2>1, <2>2, SetExec
<1>3. ASSUME exec[s].pc = "closing", exec' = [exec EXCEPT ![s].pc = "opening"] PROVE ExecTyped'
  <2> DEFINE e == [exec[s] EXCEPT !.pc = "opening"]
  <2>1. e \in ExecRecord /\ e.pc = "opening" /\ e.old = exec[s].old
    BY <1>0 DEF ExecRecord, ExecPlaces
  <2>2. exec' = [exec EXCEPT ![s] = e] /\ exec[s].old \in Pos
    BY <1>0, <1>3 DEF ExecTyped
  <2> HIDE DEF e
  <2> QED
    BY <2>1, <2>2, SetExec
<1>4. ASSUME exec[s].pc = "adding", exec' = [exec EXCEPT ![s].pc = "inserting"] PROVE ExecTyped'
  <2> DEFINE e == [exec[s] EXCEPT !.pc = "inserting"]
  <2>1. e \in ExecRecord /\ e.old = exec[s].old /\ e.new = exec[s].new
    BY <1>0 DEF ExecRecord, ExecPlaces
  <2>2. exec' = [exec EXCEPT ![s] = e] /\ exec[s].old \in Pos /\ exec[s].new \in Pos
    BY <1>0, <1>4 DEF ExecTyped
  <2> HIDE DEF e
  <2> QED
    BY <2>1, <2>2, SetExec
<1>5. ASSUME NEW q \in Pos, exec[s].pc = "opening",
             exec' = [exec EXCEPT ![s].pc = "adding", ![s].new = q]
      PROVE  ExecTyped'
  <2> DEFINE e == [exec[s] EXCEPT !.pc = "adding", !.new = q]
  <2>1. e \in ExecRecord /\ e.old = exec[s].old /\ e.new = q
    BY <1>0 DEF ExecRecord, ExecPlaces
  <2>2. exec' = [exec EXCEPT ![s] = e] /\ exec[s].old \in Pos
    BY <1>0, <1>5 DEF ExecTyped
  <2> HIDE DEF e
  <2> QED
    BY <2>1, <2>2, SetExec
<1> QED
  BY <1>1, <1>2, <1>3, <1>4, <1>5

\* A pass begins, and takes up or passes over its next position.
LEMMA PassSteps ==
  ASSUME TypeOK, ExecTyped, NEW s \in Strategies,
         StartPass(s) \/ \E p \in Pos : TakePosition(s, p)
  PROVE  ExecTyped' /\ exec'[s].pc \in {"idle", "pass", "refresh"}
<1>0. exec \in [Strategies -> ExecRecord] /\ exec[s] \in ExecRecord
  BY DEF ExecTyped
<1>1. CASE StartPass(s)
  <2> DEFINE e == [IdleExec EXCEPT !.pc = "pass", !.todo = monitor \cap allow[s]]
  <2>1. e \in ExecRecord /\ e.pc = "pass"
    BY DEF TypeOK, IdleExec, ExecRecord, ExecPlaces
  <2>2. exec' = [exec EXCEPT ![s] = e]
    BY <1>1 DEF StartPass
  <2> HIDE DEF e
  <2> QED
    BY <1>0, <2>1, <2>2, SetExec
<1>2. ASSUME NEW p \in Pos, TakePosition(s, p) PROVE ExecTyped' /\ exec'[s].pc \in {"idle", "pass", "refresh"}
  <2> DEFINE rest == [exec[s] EXCEPT !.todo = @ \ {p}]
             e == [rest EXCEPT !.pc = "refresh", !.old = p]
  <2>1. rest \in ExecRecord
    BY <1>0 DEF ExecRecord
  <2>2. e \in ExecRecord /\ e.pc = "refresh" /\ e.old = p
    BY <2>1 DEF ExecRecord, ExecPlaces
  <2>3. exec' = [exec EXCEPT ![s] = Resumed(rest)] \/ exec' = [exec EXCEPT ![s] = e]
    BY <1>2 DEF TakePosition
  <2> HIDE DEF rest, e
  <2>4. Resumed(rest) \in ExecRecord /\ Resumed(rest).pc \in {"idle", "pass"}
    BY <2>1, ResumedTyped
  <2>5. CASE exec' = [exec EXCEPT ![s] = Resumed(rest)]
    BY <1>0, <2>4, <2>5, SetExec
  <2>6. CASE exec' = [exec EXCEPT ![s] = e]
    BY <1>0, <2>2, <2>6, SetExec
  <2> QED
    BY <2>3, <2>5, <2>6
<1> QED
  BY <1>1, <1>2

\* A pause moves on, with the lists of the strategies it visits.
LEMMA PauseSteps ==
  ASSUME TypeOK, Bounded, NEW b \in Batches, PauseStep(b)
  PROVE  /\ pausing' \in [Batches -> GoodPause]
         /\ pausing' \in [Batches -> PauseRecord]
         /\ topause' \in [Batches -> SUBSET Pos] /\ touched' \in [Batches -> SUBSET Strategies]
         /\ disabled' \in [Strategies -> SUBSET Pos] /\ skip' \in [Strategies -> SUBSET Pos]
         /\ UNCHANGED <<chainVars, links, allow, target, execVars, monitorVars, job, mode, lost, closeVars>>
<1> DEFINE u == pausing[b]
<1>0. /\ pausing \in [Batches -> GoodPause] /\ u \in GoodPause /\ u \in PauseRecord
      /\ disabled \in [Strategies -> SUBSET Pos] /\ skip \in [Strategies -> SUBSET Pos]
      /\ links \in [Strategies -> SUBSET Pos]
      /\ topause \in [Batches -> SUBSET Pos] /\ touched \in [Batches -> SUBSET Strategies]
  BY DEF Bounded, TypeOK, GoodPause
<1>1. NoPause \in GoodPause
  BY DEF NoPause, GoodPause, PauseRecord
<1>2. SUFFICES
        /\ \E v \in GoodPause : pausing' = [pausing EXCEPT ![b] = v]
        /\ topause' \in [Batches -> SUBSET Pos] /\ touched' \in [Batches -> SUBSET Strategies]
        /\ disabled' \in [Strategies -> SUBSET Pos] /\ skip' \in [Strategies -> SUBSET Pos]
        /\ UNCHANGED <<chainVars, links, allow, target, execVars, monitorVars, job, mode, lost, closeVars>>
  <2>1. GoodPause \subseteq PauseRecord
    BY DEF GoodPause
  <2> QED
    BY <1>0, <2>1
<1>3. ASSUME NEW p \in Pos, FindHolders(b, p)
      PROVE  /\ \E v \in GoodPause : pausing' = [pausing EXCEPT ![b] = v]
             /\ topause' \in [Batches -> SUBSET Pos] /\ touched' \in [Batches -> SUBSET Strategies]
  <2> DEFINE v == [NoPause EXCEPT !.pc = "push", !.pos = p, !.todo = Holding(p) \ touched[b]]
  <2>1. v \in GoodPause
    BY DEF NoPause, GoodPause, PauseRecord, Holding
  <2>2. pausing' \in {[pausing EXCEPT ![b] = NoPause], [pausing EXCEPT ![b] = v]}
    BY <1>3 DEF FindHolders
  <2> HIDE DEF v
  <2>3. topause' \in [Batches -> SUBSET Pos] /\ touched' \in [Batches -> SUBSET Strategies]
    BY <1>0, <1>3 DEF FindHolders, Holding
  <2> QED
    BY <1>1, <2>1, <2>2, <2>3
<1>4. ASSUME NEW s \in Strategies, PushDisabled(b, s)
      PROVE  /\ \E v \in GoodPause : pausing' = [pausing EXCEPT ![b] = v]
             /\ disabled' \in [Strategies -> SUBSET Pos]
  <2> DEFINE v == [u EXCEPT !.pc = "list", !.at = s, !.todo = @ \ {s}]
  <2>1. u.pos \in Pos
    BY <1>0, <1>4 DEF PushDisabled, GoodPause
  <2>2. v \in PauseRecord /\ v.pos = u.pos /\ v.at = s /\ v.pc = "list"
    BY <1>0 DEF PauseRecord
  <2>3. pausing' = [pausing EXCEPT ![b] = v]
    BY <1>0, <1>4 DEF PushDisabled
  <2>4. disabled' \in [Strategies -> SUBSET Pos]
    BY <1>0, <1>4, <2>1 DEF PushDisabled
  <2> HIDE DEF v, u
  <2>5. v \in GoodPause
    BY <2>1, <2>2 DEF GoodPause
  <2> QED
    BY <2>3, <2>4, <2>5
<1>5. ASSUME ReadDisabled(b) PROVE \E v \in GoodPause : pausing' = [pausing EXCEPT ![b] = v]
  <2> DEFINE v == [u EXCEPT !.pc = "tell", !.list = disabled[u.at]]
  <2>1. u.pos \in Pos /\ u.at \in Strategies
    BY <1>0, <1>5 DEF ReadDisabled, GoodPause
  <2>2. v \in PauseRecord /\ v.pos = u.pos /\ v.at = u.at /\ v.pc = "tell"
    BY <1>0, <2>1 DEF PauseRecord
  <2>3. pausing' = [pausing EXCEPT ![b] = v]
    BY <1>0, <1>5 DEF ReadDisabled
  <2> HIDE DEF v, u
  <2>4. v \in GoodPause
    BY <2>1, <2>2 DEF GoodPause
  <2> QED
    BY <2>3, <2>4
<1>6. ASSUME TellExecutor(b)
      PROVE  /\ \E v \in GoodPause : pausing' = [pausing EXCEPT ![b] = v]
             /\ skip' \in [Strategies -> SUBSET Pos]
  <2> DEFINE v == [u EXCEPT !.pc = "push", !.at = NoStrategy, !.list = {}]
  <2>1. u.pos \in Pos /\ u.list \in SUBSET Pos
    BY <1>0, <1>6 DEF TellExecutor, GoodPause, PauseRecord
  <2>2. v \in PauseRecord /\ v.pos = u.pos /\ v.pc = "push"
    BY <1>0 DEF PauseRecord
  <2>3. pausing' \in {[pausing EXCEPT ![b] = NoPause], [pausing EXCEPT ![b] = v]}
    BY <1>6 DEF TellExecutor
  <2>4. skip' \in [Strategies -> SUBSET Pos]
    BY <1>0, <1>6, <2>1 DEF TellExecutor
  <2> HIDE DEF v, u
  <2>5. v \in GoodPause
    BY <2>1, <2>2 DEF GoodPause
  <2> QED
    BY <1>1, <2>3, <2>4, <2>5
<1>7. /\ UNCHANGED <<chainVars, links, allow, target, execVars, monitorVars, job, mode, lost, closeVars>>
      /\ (\A p \in Pos : ~FindHolders(b, p)) => UNCHANGED <<topause, touched>>
      /\ (\A s \in Strategies : ~PushDisabled(b, s)) => UNCHANGED disabled
      /\ ~TellExecutor(b) => UNCHANGED skip
  BY DEF PauseStep, FindHolders, PushDisabled, ReadDisabled, TellExecutor, linkVars
<1> HIDE DEF u
<1> QED
  BY <1>0, <1>3, <1>4, <1>5, <1>6, <1>7 DEF PauseStep

\* A hook moves on, and links or allows what it knows of.
LEMMA HookSteps ==
  ASSUME TypeOK, Bounded, NEW h \in hooks, HookStep(h)
  PROVE  /\ hooks' \subseteq GoodHook /\ hooks' \subseteq HookRecord
         /\ \A g \in hooks' : g \in hooks \/ g.new = h.new
         /\ links' \in [Strategies -> SUBSET Pos] /\ disabled' \in [Strategies -> SUBSET Pos]
         /\ allow' \in [Strategies -> SUBSET Pos] /\ target' \in [Strategies -> Nat]
         /\ \A s \in Strategies : links'[s] \subseteq links[s] \cup {h.new}
         /\ UNCHANGED <<chainVars, skip, exec, monitorVars, jobVars, closeVars>>
<1>0. /\ h \in GoodHook /\ h \in HookRecord /\ hooks \subseteq GoodHook
      /\ links \in [Strategies -> SUBSET Pos] /\ disabled \in [Strategies -> SUBSET Pos]
      /\ allow \in [Strategies -> SUBSET Pos] /\ target \in [Strategies -> Nat]
  BY DEF Bounded, TypeOK, GoodHook
<1>1. /\ h.old \in Pos /\ h.new \in Pos /\ h.by \in Strategies
      /\ h.todo \in SUBSET Strategies /\ h.list \in SUBSET Pos
  BY <1>0 DEF HookRecord
<1>2. GoodHook \subseteq HookRecord
  BY DEF GoodHook
<1> DEFINE Moved == \E g \in GoodHook : g.new = h.new /\ hooks' = (hooks \ {h}) \cup {g}
<1>3. SUFFICES
        /\ Moved \/ hooks' = hooks \ {h}
        /\ links' \in [Strategies -> SUBSET Pos] /\ disabled' \in [Strategies -> SUBSET Pos]
        /\ allow' \in [Strategies -> SUBSET Pos] /\ target' \in [Strategies -> Nat]
        /\ \A s \in Strategies : links'[s] \subseteq links[s] \cup {h.new}
        /\ UNCHANGED <<chainVars, skip, exec, monitorVars, jobVars, closeVars>>
  BY <1>0, <1>2
<1>4. CASE HookOwners(h)
  <2> DEFINE g == [h EXCEPT !.pc = "replace",
                            !.todo = IF Holding(h.old) = {} THEN {h.by} ELSE Holding(h.old)]
  <2>1. g \in HookRecord /\ g.pc = "replace" /\ g.new = h.new
    BY <1>0, <1>1 DEF HookRecord, Holding
  <2>2. hooks' = (hooks \ {h}) \cup {g}
    BY <1>4 DEF HookOwners, Becomes
  <2> HIDE DEF g
  <2>3. Moved
    BY <2>1, <2>2 DEF GoodHook
  <2> HIDE DEF Moved
  <2> QED
    BY <1>0, <1>4, <2>3 DEF HookOwners, linkVars
<1>5. ASSUME NEW s \in Strategies, HookReplace(h, s)
      PROVE  /\ Moved
             /\ links' \in [Strategies -> SUBSET Pos] /\ disabled' \in [Strategies -> SUBSET Pos]
             /\ \A t \in Strategies : links'[t] \subseteq links[t] \cup {h.new}
             /\ UNCHANGED <<allow, target>>
             /\ UNCHANGED <<chainVars, skip, exec, monitorVars, jobVars, closeVars>>
  <2> DEFINE g == [h EXCEPT !.pc = "read", !.todo = @ \ {s}, !.at = s]
  <2>1. g \in HookRecord /\ g.at = s /\ g.new = h.new
    BY <1>0, <1>1 DEF HookRecord
  <2>2. hooks' = (hooks \ {h}) \cup {g}
    BY <1>5 DEF HookReplace, Becomes
  <2> HIDE DEF g
  <2>3. Moved
    BY <2>1, <2>2 DEF GoodHook
  <2> HIDE DEF Moved
  <2> QED
    BY <1>0, <1>1, <1>5, <2>3 DEF HookReplace
<1>6. CASE HookReadLinks(h)
  <2>1. h.at \in Strategies
    BY <1>0, <1>6 DEF HookReadLinks, GoodHook
  <2> DEFINE g == [h EXCEPT !.pc = "set", !.list = links[h.at]]
  <2>2. g \in HookRecord /\ g.at = h.at /\ g.new = h.new
    BY <1>0, <2>1 DEF HookRecord
  <2>3. hooks' = (hooks \ {h}) \cup {g}
    BY <1>6 DEF HookReadLinks, Becomes
  <2> HIDE DEF g
  <2>4. Moved
    BY <2>1, <2>2, <2>3 DEF GoodHook
  <2> HIDE DEF Moved
  <2> QED
    BY <1>0, <1>6, <2>4 DEF HookReadLinks, linkVars
<1>7. CASE HookSetAllowlist(h)
  <2>1. Cardinality(h.list) \in Nat
    BY <1>1, CountPositions
  <2>2. allow' \in [Strategies -> SUBSET Pos] /\ target' \in [Strategies -> Nat]
    BY <1>0, <1>1, <1>7, <2>1 DEF HookSetAllowlist
  <2> DEFINE g == [h EXCEPT !.pc = "replace", !.at = NoStrategy, !.list = {}]
  <2>3. g \in HookRecord /\ g.pc = "replace" /\ g.new = h.new
    BY <1>0 DEF HookRecord
  <2>4. hooks' = hooks \ {h} \/ hooks' = (hooks \ {h}) \cup {g}
    BY <1>7 DEF HookSetAllowlist, Becomes
  <2> HIDE DEF g
  <2>5. Moved \/ hooks' = hooks \ {h}
    BY <2>3, <2>4 DEF GoodHook
  <2> HIDE DEF Moved
  <2> QED
    BY <1>0, <1>7, <2>2, <2>5 DEF HookSetAllowlist
<1> HIDE DEF Moved
<1> QED
  BY <1>0, <1>4, <1>5, <1>6, <1>7 DEF HookStep

\* No step of a worker, a group, an executor, the monitor or the chain leaves
\* the types, and the attempts of a close stay within MaxAttempts.
LEMMA TypeStep == TypeOK /\ Bounded /\ [Next]_vars => TypeOK' /\ Bounded'
<1> SUFFICES ASSUME TypeOK, Bounded, [Next]_vars PROVE TypeOK' /\ Bounded'
  OBVIOUS
<1>0. ASSUME NEW b \in Batches, NEW p \in Pos, GroupStep(b, p)
      PROVE  task' \in [Batches -> [Pos -> GoodTask]] /\ task' \in [Batches -> [Pos -> TaskRecord]]
  <2>1. PICK t \in GoodTask : task' = [task EXCEPT ![b][p] = t]
    BY <1>0, CloseSetsTask
  <2>2. t \in TaskRecord
    BY DEF GoodTask
  <2>3. task \in [Batches -> [Pos -> GoodTask]] /\ task \in [Batches -> [Pos -> TaskRecord]]
    BY DEF TypeOK, Bounded
  <2>4. task' \in [Batches -> [Pos -> GoodTask]]
    BY <2>1, <2>3, SetEntry
  <2>5. task' \in [Batches -> [Pos -> TaskRecord]]
    BY <2>1, <2>2, <2>3, SetEntry
  <2> QED
    BY <2>4, <2>5
<1> USE ConstantsAssumption DEF TypeOK, Bounded, ExecTyped, OpenItems,
      ClosedItems, Statuses, Outcomes, chainVars, linkVars, execVars, monitorVars, jobVars, pauseVars, closeVars
<1>1. ASSUME NEW b \in Batches, NEW S \in RequestedSets, NEW m \in Modes, StartBatch(b, S, m)
      PROVE  TypeOK' /\ Bounded'
  BY <1>1, RequestsArePositions DEF StartBatch, Closable
<1>2. ASSUME NEW b \in Batches, PauseStep(b) PROVE TypeOK' /\ Bounded'
  <2> HIDE DEF TypeOK, Bounded
  <2>1. /\ pausing' \in [Batches -> GoodPause]
        /\ pausing' \in [Batches -> PauseRecord]
        /\ topause' \in [Batches -> SUBSET Pos] /\ touched' \in [Batches -> SUBSET Strategies]
        /\ disabled' \in [Strategies -> SUBSET Pos] /\ skip' \in [Strategies -> SUBSET Pos]
        /\ UNCHANGED <<chainVars, links, allow, target, execVars, monitorVars, job, mode, lost, closeVars>>
    BY <1>2, PauseSteps
  <2> QED
    BY <2>1 DEF TypeOK, Bounded
<1>3. ASSUME NEW b \in Batches, StartGroups(b) PROVE TypeOK' /\ Bounded'
  BY <1>3 DEF StartGroups
<1>4. ASSUME NEW b \in Batches, FinishJob(b) PROVE TypeOK' /\ Bounded'
  BY <1>4 DEF FinishJob
<1>5. ASSUME NEW b \in Batches, NEW p \in Pos, GroupWithoutWallet(b, p)
      PROVE  TypeOK' /\ Bounded'
  <2>1. task' \in [Batches -> [Pos -> GoodTask]] /\ task' \in [Batches -> [Pos -> TaskRecord]]
    BY <1>5, <1>0 DEF GroupStep
  <2> QED
    BY <1>5, <2>1 DEF GroupWithoutWallet
<1>6. ASSUME NEW b \in Batches, NEW p \in Pos, BeginClose(b, p) PROVE TypeOK' /\ Bounded'
  <2>1. task' \in [Batches -> [Pos -> GoodTask]] /\ task' \in [Batches -> [Pos -> TaskRecord]]
    BY <1>6, <1>0 DEF GroupStep
  <2> QED
    BY <1>6, <2>1 DEF BeginClose
<1>7. ASSUME NEW b \in Batches, NEW p \in Pos, Snapshot(b, p) PROVE TypeOK' /\ Bounded'
  <2>1. task' \in [Batches -> [Pos -> GoodTask]] /\ task' \in [Batches -> [Pos -> TaskRecord]]
    BY <1>7, <1>0 DEF GroupStep
  <2>2. item' = item \/ item' = [item EXCEPT ![b][p] = "failed"]
    BY <1>7 DEF Snapshot, Report
  <2>3. row' = row \/ \E r \in {"pending", "failed"} : row' = [row EXCEPT ![b][p] = r]
    BY <1>7 DEF Snapshot, Report
  <2>4. item' \in [Batches -> [Pos -> Statuses]]
    <3>1. CASE item' = item
      BY <3>1
    <3>2. CASE item' = [item EXCEPT ![b][p] = "failed"]
      BY <3>2
    <3> QED
      BY <2>2, <3>1, <3>2
  <2>5. row' \in [Batches -> [Pos -> {"none", "pending", "failed", "confirmed"}]]
    <3>1. CASE row' = row
      BY <3>1
    <3>2. ASSUME NEW r \in {"pending", "failed"}, row' = [row EXCEPT ![b][p] = r]
          PROVE  row' \in [Batches -> [Pos -> {"none", "pending", "failed", "confirmed"}]]
      BY <3>2
    <3> QED
      BY <2>3, <3>1, <3>2
  <2> QED
    BY <1>7, <2>1, <2>4, <2>5 DEF Snapshot
<1>8. ASSUME NEW b \in Batches, NEW p \in Pos, Lookup(b, p) PROVE TypeOK' /\ Bounded'
  <2>1. task' \in [Batches -> [Pos -> GoodTask]] /\ task' \in [Batches -> [Pos -> TaskRecord]]
    BY <1>8, <1>0 DEF GroupStep
  <2>2. item' = item \/ item' = [item EXCEPT ![b][p] = "failed"]
    BY <1>8 DEF Lookup, GiveUp, Report
  <2>3. row' = row \/ \E r \in {"pending", "failed"} : row' = [row EXCEPT ![b][p] = r]
    BY <1>8 DEF Lookup, GiveUp, Report
  <2>4. item' \in [Batches -> [Pos -> Statuses]]
    <3>1. CASE item' = item
      BY <3>1
    <3>2. CASE item' = [item EXCEPT ![b][p] = "failed"]
      BY <3>2
    <3> QED
      BY <2>2, <3>1, <3>2
  <2>5. row' \in [Batches -> [Pos -> {"none", "pending", "failed", "confirmed"}]]
    <3>1. CASE row' = row
      BY <3>1
    <3>2. ASSUME NEW r \in {"pending", "failed"}, row' = [row EXCEPT ![b][p] = r]
          PROVE  row' \in [Batches -> [Pos -> {"none", "pending", "failed", "confirmed"}]]
      BY <3>2
    <3> QED
      BY <2>3, <3>1, <3>2
  <2> QED
    BY <1>8, <2>1, <2>4, <2>5 DEF Lookup
<1>9. ASSUME NEW b \in Batches, NEW p \in Pos, SubmitMissing(b, p) PROVE TypeOK' /\ Bounded'
  <2>1. task' \in [Batches -> [Pos -> GoodTask]] /\ task' \in [Batches -> [Pos -> TaskRecord]]
    BY <1>9, <1>0 DEF GroupStep
  <2> QED
    BY <1>9, <2>1 DEF SubmitMissing
<1>10. ASSUME NEW b \in Batches, NEW p \in Pos, SubmitSent(b, p) PROVE TypeOK' /\ Bounded'
  <2>1. task' \in [Batches -> [Pos -> GoodTask]] /\ task' \in [Batches -> [Pos -> TaskRecord]]
    BY <1>10, <1>0 DEF GroupStep
  <2> QED
    BY <1>10, <2>1 DEF SubmitSent
<1>11. ASSUME NEW b \in Batches, NEW p \in Pos, SubmitError(b, p) PROVE TypeOK' /\ Bounded'
  <2>1. task' \in [Batches -> [Pos -> GoodTask]] /\ task' \in [Batches -> [Pos -> TaskRecord]]
    BY <1>11, <1>0 DEF GroupStep
  <2> QED
    BY <1>11, <2>1 DEF SubmitError, GiveUp, Report
<1>12. ASSUME NEW b \in Batches, NEW p \in Pos, PollRetry(b, p) PROVE TypeOK' /\ Bounded'
  <2>1. task' \in [Batches -> [Pos -> GoodTask]] /\ task' \in [Batches -> [Pos -> TaskRecord]]
    BY <1>12, <1>0 DEF GroupStep
  <2> QED
    BY <1>12, <2>1 DEF PollRetry
<1>13. ASSUME NEW b \in Batches, NEW p \in Pos, PollDone(b, p) PROVE TypeOK' /\ Bounded'
  <2>1. task' \in [Batches -> [Pos -> GoodTask]] /\ task' \in [Batches -> [Pos -> TaskRecord]]
    BY <1>13, <1>0 DEF GroupStep
  <2> QED
    BY <1>13, <2>1 DEF PollDone
<1>14. ASSUME NEW b \in Batches, NEW p \in Pos, FinalizeLookup(b, p)
       PROVE  TypeOK' /\ Bounded'
  <2>1. task' \in [Batches -> [Pos -> GoodTask]] /\ task' \in [Batches -> [Pos -> TaskRecord]]
    BY <1>14, <1>0 DEF GroupStep
  <2>2. item' = item \/ item' = [item EXCEPT ![b][p] = "failed"]
    BY <1>14 DEF FinalizeLookup, GiveUp, Report
  <2>3. row' = row \/ \E r \in {"pending", "failed"} : row' = [row EXCEPT ![b][p] = r]
    BY <1>14 DEF FinalizeLookup, GiveUp, Report
  <2>4. item' \in [Batches -> [Pos -> Statuses]]
    <3>1. CASE item' = item
      BY <3>1
    <3>2. CASE item' = [item EXCEPT ![b][p] = "failed"]
      BY <3>2
    <3> QED
      BY <2>2, <3>1, <3>2
  <2>5. row' \in [Batches -> [Pos -> {"none", "pending", "failed", "confirmed"}]]
    <3>1. CASE row' = row
      BY <3>1
    <3>2. ASSUME NEW r \in {"pending", "failed"}, row' = [row EXCEPT ![b][p] = r]
          PROVE  row' \in [Batches -> [Pos -> {"none", "pending", "failed", "confirmed"}]]
      BY <3>2
    <3> QED
      BY <2>3, <3>1, <3>2
  <2> QED
    BY <1>14, <2>1, <2>4, <2>5 DEF FinalizeLookup
<1>15. ASSUME NEW b \in Batches, NEW p \in Pos, ConfirmLanded(b, p)
       PROVE  TypeOK' /\ Bounded'
  <2>1. task' \in [Batches -> [Pos -> GoodTask]] /\ task' \in [Batches -> [Pos -> TaskRecord]]
    BY <1>15, <1>0 DEF GroupStep
  <2> QED
    BY <1>15, <2>1 DEF ConfirmLanded
<1>16. ASSUME NEW b \in Batches, NEW p \in Pos, ConfirmSlippage(b, p)
       PROVE  TypeOK' /\ Bounded'
  <2>1. task' \in [Batches -> [Pos -> GoodTask]] /\ task' \in [Batches -> [Pos -> TaskRecord]]
    BY <1>16, <1>0 DEF GroupStep
  <2>2. item' = item \/ item' = [item EXCEPT ![b][p] = "failed"]
    BY <1>16 DEF ConfirmSlippage, GiveUp, Report
  <2>3. row' = row \/ \E r \in {"pending", "failed"} : row' = [row EXCEPT ![b][p] = r]
    BY <1>16 DEF ConfirmSlippage, GiveUp, Report
  <2>4. item' \in [Batches -> [Pos -> Statuses]]
    <3>1. CASE item' = item
      BY <3>1
    <3>2. CASE item' = [item EXCEPT ![b][p] = "failed"]
      BY <3>2
    <3> QED
      BY <2>2, <3>1, <3>2
  <2>5. row' \in [Batches -> [Pos -> {"none", "pending", "failed", "confirmed"}]]
    <3>1. CASE row' = row
      BY <3>1
    <3>2. ASSUME NEW r \in {"pending", "failed"}, row' = [row EXCEPT ![b][p] = r]
          PROVE  row' \in [Batches -> [Pos -> {"none", "pending", "failed", "confirmed"}]]
      BY <3>2
    <3> QED
      BY <2>3, <3>1, <3>2
  <2> QED
    BY <1>16, <2>1, <2>4, <2>5 DEF ConfirmSlippage
<1>17. ASSUME NEW b \in Batches, NEW p \in Pos, ConfirmKnownClosed(b, p)
       PROVE  TypeOK' /\ Bounded'
  <2>1. task' \in [Batches -> [Pos -> GoodTask]] /\ task' \in [Batches -> [Pos -> TaskRecord]]
    BY <1>17, <1>0 DEF GroupStep
  <2> QED
    BY <1>17, <2>1 DEF ConfirmKnownClosed
<1>18. ASSUME NEW b \in Batches, NEW p \in Pos, ConfirmFailed(b, p)
       PROVE  TypeOK' /\ Bounded'
  <2>1. task' \in [Batches -> [Pos -> GoodTask]] /\ task' \in [Batches -> [Pos -> TaskRecord]]
    BY <1>18, <1>0 DEF GroupStep
  <2> QED
    BY <1>18, <2>1 DEF ConfirmFailed, GiveUp, Report
<1>19. ASSUME NEW b \in Batches, NEW p \in Pos, Unlink(b, p) PROVE TypeOK' /\ Bounded'
  <2>1. task' \in [Batches -> [Pos -> GoodTask]] /\ task' \in [Batches -> [Pos -> TaskRecord]]
    BY <1>19, <1>0 DEF GroupStep
  <2> QED
    BY <1>19, <2>1 DEF Unlink
<1>20. ASSUME NEW b \in Batches, NEW p \in Pos, Drop(b, p) PROVE TypeOK' /\ Bounded'
  <2>1. task' \in [Batches -> [Pos -> GoodTask]] /\ task' \in [Batches -> [Pos -> TaskRecord]]
    BY <1>20, <1>0 DEF GroupStep
  <2> QED
    BY <1>20, <2>1 DEF Drop, Report
<1>21. ASSUME NEW b \in Batches, NEW p \in Pos, NEW o \in Outcomes, Resolve(b, p, o)
       PROVE  TypeOK' /\ Bounded'
  BY <1>21 DEF Resolve
<1>22. ASSUME NEW s \in Strategies, StartPass(s) \/ \E p \in Pos : TakePosition(s, p)
       PROVE  TypeOK' /\ Bounded'
  <2>1. ExecTyped'
    <3> HIDE DEF TypeOK, ExecTyped
    <3> QED
      BY <1>22, PassSteps DEF Bounded
  <2>2. UNCHANGED <<chainVars, linkVars, hooks, monitorVars, jobVars, closeVars>>
    <3> HIDE DEF TypeOK, ExecTyped, Bounded
    <3> QED
      BY <1>22 DEF StartPass, TakePosition
  <2> QED
    BY <2>1, <2>2 DEF ExecTyped
<1>22a. ASSUME NEW s \in Strategies, RefreshPosition(s) PROVE TypeOK' /\ Bounded'
  <2>1. ExecTyped'
    BY <1>22a, ExecSteps DEF RefreshPosition
  <2> QED
    BY <1>22a, <2>1 DEF ExecTyped, RefreshPosition
<1>23. ASSUME NEW s \in Strategies, RotateClose(s) PROVE TypeOK' /\ Bounded'
  <2>1. ExecTyped'
    BY <1>23, ExecSteps DEF RotateClose
  <2> QED
    BY <1>23, <2>1 DEF ExecTyped, RotateClose
<1>24. ASSUME NEW s \in Strategies, RotateOpen(s) PROVE TypeOK' /\ Bounded'
  <2>1. CASE exec' = [exec EXCEPT ![s] = Resumed(exec[s])] /\ UNCHANGED <<unborn, accounts, monitor, allow, hooks>>
    BY <1>24, <2>1, ExecSteps DEF RotateOpen, ExecTyped
  <2>2. ASSUME NEW q \in unborn, NEW A \in Exchanged(s, exec[s].old, q),
               unborn' = unborn \ {q}, accounts' = accounts \cup {q},
               monitor' = monitor \ {exec[s].old}, allow' = [allow EXCEPT ![s] = A],
               hooks' = hooks \cup {NewHook(s, exec[s].old, q)},
               exec' = [exec EXCEPT ![s].pc = "adding", ![s].new = q]
        PROVE  TypeOK' /\ Bounded'
    <3>1. q \in Pos /\ exec[s].old \in Pos
      BY <1>24 DEF RotateOpen, ExecTyped
    <3>2. A \subseteq Pos
      BY <3>1 DEF Exchanged
    <3>3. ExecTyped'
      BY <1>24, <2>2, <3>1, ExecSteps DEF RotateOpen
    <3>4. hooks' \subseteq HookRecord /\ hooks' \subseteq GoodHook
      <4>1. NewHook(s, exec[s].old, q) \in GoodHook
        BY <3>1 DEF NewHook, GoodHook, HookRecord
      <4>2. GoodHook \subseteq HookRecord
        BY DEF GoodHook
      <4> QED
        BY <2>2, <4>1, <4>2
    <3> QED
      BY <1>24, <2>2, <3>1, <3>2, <3>3, <3>4 DEF RotateOpen, ExecTyped
  <2> QED
    BY <1>24, <2>1, <2>2 DEF RotateOpen
<1>25. ASSUME NEW s \in Strategies, ReadRotated(s) PROVE TypeOK' /\ Bounded'
  <2>1. ExecTyped'
    BY <1>25, ExecSteps DEF ReadRotated
  <2> QED
    BY <1>25, <2>1 DEF ExecTyped, ReadRotated
<1>26. ASSUME NEW s \in Strategies, InsertRotated(s) PROVE TypeOK' /\ Bounded'
  <2>1. ExecTyped'
    BY <1>26, ExecSteps DEF InsertRotated
  <2> QED
    BY <1>26, <2>1 DEF ExecTyped, InsertRotated
<1>27. ASSUME NEW h \in hooks, HookStep(h) PROVE TypeOK' /\ Bounded'
  <2> HIDE DEF TypeOK, Bounded
  <2>1. /\ hooks' \subseteq GoodHook /\ hooks' \subseteq HookRecord
        /\ links' \in [Strategies -> SUBSET Pos] /\ disabled' \in [Strategies -> SUBSET Pos]
        /\ allow' \in [Strategies -> SUBSET Pos] /\ target' \in [Strategies -> Nat]
        /\ UNCHANGED <<chainVars, skip, exec, monitorVars, jobVars, closeVars>>
    BY <1>27, HookSteps
  <2> QED
    BY <2>1 DEF TypeOK, Bounded
<1>29. ASSUME NEW p \in Pos, StartAdd(p) PROVE TypeOK' /\ Bounded'
  BY <1>29 DEF StartAdd
<1>30. ASSUME NEW p \in Pos, FinishAdd(p) PROVE TypeOK' /\ Bounded'
  BY <1>30 DEF FinishAdd
<1>31. ASSUME UNCHANGED vars PROVE TypeOK' /\ Bounded'
  BY <1>31 DEF vars
<1> HIDE DEF TypeOK, Bounded
<1> QED
  BY <1>1, <1>2, <1>3, <1>4, <1>5, <1>6, <1>7, <1>8, <1>9, <1>10, <1>11, <1>12, <1>13,
     <1>14, <1>15, <1>16, <1>17, <1>18, <1>19, <1>20, <1>21, <1>22, <1>23, <1>24, <1>25,
     <1>22a, <1>26, <1>27, <1>29, <1>30, <1>31, ConstantsAssumption
  DEF Next, WorkerStep, GroupStep, ExecutorStep

-----------------------------------------------------------------------------
(* Where a step leaves the close it belongs to.                            *)

\* A step of one close leaves the others where they are.
LEMMA CloseKeepsOthers ==
  ASSUME TypeOK, Bounded, NEW b \in Batches, NEW p \in Pos, GroupStep(b, p),
         NEW c \in Batches, NEW q \in Pos, c # b \/ q # p
  PROVE  task'[c][q] = task[c][q]
<1>1. PICK t \in GoodTask : task' = [task EXCEPT ![b][p] = t]
  BY CloseSetsTask
<1> QED
  BY <1>1 DEF TypeOK

\* The step each update of a task record leads to.
LEMMA ClosePc ==
  ASSUME TypeOK, NEW b \in Batches, NEW p \in Pos
  PROVE  /\ \A st : Report(b, p, st) => task'[b][p].pc = "idle"
         /\ \A x : Goto(b, p, x) => task'[b][p].pc = x
         /\ RetryHigher(b, p) => task'[b][p].pc = "snapshot"
         /\ BeginClose(b, p) => task'[b][p].pc = "snapshot"
         /\ SubmitMissing(b, p) \/ ConfirmKnownClosed(b, p) => task'[b][p].pc = "unlink"
         /\ SubmitSent(b, p) => task'[b][p].pc \in {"confirm", "pool", "poll"}
         /\ PollDone(b, p) => task'[b][p].pc = "pool"
<1>0. task \in [Batches -> [Pos -> TaskRecord]] /\ task[b][p] \in TaskRecord
  BY DEF TypeOK
<1>1. ASSUME NEW st, Report(b, p, st) PROVE task'[b][p].pc = "idle"
  BY <1>0, <1>1 DEF Report, IdleTask
<1>2. ASSUME NEW x, Goto(b, p, x) PROVE task'[b][p].pc = x
  BY <1>0, <1>2 DEF Goto, TaskRecord
<1>3. ASSUME RetryHigher(b, p) PROVE task'[b][p].pc = "snapshot"
  BY <1>0, <1>3 DEF RetryHigher, TaskRecord
<1>4. ASSUME BeginClose(b, p) PROVE task'[b][p].pc = "snapshot"
  BY <1>0, <1>4 DEF BeginClose, IdleTask
<1>5. ASSUME SubmitMissing(b, p) \/ ConfirmKnownClosed(b, p) PROVE task'[b][p].pc = "unlink"
  BY <1>0, <1>5 DEF SubmitMissing, ConfirmKnownClosed, TaskRecord
<1>6. ASSUME SubmitSent(b, p) PROVE task'[b][p].pc \in {"confirm", "pool", "poll"}
  BY <1>0, <1>6 DEF SubmitSent, TaskRecord
<1>7. ASSUME PollDone(b, p) PROVE task'[b][p].pc = "pool"
  BY <1>0, <1>7 DEF PollDone, TaskRecord
<1> QED
  BY <1>1, <1>2, <1>3, <1>4, <1>5, <1>6, <1>7

-----------------------------------------------------------------------------
(* What is gone.                                                           *)

\* A rotation opens what was never open, and nothing that is gone comes back.
LEMMA BornStep == TypeOK /\ Bounded /\ Born /\ [Next]_vars => Born' /\ Gone \subseteq Gone'
<1> SUFFICES ASSUME TypeOK, Bounded, Born, [Next]_vars PROVE Born' /\ Gone \subseteq Gone'
  OBVIOUS
<1>0. ASSUME NEW b \in Batches, NEW p \in Pos, GroupStep(b, p),
             unborn' = unborn, accounts' = accounts, adding' = adding, exec' = exec,
             monitor' \subseteq monitor,
             recorded' = recorded \/ (p \in Gone /\ recorded' = recorded \cup {p}),
             tx' = tx \/ tx' = [tx EXCEPT ![b][p] = "sent"],
             task'[b][p].pc \notin {"idle", "snapshot"} => p \notin unborn
      PROVE  Born' /\ Gone \subseteq Gone'
  <2>1. \A c \in Batches, q \in Pos : c # b \/ q # p => task'[c][q] = task[c][q]
    BY <1>0, CloseKeepsOthers
  <2>2. Gone' = Gone
    BY <1>0 DEF Gone
  <2>3. ASSUME NEW c \in Batches, NEW q \in Pos, tx'[c][q] = "landed" PROVE q \in Gone
    <3>1. tx \in [Batches -> [Pos -> Outcomes \cup {"none", "sent"}]]
      BY DEF TypeOK
    <3>2. tx[c][q] = "landed"
      BY <1>0, <2>3, <3>1
    <3> QED
      BY <3>2 DEF Born
  <2>4. ASSUME NEW c \in Batches, NEW q \in Pos, task'[c][q].pc \notin {"idle", "snapshot"}
        PROVE  q \notin unborn
    <3>1. CASE c = b /\ q = p
      BY <1>0, <2>4, <3>1
    <3>2. CASE c # b \/ q # p
      BY <2>1, <2>4, <3>2 DEF Born
    <3> QED
      BY <3>1, <3>2
  <2> QED
    BY <1>0, <2>2, <2>3, <2>4 DEF Born
<1>00. ASSUME NEW b \in Batches, NEW p \in Pos, task[b][p].pc \notin {"idle", "snapshot"}
       PROVE  p \notin unborn
  BY <1>00 DEF Born
<1> USE DEF chainVars, linkVars, execVars, monitorVars, jobVars, pauseVars, closeVars
<1>1. ASSUME NEW b \in Batches, NEW S \in RequestedSets, NEW m \in Modes, StartBatch(b, S, m)
      PROVE  Born' /\ Gone \subseteq Gone'
  BY <1>1 DEF StartBatch, Born, Gone
<1>2. ASSUME NEW b \in Batches, PauseStep(b) PROVE Born' /\ Gone \subseteq Gone'
  <2>1. UNCHANGED <<chainVars, execVars, monitorVars, closeVars>>
    BY <1>2, PauseSteps
  <2> QED
    BY <2>1 DEF Born, Gone
<1>3. ASSUME NEW b \in Batches, StartGroups(b) PROVE Born' /\ Gone \subseteq Gone'
  BY <1>3 DEF StartGroups, Born, Gone
<1>4. ASSUME NEW b \in Batches, FinishJob(b) PROVE Born' /\ Gone \subseteq Gone'
  BY <1>4 DEF FinishJob, Born, Gone
<1>5. ASSUME NEW b \in Batches, NEW p \in Pos, GroupWithoutWallet(b, p)
      PROVE  Born' /\ Gone \subseteq Gone'
  <2>1. task'[b][p].pc \notin {"idle", "snapshot"} => p \notin unborn
    BY <1>5, <1>00, ClosePc DEF GroupWithoutWallet
  <2> QED
    BY <1>5, <1>0, <2>1 DEF GroupStep, GroupWithoutWallet
<1>6. ASSUME NEW b \in Batches, NEW p \in Pos, BeginClose(b, p)
      PROVE  Born' /\ Gone \subseteq Gone'
  <2>1. task'[b][p].pc \notin {"idle", "snapshot"} => p \notin unborn
    BY <1>6, <1>00, ClosePc DEF BeginClose
  <2> QED
    BY <1>6, <1>0, <2>1 DEF GroupStep, BeginClose
<1>7. ASSUME NEW b \in Batches, NEW p \in Pos, Snapshot(b, p)
      PROVE  Born' /\ Gone \subseteq Gone'
  <2>1. task'[b][p].pc \notin {"idle", "snapshot"} => p \notin unborn
    BY <1>7, <1>00, ClosePc DEF Snapshot, Known, Born
  <2> QED
    BY <1>7, <1>0, <2>1 DEF GroupStep, Snapshot
<1>8. ASSUME NEW b \in Batches, NEW p \in Pos, Lookup(b, p)
      PROVE  Born' /\ Gone \subseteq Gone'
  <2>1. task'[b][p].pc \notin {"idle", "snapshot"} => p \notin unborn
    BY <1>8, <1>00, ClosePc DEF Lookup, GiveUp, Report
  <2> QED
    BY <1>8, <1>0, <2>1 DEF GroupStep, Lookup
<1>9. ASSUME NEW b \in Batches, NEW p \in Pos, SubmitMissing(b, p)
      PROVE  Born' /\ Gone \subseteq Gone'
  <2>1. task'[b][p].pc \notin {"idle", "snapshot"} => p \notin unborn
    BY <1>9, <1>00, ClosePc DEF SubmitMissing
  <2> QED
    BY <1>9, <1>0, <2>1 DEF GroupStep, SubmitMissing
<1>10. ASSUME NEW b \in Batches, NEW p \in Pos, SubmitSent(b, p)
       PROVE  Born' /\ Gone \subseteq Gone'
  <2>1. task'[b][p].pc \notin {"idle", "snapshot"} => p \notin unborn
    BY <1>10, <1>00, ClosePc DEF SubmitSent
  <2> QED
    BY <1>10, <1>0, <2>1 DEF GroupStep, SubmitSent
<1>11. ASSUME NEW b \in Batches, NEW p \in Pos, SubmitError(b, p)
       PROVE  Born' /\ Gone \subseteq Gone'
  <2>1. task'[b][p].pc \notin {"idle", "snapshot"} => p \notin unborn
    BY <1>11, <1>00, ClosePc DEF SubmitError, GiveUp, Report
  <2> QED
    BY <1>11, <1>0, <2>1 DEF GroupStep, SubmitError
<1>12. ASSUME NEW b \in Batches, NEW p \in Pos, PollRetry(b, p)
       PROVE  Born' /\ Gone \subseteq Gone'
  <2>1. task'[b][p].pc \notin {"idle", "snapshot"} => p \notin unborn
    BY <1>12, <1>00, ClosePc DEF PollRetry
  <2> QED
    BY <1>12, <1>0, <2>1 DEF GroupStep, PollRetry
<1>13. ASSUME NEW b \in Batches, NEW p \in Pos, PollDone(b, p)
       PROVE  Born' /\ Gone \subseteq Gone'
  <2>1. task'[b][p].pc \notin {"idle", "snapshot"} => p \notin unborn
    BY <1>13, <1>00, ClosePc DEF PollDone
  <2> QED
    BY <1>13, <1>0, <2>1 DEF GroupStep, PollDone
<1>14. ASSUME NEW b \in Batches, NEW p \in Pos, FinalizeLookup(b, p)
       PROVE  Born' /\ Gone \subseteq Gone'
  <2>1. task'[b][p].pc \notin {"idle", "snapshot"} => p \notin unborn
    BY <1>14, <1>00, ClosePc DEF FinalizeLookup, GiveUp, Report
  <2> QED
    BY <1>14, <1>0, <2>1 DEF GroupStep, FinalizeLookup
<1>15. ASSUME NEW b \in Batches, NEW p \in Pos, ConfirmLanded(b, p)
       PROVE  Born' /\ Gone \subseteq Gone'
  <2>1. task'[b][p].pc \notin {"idle", "snapshot"} => p \notin unborn
    BY <1>15, <1>00 DEF ConfirmLanded
  <2>2. p \in Gone
    BY <1>15 DEF ConfirmLanded, Born
  <2> QED
    BY <1>15, <1>0, <2>1, <2>2 DEF GroupStep, ConfirmLanded
<1>16. ASSUME NEW b \in Batches, NEW p \in Pos, ConfirmSlippage(b, p)
       PROVE  Born' /\ Gone \subseteq Gone'
  <2>1. task'[b][p].pc \notin {"idle", "snapshot"} => p \notin unborn
    BY <1>16, <1>00, ClosePc DEF ConfirmSlippage, GiveUp, Report
  <2> QED
    BY <1>16, <1>0, <2>1 DEF GroupStep, ConfirmSlippage
<1>17. ASSUME NEW b \in Batches, NEW p \in Pos, ConfirmKnownClosed(b, p)
       PROVE  Born' /\ Gone \subseteq Gone'
  <2>1. task'[b][p].pc \notin {"idle", "snapshot"} => p \notin unborn
    BY <1>17, <1>00, ClosePc DEF ConfirmKnownClosed
  <2> QED
    BY <1>17, <1>0, <2>1 DEF GroupStep, ConfirmKnownClosed
<1>18. ASSUME NEW b \in Batches, NEW p \in Pos, ConfirmFailed(b, p)
       PROVE  Born' /\ Gone \subseteq Gone'
  <2>1. task'[b][p].pc \notin {"idle", "snapshot"} => p \notin unborn
    BY <1>18, <1>00, ClosePc DEF ConfirmFailed, GiveUp, Report
  <2> QED
    BY <1>18, <1>0, <2>1 DEF GroupStep, ConfirmFailed
<1>19. ASSUME NEW b \in Batches, NEW p \in Pos, Unlink(b, p)
       PROVE  Born' /\ Gone \subseteq Gone'
  <2>1. task'[b][p].pc \notin {"idle", "snapshot"} => p \notin unborn
    BY <1>19, <1>00, ClosePc DEF Unlink
  <2> QED
    BY <1>19, <1>0, <2>1 DEF GroupStep, Unlink
<1>20. ASSUME NEW b \in Batches, NEW p \in Pos, Drop(b, p)
       PROVE  Born' /\ Gone \subseteq Gone'
  <2>1. task'[b][p].pc \notin {"idle", "snapshot"} => p \notin unborn
    BY <1>20, <1>00, ClosePc DEF Drop
  <2> QED
    BY <1>20, <1>0, <2>1 DEF GroupStep, Drop
<1>21. ASSUME NEW b \in Batches, NEW p \in Pos, NEW o \in Outcomes, Resolve(b, p, o)
       PROVE  Born' /\ Gone \subseteq Gone'
  BY <1>21 DEF Resolve, Born, Gone, TypeOK
<1>22. ASSUME NEW s \in Strategies,
              StartPass(s) \/ RefreshPosition(s) \/ \E p \in Pos : TakePosition(s, p)
       PROVE  Born' /\ Gone \subseteq Gone'
  <2>1. /\ exec'[s].pc \notin {"adding", "inserting"}
        /\ \A t \in Strategies \ {s} : exec'[t] = exec[t]
    <3>0. exec \in [Strategies -> ExecRecord] /\ exec[s] \in ExecRecord
      BY DEF TypeOK
    <3>1. CASE StartPass(s) \/ \E p \in Pos : TakePosition(s, p)
      <4>1. exec'[s].pc \in {"idle", "pass", "refresh"}
        BY <3>1, PassSteps DEF Bounded
      <4>2. \A t \in Strategies \ {s} : exec'[t] = exec[t]
        BY <3>0, <3>1 DEF StartPass, TakePosition
      <4> QED
        BY <4>1, <4>2
    <3>2. CASE RefreshPosition(s)
      <4>1. CASE exec' = [exec EXCEPT ![s] = Resumed(exec[s])]
        BY <3>0, <4>1, ResumedTyped
      <4>2. CASE exec' = [exec EXCEPT ![s].pc = "closing"]
        BY <3>0, <4>2 DEF ExecRecord
      <4> QED
        BY <3>2, <4>1, <4>2 DEF RefreshPosition
    <3> QED
      BY <1>22, <3>1, <3>2
  <2>2. /\ UNCHANGED <<chainVars, adding, closeVars>> /\ monitor' \subseteq monitor
    BY <1>22 DEF StartPass, RefreshPosition, TakePosition
  <2>3. \A t \in Strategies : exec'[t].pc \in {"adding", "inserting"} => exec'[t].new \notin unborn
    BY <2>1 DEF Born
  <2> QED
    BY <2>2, <2>3 DEF Born, Gone
<1>23. ASSUME NEW s \in Strategies, RotateClose(s) PROVE Born' /\ Gone \subseteq Gone'
  <2>1. \A t \in Strategies : exec'[t].pc \in {"adding", "inserting"} => exec'[t].new \notin unborn
    <3>1. CASE exec' = [exec EXCEPT ![s] = Resumed(exec[s])]
      <4>1. exec[s] \in ExecRecord /\ exec \in [Strategies -> ExecRecord]
        BY DEF TypeOK
      <4>2. exec'[s].pc \in {"idle", "pass"}
        BY <3>1, <4>1, ResumedTyped
      <4> QED
        BY <3>1, <4>1, <4>2 DEF Born
    <3>2. CASE exec' = [exec EXCEPT ![s].pc = "opening"]
      BY <3>2 DEF Born, TypeOK, ExecRecord
    <3> QED
      BY <1>23, <3>1, <3>2 DEF RotateClose
  <2>2. CASE UNCHANGED <<accounts, recorded>>
    BY <1>23, <2>1, <2>2 DEF RotateClose, Born, Gone
  <2>3. CASE /\ exec[s].old \in accounts
             /\ accounts' = accounts \ {exec[s].old}
             /\ recorded' = recorded \cup {exec[s].old}
    <3>1. Gone' = Gone \cup {exec[s].old}
      BY <1>23, <2>3 DEF RotateClose, Born, Gone, TypeOK
    <3> QED
      BY <1>23, <2>1, <2>3, <3>1 DEF RotateClose, Born
  <2> QED
    BY <1>23, <2>2, <2>3 DEF RotateClose
<1>24. ASSUME NEW s \in Strategies, RotateOpen(s) PROVE Born' /\ Gone \subseteq Gone'
  <2>1. CASE exec' = [exec EXCEPT ![s] = Resumed(exec[s])] /\ UNCHANGED <<unborn, accounts, monitor, allow, hooks>>
    <3>1. exec[s] \in ExecRecord /\ exec \in [Strategies -> ExecRecord]
      BY DEF TypeOK
    <3>2. exec'[s].pc \in {"idle", "pass"}
      BY <2>1, <3>1, ResumedTyped
    <3>3. \A t \in Strategies : exec'[t].pc \in {"adding", "inserting"} => exec'[t].new \notin unborn
      BY <2>1, <3>1, <3>2 DEF Born
    <3> QED
      BY <1>24, <2>1, <3>3 DEF RotateOpen, Born, Gone
  <2>2. ASSUME NEW q \in unborn, unborn' = unborn \ {q}, accounts' = accounts \cup {q},
               monitor' = monitor \ {exec[s].old},
               exec' = [exec EXCEPT ![s].pc = "adding", ![s].new = q]
        PROVE  Born' /\ Gone \subseteq Gone'
    <3>1. Gone' = Gone
      BY <2>2 DEF Gone, Born
    <3>2. \A t \in Strategies : exec'[t].pc \in {"adding", "inserting"} => exec'[t].new \notin unborn'
      BY <2>2 DEF Born, TypeOK, ExecRecord
    <3> QED
      BY <1>24, <2>2, <3>1, <3>2 DEF RotateOpen, Born
  <2> QED
    BY <1>24, <2>1, <2>2 DEF RotateOpen
<1>25. ASSUME NEW s \in Strategies, ReadRotated(s) \/ InsertRotated(s)
       PROVE  Born' /\ Gone \subseteq Gone'
  <2>0. exec[s] \in ExecRecord /\ exec \in [Strategies -> ExecRecord]
    BY DEF TypeOK
  <2>1. \A t \in Strategies : exec'[t].pc \in {"adding", "inserting"} => exec'[t].new \notin unborn
    <3>1. CASE exec' = [exec EXCEPT ![s] = Resumed(exec[s])]
      <4>1. exec'[s].pc \in {"idle", "pass"}
        BY <2>0, <3>1, ResumedTyped
      <4> QED
        BY <2>0, <3>1, <4>1 DEF Born
    <3>2. CASE exec[s].pc = "adding" /\ exec' = [exec EXCEPT ![s].pc = "inserting"]
      <4>1. exec'[s].new = exec[s].new
        BY <2>0, <3>2 DEF ExecRecord
      <4> QED
        BY <2>0, <3>2, <4>1 DEF Born
    <3> QED
      BY <1>25, <3>1, <3>2 DEF ReadRotated, InsertRotated
  <2>2. \A x \in monitor' : x \in monitor \/ x \notin unborn
    BY <1>25 DEF ReadRotated, InsertRotated, Born
  <2>3. UNCHANGED <<chainVars, adding, closeVars>>
    BY <1>25 DEF ReadRotated, InsertRotated
  <2> QED
    BY <2>1, <2>2, <2>3 DEF Born, Gone
<1>27. ASSUME NEW h \in hooks, HookStep(h) PROVE Born' /\ Gone \subseteq Gone'
  <2>1. UNCHANGED <<chainVars, exec, monitorVars, closeVars>>
    BY <1>27, HookSteps
  <2> QED
    BY <2>1 DEF Born, Gone
<1>29. ASSUME NEW p \in Pos, StartAdd(p) PROVE Born' /\ Gone \subseteq Gone'
  BY <1>29 DEF StartAdd, Born, Gone
<1>30. ASSUME NEW p \in Pos, FinishAdd(p) PROVE Born' /\ Gone \subseteq Gone'
  BY <1>30 DEF FinishAdd, Born, Gone
<1>31. ASSUME UNCHANGED vars PROVE Born' /\ Gone \subseteq Gone'
  BY <1>31 DEF vars, Born, Gone
<1> QED
  BY <1>1, <1>2, <1>3, <1>4, <1>5, <1>6, <1>7, <1>8, <1>9, <1>10, <1>11, <1>12, <1>13,
     <1>14, <1>15, <1>16, <1>17, <1>18, <1>19, <1>20, <1>21, <1>22, <1>23, <1>24, <1>25,
     <1>27, <1>29, <1>30, <1>31, ConstantsAssumption
  DEF Next, WorkerStep, GroupStep, ExecutorStep

-----------------------------------------------------------------------------
(* What is reported.                                                       *)

\* What an item and a wallet-ledger row may say of a close under way.
InProgress == {"pending", "submitted"}
Rows == {"none", "pending", "failed", "confirmed"}

\* One step of the close of p in batch b: it reports the item as st, writes the
\* row r, and says "closed" only as the last step, after the Confirmed row.
ReportsAs(b, p, st, r) ==
  /\ item' = [item EXCEPT ![b][p] = st]
  /\ row' = [row EXCEPT ![b][p] = r]
  /\ (task'[b][p].pc # "idle") <=> (st \in InProgress)
  /\ st \in ClosedItems => task[b][p].pc = "drop"
  /\ (task'[b][p].pc \in {"unlink", "drop"} \/ task[b][p].pc = "drop")
       => p \in Gone /\ r = "confirmed"

\* A step of a close belongs to an open item of its batch, and reports it so.
LEMMA CloseReports ==
  ASSUME TypeOK, Bounded, Born, Reported, NEW b \in Batches, NEW p \in Pos, GroupStep(b, p)
  PROVE  /\ item[b][p] \in OpenItems
         /\ \E st \in InProgress \cup {"failed", "confirmed", "already"}, r \in Rows :
              ReportsAs(b, p, st, r)
         /\ UNCHANGED <<job, accounts, unborn>>
<1> USE DEF chainVars, linkVars, execVars, monitorVars, jobVars, closeVars, InProgress, Rows
<1>0. /\ item = [item EXCEPT ![b][p] = item[b][p]]
      /\ row = [row EXCEPT ![b][p] = row[b][p]]
      /\ row[b][p] \in Rows
  BY DEF TypeOK
<1>1. task[b][p].pc # "idle" => item[b][p] \in InProgress
  BY DEF Reported
<1>2. UNCHANGED <<job, accounts, unborn>>
  BY DEF GroupStep, Snapshot, GroupWithoutWallet, BeginClose, Lookup, SubmitMissing,
         SubmitSent, SubmitError, PollRetry, PollDone, FinalizeLookup, ConfirmLanded,
         ConfirmSlippage, ConfirmKnownClosed, ConfirmFailed, Unlink, Drop, GiveUp,
         Report
<1>3. item[b][p] \in OpenItems
  BY <1>1 DEF OpenItems, GroupStep, Snapshot, GroupWithoutWallet, BeginClose, Lookup, SubmitMissing,
         SubmitSent, SubmitError, PollRetry, PollDone, FinalizeLookup, ConfirmLanded,
         ConfirmSlippage, ConfirmKnownClosed, ConfirmFailed, Unlink, Drop, GiveUp,
         Report
<1> DEFINE Good == \E st \in InProgress \cup {"failed", "confirmed", "already"}, r \in Rows :
                     ReportsAs(b, p, st, r)
<1>w. ASSUME NEW st \in InProgress \cup {"failed", "confirmed", "already"}, NEW r \in Rows,
             ReportsAs(b, p, st, r) PROVE Good
  BY <1>w
<1> HIDE DEF Good
\* A close that goes on, one that gives up, and the retry.
<1>4. ASSUME NEW x \in Steps \ {"idle", "unlink", "drop"}, task'[b][p].pc = x,
             task[b][p].pc \notin {"idle", "drop"}, item' = item,
             NEW r \in Rows, row' = [row EXCEPT ![b][p] = r] PROVE Good
  BY <1>w, <1>0, <1>1, <1>4 DEF ReportsAs, ClosedItems
<1>5. ASSUME NEW r \in Rows, row' = [row EXCEPT ![b][p] = r], task[b][p].pc # "drop",
             Report(b, p, "failed") PROVE Good
  <2>1. task'[b][p].pc = "idle"
    BY <1>5, ClosePc
  <2> QED
    BY <1>w, <1>0, <1>5, <2>1 DEF ReportsAs, Report, ClosedItems
<1>6. ASSUME GiveUp(b, p), task[b][p].pc # "drop" PROVE Good
  BY <1>5, <1>6 DEF GiveUp
<1>7. ASSUME GroupWithoutWallet(b, p) PROVE Good
  <2>1. task[b][p].pc = "idle" /\ task'[b][p].pc = "idle"
    BY <1>7 DEF GroupWithoutWallet, Reported
  <2> QED
    BY <1>w, <1>0, <1>7, <2>1 DEF GroupWithoutWallet, ReportsAs, ClosedItems
<1>8. ASSUME BeginClose(b, p) PROVE Good
  <2>1. task[b][p].pc = "idle" /\ task'[b][p].pc = "snapshot"
    BY <1>8, ClosePc DEF BeginClose, Reported
  <2> QED
    BY <1>w, <1>0, <1>8, <2>1 DEF BeginClose, ReportsAs, ClosedItems
<1>9. ASSUME Snapshot(b, p) PROVE Good
  <2>1. CASE Goto(b, p, "lookup") /\ row' = [row EXCEPT ![b][p] = "pending"] /\ UNCHANGED item
    BY <1>4, <1>9, <2>1, ClosePc DEF Snapshot, Steps
  <2>2. CASE Report(b, p, "failed") /\ UNCHANGED row
    BY <1>0, <1>5, <1>9, <2>2 DEF Snapshot
  <2> QED
    BY <1>9, <2>1, <2>2 DEF Snapshot
<1>10. ASSUME Lookup(b, p) PROVE Good
  <2>1. CASE Goto(b, p, "submit") /\ UNCHANGED <<item, row>>
    BY <1>0, <1>4, <1>10, <2>1, ClosePc DEF Lookup, Steps
  <2> QED
    BY <1>6, <1>10, <2>1 DEF Lookup
<1>11. ASSUME SubmitMissing(b, p) \/ ConfirmKnownClosed(b, p) PROVE Good
  <2>1. p \in Gone
    BY <1>11 DEF SubmitMissing, ConfirmKnownClosed, Born, Gone
  <2>2. task'[b][p].pc = "unlink"
    BY <1>11, ClosePc
  <2> QED
    BY <1>w, <1>0, <1>1, <1>11, <2>1, <2>2 DEF SubmitMissing, ConfirmKnownClosed, ReportsAs, ClosedItems
<1>12. ASSUME SubmitSent(b, p) PROVE Good
  <2>1. task'[b][p].pc \in {"confirm", "pool", "poll"}
    BY <1>12, ClosePc
  <2>2. CASE item' = item
    BY <1>0, <1>4, <1>12, <2>1, <2>2 DEF SubmitSent, Steps
  <2>3. CASE item' = [item EXCEPT ![b][p] = "submitted"]
    BY <1>w, <1>0, <1>12, <2>1, <2>3 DEF SubmitSent, ReportsAs, ClosedItems
  <2> QED
    BY <1>12, <2>2, <2>3 DEF SubmitSent
<1>13. ASSUME SubmitError(b, p) \/ ConfirmFailed(b, p) PROVE Good
  BY <1>6, <1>13 DEF SubmitError, ConfirmFailed
<1>14. ASSUME PollRetry(b, p) PROVE Good
  <2>1. task'[b][p].pc = "snapshot"
    BY <1>14, ClosePc DEF PollRetry
  <2> QED
    BY <1>w, <1>0, <1>14, <2>1 DEF PollRetry, ReportsAs, ClosedItems
<1>15. ASSUME PollDone(b, p) PROVE Good
  BY <1>0, <1>4, <1>15, ClosePc DEF PollDone, Steps
<1>16. ASSUME FinalizeLookup(b, p) PROVE Good
  <2>1. CASE Goto(b, p, "confirm") /\ UNCHANGED <<item, row>>
    BY <1>0, <1>4, <1>16, <2>1, ClosePc DEF FinalizeLookup, Steps
  <2> QED
    BY <1>6, <1>16, <2>1 DEF FinalizeLookup
<1>17. ASSUME ConfirmLanded(b, p) PROVE Good
  <2>1. task'[b][p].pc = "unlink" /\ p \in Gone
    BY <1>17, ClosePc DEF ConfirmLanded, Born
  <2> QED
    BY <1>w, <1>0, <1>1, <1>17, <2>1 DEF ConfirmLanded, ReportsAs, ClosedItems
<1>18. ASSUME ConfirmSlippage(b, p) PROVE Good
  <2>1. CASE RetryHigher(b, p) /\ row' = [row EXCEPT ![b][p] = "failed"] /\ UNCHANGED item
    BY <1>4, <1>18, <2>1, ClosePc DEF ConfirmSlippage, Steps
  <2>2. CASE Goto(b, p, "submit") /\ UNCHANGED <<item, row>>
    BY <1>0, <1>4, <1>18, <2>2, ClosePc DEF ConfirmSlippage, Steps
  <2> QED
    BY <1>6, <1>18, <2>1, <2>2 DEF ConfirmSlippage
<1>19. ASSUME Unlink(b, p) PROVE Good
  <2>1. task'[b][p].pc = "drop" /\ p \in Gone /\ row[b][p] = "confirmed"
    BY <1>19, ClosePc DEF Unlink, Reported
  <2> QED
    BY <1>w, <1>0, <1>1, <1>19, <2>1 DEF Unlink, ReportsAs, ClosedItems
<1>20. ASSUME Drop(b, p) PROVE Good
  <2>1. task'[b][p].pc = "idle" /\ p \in Gone /\ row[b][p] = "confirmed"
    BY <1>20, ClosePc DEF Drop, Reported
  <2>2. \E st \in {"confirmed", "already"} : item' = [item EXCEPT ![b][p] = st]
    BY <1>20 DEF Drop, Report
  <2> QED
    BY <1>w, <1>0, <1>20, <2>1, <2>2 DEF Drop, ReportsAs
<1>21. Good
  BY <1>7, <1>8, <1>9, <1>10, <1>11, <1>12, <1>13, <1>14, <1>15, <1>16, <1>17, <1>18,
     <1>19, <1>20 DEF GroupStep
<1> QED
  BY <1>2, <1>3, <1>21 DEF Good

\* The items of a batch follow its closes, whatever the other actors do.
LEMMA ReportedStep ==
  ASSUME TypeOK, Bounded, Born, Reported, [Next]_vars, Gone \subseteq Gone'
  PROVE  Reported'
<1> USE DEF chainVars, linkVars, execVars, monitorVars, jobVars, pauseVars, closeVars
<1>1. ASSUME UNCHANGED <<job, item, task, row>> PROVE Reported'
  BY <1>1 DEF Reported
<1>2. ASSUME NEW b \in Batches, NEW S \in RequestedSets, NEW m \in Modes, StartBatch(b, S, m)
      PROVE  Reported'
  <2> DEFINE todo == Closable(S)
             fresh == [p \in Pos |-> IF p \in todo THEN "queued"
                                     ELSE IF p \in S THEN "skipped" ELSE "none"]
  <2>1. /\ item' = [item EXCEPT ![b] = fresh]
        /\ job' = [job EXCEPT ![b] = IF todo = {} THEN "done" ELSE "pausing"]
        /\ task' = task /\ row' = row
    BY <1>2 DEF StartBatch
  <2>2. /\ item'[b] = fresh
        /\ job'[b] = IF todo = {} THEN "done" ELSE "pausing"
        /\ \A c \in Batches : c # b => item'[c] = item[c] /\ job'[c] = job[c]
    BY <2>1 DEF TypeOK
  <2>3. \A p \in Pos : task[b][p].pc = "idle"
    BY <1>2 DEF StartBatch, Reported
  <2>4. todo \subseteq Pos
    BY RequestsArePositions DEF Closable
  <2>5. /\ job'[b] # "none"
        /\ job'[b] \in {"pausing", "closing"} => \E p \in Pos : item'[b][p] # "none"
        /\ \A p \in Pos :
             /\ item'[b][p] \notin {"pending", "submitted"} \cup ClosedItems
             /\ item'[b][p] \in OpenItems => job'[b] \in {"pausing", "closing"}
    <3>1. todo = {} => \A p \in Pos : item'[b][p] \in {"skipped", "none"}
      BY <2>2
    <3>2. todo # {} => \E p \in Pos : item'[b][p] = "queued"
      BY <2>2, <2>4
    <3> QED
      BY <2>2, <3>1, <3>2 DEF ClosedItems, OpenItems
  <2> HIDE DEF todo, fresh
  <2> QED
    BY <2>1, <2>2, <2>3, <2>5 DEF Reported
<1>3. ASSUME NEW b \in Batches, WorkerStep(b) PROVE Reported'
  <2>1. ASSUME PauseStep(b) PROVE Reported'
    BY <1>1, <2>1, PauseSteps
  <2>2. ASSUME StartGroups(b) PROVE Reported'
    BY <2>2 DEF StartGroups, Reported, TypeOK
  <2>3. ASSUME FinishJob(b) PROVE Reported'
    <3>1. \A p \in Pos : item[b][p] \notin OpenItems
      BY <2>3 DEF FinishJob, Reported, OpenItems
    <3> QED
      BY <2>3, <3>1 DEF FinishJob, Reported, TypeOK
  <2> QED
    BY <1>3, <2>1, <2>2, <2>3 DEF WorkerStep
<1>4. ASSUME NEW b \in Batches, NEW p \in Pos, GroupStep(b, p) PROVE Reported'
  <2>1. PICK st \in InProgress \cup {"failed", "confirmed", "already"}, r \in Rows :
          ReportsAs(b, p, st, r)
    BY <1>4, CloseReports
  <2>2. item[b][p] \in OpenItems /\ job' = job
    BY <1>4, CloseReports
  <2>3. /\ item'[b][p] = st /\ row'[b][p] = r
        /\ \A c \in Batches, q \in Pos : c # b \/ q # p =>
             item'[c][q] = item[c][q] /\ row'[c][q] = row[c][q]
    BY <2>1 DEF ReportsAs, TypeOK
  <2>4. \A c \in Batches, q \in Pos : c # b \/ q # p => task'[c][q] = task[c][q]
    BY <1>4, CloseKeepsOthers
  <2>5. job[b] \in {"pausing", "closing"} /\ st # "none"
    BY <2>2 DEF Reported, InProgress
  <2>6. ASSUME NEW c \in Batches, NEW q \in Pos
        PROVE  /\ (task'[c][q].pc # "idle") <=> (item'[c][q] \in {"pending", "submitted"})
               /\ item'[c][q] \in OpenItems => job'[c] \in {"pausing", "closing"}
               /\ (task'[c][q].pc \in {"unlink", "drop"} \/ item'[c][q] \in ClosedItems)
                    => q \in Gone' /\ row'[c][q] = "confirmed"
    <3>1. CASE c = b /\ q = p
      BY <2>1, <2>2, <2>3, <2>5, <3>1 DEF ReportsAs, InProgress
    <3>2. CASE c # b \/ q # p
      BY <2>2, <2>3, <2>4, <3>2 DEF Reported
    <3> QED
      BY <3>1, <3>2
  <2>7. ASSUME NEW c \in Batches
        PROVE  /\ job'[c] = "none" => \A q \in Pos : item'[c][q] = "none"
               /\ job'[c] \in {"pausing", "closing"} => \E q \in Pos : item'[c][q] # "none"
    <3>1. CASE c = b
      BY <2>2, <2>3, <2>5, <3>1
    <3>2. CASE c # b
      BY <2>2, <2>3, <3>2 DEF Reported
    <3> QED
      BY <3>1, <3>2
  <2> QED
    BY <2>6, <2>7 DEF Reported
<1>5. ASSUME NEW b \in Batches, NEW p \in Pos, NEW o \in Outcomes, Resolve(b, p, o) PROVE Reported'
  BY <1>1, <1>5 DEF Resolve
<1>7. ASSUME NEW s \in Strategies, ExecutorStep(s) PROVE Reported'
  BY <1>1, <1>7 DEF ExecutorStep, StartPass, TakePosition, RefreshPosition, RotateClose, RotateOpen,
                    ReadRotated, InsertRotated
<1>8. ASSUME NEW h \in hooks, HookStep(h) PROVE Reported'
  BY <1>1, <1>8, HookSteps
<1>9. ASSUME NEW p \in Viewed, StartAdd(p) \/ FinishAdd(p) PROVE Reported'
  BY <1>1, <1>9 DEF StartAdd, FinishAdd
<1>10. ASSUME UNCHANGED vars PROVE Reported'
  BY <1>1, <1>10 DEF vars
<1> QED
  BY <1>2, <1>3, <1>4, <1>5, <1>7, <1>8, <1>9, <1>10 DEF Next

\* No strategy links an unlinked position again: the reopen hook only adds what a
\* rotation has opened.
LEMMA UnlinkedStep ==
  ASSUME TypeOK, Bounded, Born, Reported, Unlinked, [Next]_vars
  PROVE  Unlinked'
<1> USE DEF chainVars, linkVars, execVars, monitorVars, jobVars, pauseVars, closeVars
<1> DEFINE Settled(b, p) == task[b][p].pc = "drop" \/ item[b][p] \in ClosedItems
           Free(p) == \A s \in Strategies : p \notin links[s]
<1>0. \A b \in Batches, p \in Pos \ Fresh : Settled(b, p) => Free(p)
  BY DEF Unlinked
\* Nobody links anything, and no close comes to its end.
<1>1. ASSUME UNCHANGED <<links, item, task>>, hooks' \subseteq hooks PROVE Unlinked'
  BY <1>1 DEF Unlinked
<1>2. ASSUME NEW b \in Batches, NEW S \in RequestedSets, NEW m \in Modes, StartBatch(b, S, m)
      PROVE  Unlinked'
  <2>1. \A c \in Batches, p \in Pos : item'[c][p] \in ClosedItems => item[c][p] \in ClosedItems
    <3>1. /\ \A c \in Batches : c # b => item'[c] = item[c]
          /\ \A p \in Pos : item'[b][p] \in {"queued", "skipped", "none"}
      BY <1>2 DEF StartBatch, TypeOK
    <3> QED
      BY <3>1 DEF ClosedItems
  <2> QED
    BY <1>2, <2>1 DEF StartBatch, Unlinked
<1>3. ASSUME NEW b \in Batches, PauseStep(b) PROVE Unlinked'
  BY <1>1, <1>3, PauseSteps
<1>4. ASSUME NEW b \in Batches, StartGroups(b) \/ FinishJob(b) PROVE Unlinked'
  BY <1>1, <1>4 DEF StartGroups, FinishJob
<1>5. ASSUME NEW b \in Batches, NEW p \in Pos, GroupStep(b, p) PROVE Unlinked'
  <2>1. PICK st \in InProgress \cup {"failed", "confirmed", "already"}, r \in Rows :
          ReportsAs(b, p, st, r)
    BY <1>5, CloseReports
  <2>2. /\ item'[b][p] = st
        /\ \A c \in Batches, q \in Pos : c # b \/ q # p => item'[c][q] = item[c][q]
    BY <2>1 DEF ReportsAs, TypeOK
  <2>3. \A c \in Batches, q \in Pos : c # b \/ q # p => task'[c][q] = task[c][q]
    BY <1>5, CloseKeepsOthers
  <2>4. /\ \A s \in Strategies : links'[s] \subseteq links[s]
        /\ hooks' = hooks
        /\ task'[b][p].pc = "drop" => Unlink(b, p)
    <3>1. CASE Unlink(b, p)
      BY <3>1 DEF Unlink, TypeOK
    <3>2. CASE ~Unlink(b, p)
      <4>1. UNCHANGED <<links, hooks>>
        BY <1>5, <3>2 DEF GroupStep, Snapshot, GroupWithoutWallet, BeginClose, Lookup, SubmitMissing,
               SubmitSent, SubmitError, PollRetry, PollDone, FinalizeLookup,
               ConfirmLanded, ConfirmSlippage, ConfirmKnownClosed,
               ConfirmFailed, Drop, GiveUp, Report
      <4>2. task'[b][p].pc # "drop"
        <5>1. CASE \E x : Report(b, p, x)
          BY <5>1, ClosePc
        <5>2. CASE \E x \in {"lookup", "submit", "confirm", "unlink"} : Goto(b, p, x)
          BY <5>2, ClosePc
        <5>3. CASE \/ RetryHigher(b, p) \/ BeginClose(b, p) \/ SubmitMissing(b, p)
                   \/ ConfirmKnownClosed(b, p) \/ SubmitSent(b, p) \/ PollDone(b, p)
          BY <5>3, ClosePc
        <5>4. CASE GroupWithoutWallet(b, p)
          BY <5>4 DEF GroupWithoutWallet, Reported
        <5> QED
          BY <1>5, <3>2, <5>1, <5>2, <5>3, <5>4
          DEF GroupStep, Snapshot, Lookup, SubmitError, PollRetry, FinalizeLookup, ConfirmLanded,
              ConfirmSlippage, ConfirmFailed, Drop, GiveUp
      <4> QED
        BY <4>1, <4>2
    <3> QED
      BY <3>1, <3>2
  <2>5. ASSUME NEW q \in Pos, Free(q) PROVE Free(q)'
    BY <2>4, <2>5
  <2>6. Unlink(b, p) => Free(p)'
    BY DEF Unlink
  <2>7. ASSUME NEW c \in Batches, NEW q \in Pos \ Fresh, Settled(c, q)' PROVE Free(q)'
    <3>1. CASE c = b /\ q = p
      <4>1. CASE task'[b][p].pc = "drop"
        BY <2>4, <2>6, <3>1, <4>1
      <4>2. CASE st \in ClosedItems
        BY <1>0, <2>1, <2>5, <3>1, <4>2 DEF ReportsAs, InProgress
      <4> QED
        BY <2>2, <2>7, <3>1, <4>1, <4>2
    <3>2. CASE c # b \/ q # p
      <4>1. Settled(c, q)
        BY <2>2, <2>3, <2>7, <3>2
      <4> QED
        BY <1>0, <2>5, <4>1
    <3> QED
      BY <3>1, <3>2
  <2> QED
    BY <2>4, <2>7 DEF Unlinked
<1>6. ASSUME NEW b \in Batches, NEW p \in Pos, NEW o \in Outcomes, Resolve(b, p, o) PROVE Unlinked'
  BY <1>1, <1>6 DEF Resolve
<1>8. ASSUME NEW s \in Strategies, ExecutorStep(s), ~RotateOpen(s) PROVE Unlinked'
  BY <1>1, <1>8 DEF ExecutorStep, StartPass, TakePosition, RefreshPosition, RotateClose,
                    ReadRotated, InsertRotated
<1>9. ASSUME NEW s \in Strategies, RotateOpen(s) PROVE Unlinked'
  <2>1. UNCHANGED <<links, item, task>>
    BY <1>9 DEF RotateOpen
  <2>2. hooks' = hooks \/ \E q \in unborn : hooks' = hooks \cup {NewHook(s, exec[s].old, q)}
    BY <1>9 DEF RotateOpen
  <2>3. \A h \in hooks' : h.new \in Fresh
    BY <2>2 DEF Unlinked, TypeOK, NewHook
  <2> QED
    BY <2>1, <2>3 DEF Unlinked
<1>10. ASSUME NEW h \in hooks, HookStep(h) PROVE Unlinked'
  <2>1. /\ UNCHANGED <<item, task>> /\ h.new \in Fresh
        /\ \A g \in hooks' : g \in hooks \/ g.new = h.new
        /\ \A s \in Strategies : links'[s] \subseteq links[s] \cup {h.new}
    BY <1>10, HookSteps DEF Unlinked
  <2> QED
    BY <2>1 DEF Unlinked
<1>11. ASSUME NEW p \in Viewed, StartAdd(p) \/ FinishAdd(p) PROVE Unlinked'
  BY <1>1, <1>11 DEF StartAdd, FinishAdd
<1>12. ASSUME UNCHANGED vars PROVE Unlinked'
  BY <1>1, <1>12 DEF vars
<1> QED
  BY <1>2, <1>3, <1>4, <1>5, <1>6, <1>8, <1>9, <1>10, <1>11, <1>12
  DEF Next, WorkerStep

-----------------------------------------------------------------------------
(* The inductive invariant, and what follows from it.                      *)

\* It holds at the start,
LEMMA InitInd == Init => IndInv
<1> SUFFICES ASSUME Init PROVE IndInv
  OBVIOUS
<1> USE DEF Init
<1>1. IdleTask \in TaskRecord /\ IdleTask \in GoodTask /\ IdleTask.pc = "idle"
  BY IdleIsGood DEF GoodTask, IdleTask
<1>2. IdleExec \in ExecRecord /\ IdleExec.pc = "idle"
  BY DEF IdleExec, ExecRecord, ExecPlaces
<1>p. NoPause \in GoodPause /\ NoPause \in PauseRecord
  BY DEF NoPause, GoodPause, PauseRecord
<1>3. \A s \in Strategies : Cardinality(Links0[s]) \in Nat
  BY ConstantsAssumption, CountPositions
<1>4. Bounded
  BY <1>1, <1>2, <1>p DEF Bounded, ExecTyped
<1>5. TypeOK
  <2>1. task \in [Batches -> [Pos -> TaskRecord]] /\ exec \in [Strategies -> ExecRecord]
    BY <1>1, <1>2
  <2>2. links \in [Strategies -> SUBSET Pos] /\ target \in [Strategies -> Nat]
    BY <1>3, ConstantsAssumption
  <2> QED
    BY <1>p, <2>1, <2>2, ConstantsAssumption DEF TypeOK, Statuses
<1>6. Born
  BY <1>1, <1>2, ConstantsAssumption DEF Born, Gone
<1>7. Reported /\ Unlinked
  BY <1>1 DEF Reported, Unlinked, ClosedItems, OpenItems
<1> QED
  BY <1>4, <1>5, <1>6, <1>7 DEF IndInv

\* every step keeps it,
LEMMA IndStep == IndInv /\ [Next]_vars => IndInv'
  BY TypeStep, BornStep, ReportedStep, UnlinkedStep DEF IndInv

\* and so it holds always.
LEMMA IndAlways == Spec => []IndInv
  BY InitInd, IndStep, PTL DEF Spec

\* Every reachable state of the bulk close is well typed: in particular a close
\* never builds more than MaxAttempts transactions per submit, for any number of
\* batches, positions, wallets and faults (close_position_with_confirm and the
\* one raised-slippage retry of position_close_ops.rs).
THEOREM CloseAllTypeCorrect == Spec => []TypeOK
<1>1. IndInv => TypeOK
  BY DEF IndInv
<1> QED
  BY <1>1, IndAlways, PTL

\* What record_execution_success marks closed is gone from the chain, so the
\* 3007 branch of close_position never reports an open position as closed.
THEOREM RegistryTellsTheTruth == Spec => []RecordedIsGone
<1>1. IndInv => RecordedIsGone
  BY DEF IndInv, Born, RecordedIsGone
<1> QED
  BY <1>1, IndAlways, PTL

\* A position the job reports closed is gone, has its Confirmed row and is
\* linked nowhere (complete_manual_close_success), whatever the strategies, the
\* hooks and other batches do afterwards.
THEOREM ClosedStaysSettled == Spec => []ClosedIsSettled
<1>1. IndInv => ClosedIsSettled
  BY DEF IndInv, Reported, Unlinked, ClosedIsSettled
<1> QED
  BY <1>1, IndAlways, PTL

-----------------------------------------------------------------------------
(* CloseAll implements BatchReport.                                        *)

\* The initial states are those of the abstract specification.
LEMMA ReportInitially == Init => Report0!ReportInit
  BY ConstantsAssumption DEF Init, Report0!ReportInit, Gone, Abs, OpenItems, ClosedItems

\* A table is determined by the entry or the row that changed.
LEMMA EntryChanged ==
  ASSUME NEW V, NEW f \in [Batches -> [Pos -> V]], NEW g \in [Batches -> [Pos -> V]],
         NEW b \in Batches, NEW p \in Pos,
         \A c \in Batches, q \in Pos : c # b \/ q # p => g[c][q] = f[c][q]
  PROVE  g = [f EXCEPT ![b][p] = g[b][p]]
<1>1. ASSUME NEW c \in Batches PROVE g[c] = [f EXCEPT ![b][p] = g[b][p]][c]
  <2>1. \A q \in Pos : g[c][q] = [f EXCEPT ![b][p] = g[b][p]][c][q]
    OBVIOUS
  <2> QED
    BY <2>1
<1> QED
  BY <1>1

\* The same for all the items of a batch.
LEMMA RowChanged ==
  ASSUME NEW V, NEW f \in [Batches -> [Pos -> V]], NEW g \in [Batches -> [Pos -> V]],
         NEW b \in Batches, \A c \in Batches : c # b => g[c] = f[c]
  PROVE  g = [f EXCEPT ![b] = g[b]]
  OBVIOUS

\* A step that reports nothing and removes no account.
LEMMA SilentStep ==
  ASSUME UNCHANGED <<item, job>>, Gone' = Gone
  PROVE  UNCHANGED Report0!reportVars
  BY DEF Report0!reportVars

\* An account is removed by a landed close or by a rotation.
LEMMA VanishStep ==
  ASSUME UNCHANGED <<item, job>>, NEW p \in Pos, Gone' = Gone \cup {p}
  PROVE  Report0!ReportNext
<1>1. Report0!Vanish(p)
  BY DEF Report0!Vanish
<1> QED
  BY <1>1 DEF Report0!ReportNext

\* Every step of the bulk close, of the executors, the monitor and the chain is
\* a step of BatchReport or leaves its variables alone.
LEMMA StepSimulation ==
  ASSUME IndInv, [Next]_vars PROVE [Report0!ReportNext]_(Report0!reportVars)
<1> USE DEF chainVars, linkVars, execVars, monitorVars, jobVars, pauseVars, closeVars
<1> DEFINE Simulated == [Report0!ReportNext]_(Report0!reportVars)
           view == [b \in Batches |-> [p \in Pos |-> Abs(item[b][p])]]
           over == {b \in Batches : job[b] = "done"}
<1>0. TypeOK /\ Bounded /\ Born /\ Reported
  BY DEF IndInv
<1> DEFINE Words == {Abs(x) : x \in Statuses}
<1>v. view \in [Batches -> [Pos -> Words]] /\ view' \in [Batches -> [Pos -> Words]]
  <2>1. TypeOK'
    BY IndStep DEF IndInv
  <2> QED
    BY <1>0, <2>1 DEF TypeOK
<1>s. ASSUME UNCHANGED <<item, job, accounts, unborn>> PROVE Simulated
  <2>1. Gone' = Gone
    BY <1>s DEF Gone
  <2> QED
    BY <1>s, <2>1, SilentStep
<1>1. ASSUME NEW b \in Batches, NEW S \in RequestedSets, NEW m \in Modes, StartBatch(b, S, m)
      PROVE  Simulated
  <2> DEFINE todo == Closable(S)
  <2>1. todo \in SUBSET Pos /\ S \in SUBSET Pos
    BY <1>0, RequestsArePositions DEF Closable
  <2>2. \A p \in Pos : view[b][p] = "none"
    BY <1>0, <1>1 DEF StartBatch, Reported, Abs, OpenItems, ClosedItems
  <2>3. view' = [view EXCEPT ![b] =
          [p \in Pos |-> IF p \in todo THEN "open"
                         ELSE IF p \in S THEN "skipped" ELSE "none"]]
    <3>1. /\ \A c \in Batches : c # b => item'[c] = item[c]
          /\ item'[b] = [p \in Pos |-> IF p \in todo THEN "queued"
                                       ELSE IF p \in S THEN "skipped" ELSE "none"]
      BY <1>0, <1>1 DEF StartBatch, TypeOK
    <3>2. /\ Abs("queued") = "open" /\ Abs("skipped") = "skipped" /\ Abs("none") = "none"
      BY DEF Abs, OpenItems, ClosedItems
    <3>3. \A c \in Batches : c # b => view'[c] = view[c]
      BY <3>1
    <3>4. view'[b] = [p \in Pos |-> IF p \in todo THEN "open"
                                    ELSE IF p \in S THEN "skipped" ELSE "none"]
      BY <3>1, <3>2
    <3> HIDE DEF todo, view, Words
    <3> QED
      BY <1>v, <3>3, <3>4, RowChanged
  <2>4. over' = IF todo = {} THEN over \cup {b} ELSE over
    BY <1>0, <1>1 DEF StartBatch, TypeOK
  <2>5. Gone' = Gone
    BY <1>1 DEF StartBatch, Gone
  <2>6. Report0!Accept(b)
    <3> HIDE DEF todo, view, over
    <3> QED
      BY <2>1, <2>2, <2>3, <2>4, <2>5 DEF Report0!Accept, view, over
  <2> QED
    BY <2>6 DEF Report0!ReportNext
<1>2. ASSUME NEW b \in Batches, PauseStep(b) PROVE Simulated
  BY <1>0, <1>s, <1>2, PauseSteps
<1>3. ASSUME NEW b \in Batches, StartGroups(b) PROVE Simulated
  <2>1. over' = over /\ view' = view
    BY <1>0, <1>3 DEF StartGroups, TypeOK
  <2>2. Gone' = Gone
    BY <1>3 DEF StartGroups, Gone
  <2> QED
    BY <2>1, <2>2 DEF Report0!reportVars
<1>4. ASSUME NEW b \in Batches, FinishJob(b) PROVE Simulated
  <2>1. over' = over \cup {b} /\ b \notin over
    BY <1>0, <1>4 DEF FinishJob, TypeOK
  <2>2. \A p \in Pos : item[b][p] \notin OpenItems
    BY <1>0, <1>4 DEF FinishJob, Reported, OpenItems
  <2>3. \A p \in Pos : view[b][p] # "open"
    <3>1. \A p \in Pos : item[b][p] \in Statuses
      BY <1>0 DEF TypeOK
    <3> QED
      BY <2>2, <3>1 DEF Abs, Statuses, OpenItems, ClosedItems
  <2>4. \E p \in Pos : view[b][p] # "none"
    <3>1. PICK p \in Pos : item[b][p] # "none"
      BY <1>0, <1>4 DEF FinishJob, Reported
    <3> QED
      BY <3>1 DEF Abs, OpenItems, ClosedItems
  <2>5. Gone' = Gone /\ view' = view
    BY <1>4 DEF FinishJob, Gone
  <2>6. Report0!Finish(b)
    BY <2>1, <2>3, <2>4, <2>5 DEF Report0!Finish
  <2> QED
    BY <2>6 DEF Report0!ReportNext
<1>5. ASSUME NEW b \in Batches, NEW p \in Pos, GroupStep(b, p) PROVE Simulated
  <2>1. PICK st \in InProgress \cup {"failed", "confirmed", "already"}, r \in Rows :
          ReportsAs(b, p, st, r)
    BY <1>0, <1>5, CloseReports
  <2>2. item[b][p] \in OpenItems /\ UNCHANGED <<job, accounts, unborn>>
    BY <1>0, <1>5, CloseReports
  <2>3. view' = [view EXCEPT ![b][p] = Abs(st)] /\ view[b][p] = "open"
    <3>1. /\ item'[b][p] = st
          /\ \A c \in Batches, q \in Pos : c # b \/ q # p => item'[c][q] = item[c][q]
      BY <1>0, <2>1 DEF ReportsAs, TypeOK
    <3>2. Abs(item[b][p]) = "open"
      BY <2>2 DEF Abs
    <3>3. /\ view'[b][p] = Abs(st) /\ view[b][p] = "open"
          /\ \A c \in Batches, q \in Pos : c # b \/ q # p => view'[c][q] = view[c][q]
      BY <3>1, <3>2
    <3> HIDE DEF view, Words
    <3> QED
      BY <1>v, <3>3, EntryChanged
  <2>4. Gone' = Gone /\ over' = over
    BY <2>2 DEF Gone
  <2>5. CASE st \in InProgress
    <3>1. Abs(st) = "open"
      BY <2>5 DEF Abs, InProgress, OpenItems
    <3>2. view' = view
      <4> HIDE DEF view, Words
      <4> QED
        BY <1>v, <2>3, <3>1
    <3> QED
      BY <2>4, <3>2 DEF Report0!reportVars
  <2>6. CASE st \in {"failed", "confirmed", "already"}
    <3>1. Abs(st) \in {"failed", "closed"} /\ (Abs(st) = "closed" => st \in ClosedItems)
      BY <2>6 DEF Abs, OpenItems, ClosedItems
    <3>2. Abs(st) = "closed" => p \in Gone
      BY <2>1, <3>1 DEF ReportsAs, InProgress
    <3>3. Report0!Settle(b, p)
      BY <2>3, <2>4, <3>1, <3>2 DEF Report0!Settle, Report0!Outcomes
    <3> QED
      BY <3>3 DEF Report0!ReportNext
  <2> QED
    BY <2>5, <2>6
<1>6. ASSUME NEW b \in Batches, NEW p \in Pos, NEW o \in Outcomes, Resolve(b, p, o) PROVE Simulated
  <2>1. CASE o = "landed"
    <3>1. Gone' = Gone \cup {p}
      BY <1>0, <1>6, <2>1 DEF Resolve, Gone, Born
    <3> QED
      BY <1>6, <3>1, VanishStep DEF Resolve
  <2>2. CASE o # "landed"
    BY <1>s, <1>6, <2>2 DEF Resolve
  <2> QED
    BY <2>1, <2>2
<1>7. ASSUME NEW s \in Strategies,
             StartPass(s) \/ RefreshPosition(s) \/ \E p \in Pos : TakePosition(s, p)
      PROVE  Simulated
  BY <1>s, <1>7 DEF StartPass, RefreshPosition, TakePosition
<1>8. ASSUME NEW s \in Strategies, RotateClose(s) PROVE Simulated
  <2>1. CASE exec[s].old \in accounts /\ accounts' = accounts \ {exec[s].old}
    <3>1. exec[s].old \in Pos /\ Gone' = Gone \cup {exec[s].old}
      BY <1>0, <1>8, <2>1 DEF RotateClose, Gone, Born, TypeOK
    <3> QED
      BY <1>8, <3>1, VanishStep DEF RotateClose
  <2>2. CASE UNCHANGED accounts
    BY <1>s, <1>8, <2>2 DEF RotateClose
  <2> QED
    BY <1>8, <2>1, <2>2 DEF RotateClose
<1>9. ASSUME NEW s \in Strategies, RotateOpen(s) PROVE Simulated
  <2>1. Gone' = Gone
    BY <1>0, <1>9 DEF RotateOpen, Gone, Born
  <2> QED
    BY <1>9, <2>1, SilentStep DEF RotateOpen
<1>10. ASSUME NEW s \in Strategies, ReadRotated(s) \/ InsertRotated(s) PROVE Simulated
  BY <1>s, <1>10 DEF ReadRotated, InsertRotated
<1>11. ASSUME NEW h \in hooks, HookStep(h) PROVE Simulated
  BY <1>0, <1>s, <1>11, HookSteps
<1>12. ASSUME NEW p \in Viewed, StartAdd(p) \/ FinishAdd(p) PROVE Simulated
  BY <1>s, <1>12 DEF StartAdd, FinishAdd
<1>13. ASSUME UNCHANGED vars PROVE Simulated
  BY <1>s, <1>13 DEF vars
<1> HIDE DEF Simulated
<1>14. Simulated
  BY <1>1, <1>2, <1>3, <1>4, <1>5, <1>6, <1>7, <1>8, <1>9, <1>10, <1>11, <1>12, <1>13
  DEF Next, WorkerStep, ExecutorStep
<1> QED
  BY <1>14 DEF Simulated

\* The bulk close implements BatchReport: every accepted position is reported
\* exactly once, closed only when its account is gone, and the job is done only
\* after the last report (run_close_all_worker and its joined finalizers).
THEOREM CloseAllImplementsBatchReport == Spec => RefinesBatchReport
  BY ReportInitially, StepSimulation, IndAlways, PTL DEF Spec, RefinesBatchReport, Report0!ReportSpec

=============================================================================
