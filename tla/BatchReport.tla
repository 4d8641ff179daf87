----------------------------- MODULE BatchReport -----------------------------
(***************************************************************************)
(* What a bulk close promises its caller, without saying how it closes:    *)
(* every accepted position is reported exactly once, a position is         *)
(* reported closed only when its account is gone, and a batch is done only *)
(* when every position of it has been reported.                            *)
(* CloseAll implements this specification.                                 *)
(***************************************************************************)
CONSTANTS Batches, Pos

VARIABLES
  gone,    \* the positions whose account no longer exists
  report,  \* what a batch says of a position
  done     \* the batches that are over

reportVars == <<gone, report, done>>

Outcomes == {"closed", "failed", "skipped"}

ReportInit ==
  /\ gone = {}
  /\ report = [b \in Batches |-> [p \in Pos |-> "none"]]
  /\ done = {}

\* A batch takes some positions on and skips others at once; with nothing to
\* close it is over from the start.
Accept(b) ==
  /\ \A p \in Pos : report[b][p] = "none"
  /\ \E todo, skipped \in SUBSET Pos :
       /\ report' = [report EXCEPT ![b] =
            [p \in Pos |-> IF p \in todo THEN "open"
                           ELSE IF p \in skipped THEN "skipped" ELSE "none"]]
       /\ done' = IF todo = {} THEN done \cup {b} ELSE done
  /\ UNCHANGED gone

\* Somebody closes a position on chain: this batch, another one or a strategy.
Vanish(p) ==
  /\ gone' = gone \cup {p}
  /\ UNCHANGED <<report, done>>

Settle(b, p) ==
  /\ report[b][p] = "open"
  /\ \E outcome \in Outcomes :
       /\ outcome = "closed" => p \in gone
       /\ report' = [report EXCEPT ![b][p] = outcome]
  /\ UNCHANGED <<gone, done>>

Finish(b) ==
  /\ b \notin done
  /\ \A p \in Pos : report[b][p] # "open"
  /\ \E p \in Pos : report[b][p] # "none"
  /\ done' = done \cup {b}
  /\ UNCHANGED <<gone, report>>

ReportNext ==
  \/ \E b \in Batches : Accept(b) \/ Finish(b)
  \/ \E b \in Batches, p \in Pos : Settle(b, p)
  \/ \E p \in Pos : Vanish(p)

ReportSpec == ReportInit /\ [][ReportNext]_reportVars
==============================================================================
