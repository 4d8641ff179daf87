------------------------------ MODULE WalletGl ------------------------------
(***************************************************************************)
(* The general-ledger postings of the lifecycle ledger: every confirmed    *)
(* transaction is a row of a JSON-lines file; ingest passes re-read the    *)
(* whole file, store each row in position_stream_ledger_rows (PSLR) and    *)
(* post its mint deltas to the SESSION account, the TX_FEE account and the *)
(* CHAIN account; backfills replay PSLR; a confirmed wallet-journal event  *)
(* of the same transaction may post to the SESSION account too.  The       *)
(* balances bound what an automatic reopen may spend (the spend caps).     *)
(*                                                                         *)
(* One statement or transaction of the database is one step.  A transaction *)
(* is a row 1..N in the order of its time stamp, which is the order of the *)
(* file; all rows belong to one chain.  Amounts are small integers.        *)
(***************************************************************************)
EXTENDS Integers, Sequences, FiniteSets, FiniteSetsExt

CONSTANTS
  Posters,     \* the tasks that may post at the same time
  N,           \* number of transactions
  Mints,
  Wsol,        \* the mint network fees are counted in
  Sessions,
  Session,     \* the rebalance session of each row
  Opens,       \* the rows of open events
  Deltas,      \* the signed mint deltas of each row, in posting order
  Fee,         \* its network fee
  Journal,     \* the deltas of the wallet-journal event of a row, or <<>>
  NoRow,       \* no balance row for a mint
  MaxPasses,   \* bound: passes started
  MaxFaults    \* bound: database errors and restarts

Rows == 1..N
CHAIN == "chain"
TX_FEE == "tx_fee"
Accounts == Sessions \cup {CHAIN, TX_FEE}
Scopes == {"lifecycle", "tx_fee", "chain_lifecycle", "journal"}
Delta == [mint : Mints, delta : Int]

ASSUME ConstantsAssumption ==
  /\ Posters # {}
  /\ N \in Nat
  /\ Wsol \in Mints
  /\ Session \in [Rows -> Sessions]
  /\ Sessions \cap {CHAIN, TX_FEE} = {}
  /\ Opens \subseteq Rows
  /\ Deltas \in [Rows -> Seq(Delta)]
  /\ Journal \in [Rows -> Seq(Delta)]
  /\ Fee \in [Rows -> Nat]
  /\ NoRow \notin Int
  /\ MaxPasses \in Nat /\ MaxFaults \in Nat

\* The deltas of an open are the two legs of its pool, or the members of a JSON
\* object: no mint occurs twice.
ASSUME OpenAssumption ==
  \A r \in Opens : \A i, j \in DOMAIN Deltas[r] :
    Deltas[r][i].mint = Deltas[r][j].mint => i = j

VARIABLES
  filed,      \* how many rows the lifecycle file has
  pslr,       \* the rows stored in position_stream_ledger_rows
  linked,     \* the stored rows with their chain_session_id column set
  journalled, \* the rows whose wallet-journal event was appended
  bal,        \* wallet_gl_balance: amount of each account and mint
  posting,    \* wallet_gl_posting: entries and their total per event id and mint
  poster,     \* the pass each poster is in
  settled,    \* event ids whose posting has returned Ok
  tainted,    \* a fault, a capped debit, a journal posting or an overlap has happened
  overwritten, \* the accounts and mints whose row was there when its insert came
  contended,  \* event ids two posters were booking at the same time
  undercut,   \* posters of an open whose account was debited after they had read it
  passes,     \* passes started so far
  faults      \* faults so far

tables == <<pslr, linked, bal, posting>>
races == <<overwritten, contended, undercut>>
vars == <<filed, journalled, tables, poster, settled, tainted, races, passes, faults>>

-----------------------------------------------------------------------------
(* Event ids.  The prefix keeps the scopes of one signature apart.         *)

EventIds == Scopes \X Rows

\* Bug: the chain posting shares the id of the session posting.
EventIdWithoutChainPrefix(scope, r) ==
  <<IF scope = "chain_lifecycle" THEN "lifecycle" ELSE scope, r>>

EventId(scope, r) == <<scope, r>>

AccountOf(e) ==
  CASE e[1] = "tx_fee" -> TX_FEE
    [] e[1] = "chain_lifecycle" -> CHAIN
    [] OTHER -> Session[e[2]]

PostingsOf(e) ==
  CASE e[1] = "tx_fee" -> IF Fee[e[2]] > 0 THEN <<[mint |-> Wsol, delta |-> Fee[e[2]]]>> ELSE <<>>
    [] e[1] = "journal" -> Journal[e[2]]
    [] OTHER -> Deltas[e[2]]

\* Bug: an event counts as applied only when all of its deltas were booked.
AlreadyAppliedInFull(e) ==
  \A i \in DOMAIN PostingsOf(e) : posting[e][PostingsOf(e)[i].mint].entries > 0

AlreadyApplied(e) == \E m \in Mints : posting[e][m].entries > 0

Amount(x) == IF x = NoRow THEN 0 ELSE x
Least(a, b) == IF a < b THEN a ELSE b
Positive(a) == IF a > 0 THEN a ELSE 0

\* Bug: only the debits of the SESSION account are capped.
CapOpenDebitsSessionOnly(e, running, posts) ==
  IF e[2] \notin Opens \/ e[1] # "lifecycle" THEN posts
  ELSE [i \in DOMAIN posts |->
          IF posts[i].delta >= 0 THEN posts[i]
          ELSE [posts[i] EXCEPT !.delta =
                  -Least(-posts[i].delta, Positive(Amount(running[posts[i].mint])))]]

\* Debits of an open are limited to what the account holds when they are read.
CapOpenDebits(e, running, posts) ==
  IF e[2] \notin Opens \/ e[1] \notin {"lifecycle", "chain_lifecycle"} THEN posts
  ELSE [i \in DOMAIN posts |->
          IF posts[i].delta >= 0 THEN posts[i]
          ELSE [posts[i] EXCEPT !.delta =
                  -Least(-posts[i].delta, Positive(Amount(running[posts[i].mint])))]]

\* The sum of F[1] .. F[n].
SumTo(F, n) ==
  LET sum[k \in 0..n] == IF k = 0 THEN 0 ELSE sum[k - 1] + F[k]
  IN  sum[n]

TotalOf(posts, m) ==
  SumTo([i \in DOMAIN posts |-> IF posts[i].mint = m THEN posts[i].delta ELSE 0], Len(posts))

\* The deltas a batch books; zero deltas are skipped.
NonZero(batch) == {i \in DOMAIN batch : batch[i].delta # 0}

ApplyCapped(sums, e, posts) ==
  LET batch == CapOpenDebits(e, sums, posts)
  IN  [m \in Mints |-> IF \E i \in NonZero(batch) : batch[i].mint = m
                       THEN Amount(sums[m]) + TotalOf(batch, m) ELSE sums[m]]

\* The capped running balance of a set of rows, in the order of time stamps.
AggregateSums(scope, rows) ==
  LET sums[k \in 0..N] ==
        IF k = 0 THEN [m \in Mints |-> NoRow]
        ELSE IF k \in rows
             THEN ApplyCapped(sums[k - 1], EventId(scope, k), Deltas[k])
             ELSE sums[k - 1]
  IN  sums[N]

-----------------------------------------------------------------------------
(* Spend caps of a SESSION or CHAIN account.                               *)

InAccount(a, rows) == {r \in rows : a = CHAIN \/ Session[r] = a}

ScopeOf(a) == IF a = CHAIN THEN "chain_lifecycle" ELSE "lifecycle"

PslrSums(a) ==
  AggregateSums(ScopeOf(a), InAccount(a, IF a = CHAIN THEN linked ELSE pslr))

FileSums(a) == AggregateSums(ScopeOf(a), InAccount(a, 1..filed))

CapsMap(sums) == [m \in Mints |-> Positive(Amount(sums[m]))]

MergeMinCaps(gl, ps) ==
  [m \in Mints |-> CASE gl[m] = 0 -> ps[m]
                     [] ps[m] = 0 -> gl[m]
                     [] OTHER -> Least(gl[m], ps[m])]

ResolveMintCaps(requireReconcile, a) ==
  LET gl == CapsMap(bal[a])
      ps == CapsMap(PslrSums(a))
      none == [m \in Mints |-> 0]
  IN  IF requireReconcile /\ bal[a] # PslrSums(a) THEN none
      ELSE IF gl # none \/ ps # none THEN MergeMinCaps(gl, ps)
      ELSE CapsMap(FileSums(a))

-----------------------------------------------------------------------------
(* Posters.  A pass visits its rows one by one, and each row its scopes.   *)

Passes == {"none", "ingest", "backfill", "chain_backfill", "journal"}

Pcs == {"idle", "upsert", "check", "read", "apply", "write", "link"}

\* What a pass has before it: the rows it has not finished, the scope it posts,
\* the capped deltas of the event, those of them not yet booked, and the amount
\* its open database transaction has found.
PosterType == [pass  : Passes,
               pc    : Pcs,
               todo  : SUBSET Rows,
               scope : Scopes \cup {"none"},
               batch : Seq(Delta),
               left  : SUBSET Nat,
               old   : Int \cup {NoRow}]

Idle == [pass |-> "none", pc |-> "idle", todo |-> {}, scope |-> "none",
         batch |-> <<>>, left |-> {}, old |-> NoRow]

FirstScope(pass) ==
  CASE pass = "chain_backfill" -> "chain_lifecycle"
    [] pass = "journal" -> "journal"
    [] OTHER -> "lifecycle"

\* Ingest and backfill post the fee after the session, the ingest then the chain.
ScopeAfter(q) ==
  CASE q.scope = "lifecycle" -> "tx_fee"
    [] q.scope = "tx_fee" /\ q.pass = "ingest" -> "chain_lifecycle"
    [] OTHER -> "none"

StartRow(pass, todo) ==
  IF todo = {} THEN Idle
  ELSE [pass |-> pass, pc |-> IF pass = "ingest" THEN "upsert" ELSE "check",
        todo |-> todo, scope |-> FirstScope(pass), batch |-> <<>>, left |-> {}, old |-> NoRow]

\* The row a pass is at: the first in the order of time stamps.
Row(q) == Min(q.todo)

NextRow(q) == StartRow(q.pass, q.todo \ {Row(q)})

Moved(q, pc, scope) ==
  [q EXCEPT !.pc = pc, !.scope = scope, !.batch = <<>>, !.left = {}, !.old = NoRow]

\* Bug: every pass fills in the chain column, the journal's too.
NextScopeLinking(q) ==
  IF ScopeAfter(q) # "none" THEN Moved(q, "check", ScopeAfter(q)) ELSE Moved(q, "link", "none")

NextScope(q) ==
  IF ScopeAfter(q) # "none" THEN Moved(q, "check", ScopeAfter(q))
  ELSE IF q.pass = "ingest" THEN Moved(q, "link", "none")
  ELSE NextRow(q)

Event(p) == EventId(poster[p].scope, Row(poster[p]))

\* The next delta of the batch that is to be booked.
NextDelta(p) == poster[p].batch[Min(poster[p].left)]

At(p, pc) == poster[p].pc = pc

\* Between the read of the balances and the last delta of the event.
Booking(p) == poster[p].pc \in {"apply", "write"}

Become(p, q) == poster' = [poster EXCEPT ![p] = q]

\* The posting of an event returned Ok.
Settle(p) ==
  /\ Become(p, NextScope(poster[p]))
  /\ settled' = settled \cup {Event(p)}

Init ==
  /\ filed = 0
  /\ pslr = {}
  /\ linked = {}
  /\ journalled = {}
  /\ bal = [a \in Accounts |-> [m \in Mints |-> NoRow]]
  /\ posting = [e \in EventIds |-> [m \in Mints |-> [entries |-> 0, total |-> 0]]]
  /\ poster = [p \in Posters |-> Idle]
  /\ settled = {}
  /\ tainted = FALSE
  /\ overwritten = {} /\ contended = {} /\ undercut = {}
  /\ passes = 0 /\ faults = 0

\* A confirmed transaction appends its row to the lifecycle file.
AppendRow ==
  /\ filed < N
  /\ filed' = filed + 1
  /\ UNCHANGED <<journalled, tables, poster, settled, tainted, races, passes, faults>>

\* Nothing keeps a pass from starting while another one is under way.
Start(p, pass, todo) ==
  /\ At(p, "idle")
  /\ todo # {} /\ passes < MaxPasses
  /\ passes' = passes + 1
  /\ Become(p, StartRow(pass, todo))
  /\ tainted' = (tainted \/ pass = "journal" \/ \E q \in Posters : ~At(q, "idle"))
  /\ UNCHANGED <<filed, tables, settled, races, faults>>

\* A read of the stream performance ingests the whole file.
StartIngest(p) == Start(p, "ingest", 1..filed) /\ UNCHANGED journalled

StartBackfill(p) ==
  \E s \in Sessions : Start(p, "backfill", InAccount(s, pslr)) /\ UNCHANGED journalled

StartChainBackfill(p) == Start(p, "chain_backfill", linked) /\ UNCHANGED journalled

\* A confirmed journal event is appended under the append lock; the principal
\* of an open or a close is left to the lifecycle row.
StartJournal(p) == \E r \in Rows \ journalled :
  /\ Journal[r] # <<>>
  /\ \A q \in Posters : poster[q].pass # "journal"
  /\ Start(p, "journal", {r})
  /\ journalled' = journalled \cup {r}

\* INSERT ... ON CONFLICT (signature) DO UPDATE into PSLR.
Upsert(p) ==
  /\ At(p, "upsert")
  /\ pslr' = pslr \cup {Row(poster[p])}
  /\ Become(p, [poster[p] EXCEPT !.pc = "check"])
  /\ UNCHANGED <<filed, journalled, linked, bal, posting, settled, tainted, races, passes, faults>>

\* The id a posting is looked up by; a journal event asks for the lifecycle row.
LookupId(e) == IF e[1] = "journal" THEN EventId("lifecycle", e[2]) ELSE e

\* Another poster has found the event unbooked and is not through with it.
Contends(p) == \E q \in Posters \ {p} :
  (At(q, "read") \/ Booking(q)) /\ Event(q) = Event(p)

CheckApplied(p) ==
  /\ At(p, "check")
  /\ IF PostingsOf(Event(p)) = <<>> \/ AlreadyApplied(LookupId(Event(p)))
     THEN Settle(p) /\ UNCHANGED contended
     ELSE /\ Become(p, [poster[p] EXCEPT !.pc = "read"])
          /\ contended' = IF Contends(p) THEN contended \cup {Event(p)} ELSE contended
          /\ UNCHANGED settled
  /\ UNCHANGED <<filed, journalled, tables, tainted, overwritten, undercut, passes, faults>>

\* The account row is ensured and its balances are read, outside a transaction.
ReadRunning(p) ==
  LET e == Event(p)
      capped == CapOpenDebits(e, bal[AccountOf(e)], PostingsOf(e))
  IN  /\ At(p, "read")
      /\ IF NonZero(capped) = {} THEN Settle(p)
         ELSE /\ Become(p, [poster[p] EXCEPT !.pc = "apply", !.batch = capped,
                                             !.left = NonZero(capped)])
              /\ UNCHANGED settled
      /\ tainted' = (tainted \/ capped # PostingsOf(e))
      /\ undercut' = undercut \ {p}
      /\ UNCHANGED <<filed, journalled, tables, overwritten, contended, passes, faults>>

\* The balance row of the delta a poster books.
Key(p) == <<AccountOf(Event(p)), NextDelta(p).mint>>

\* Bug: the row is read without FOR UPDATE.
HoldsNoLock(p) == FALSE

\* A transaction that has found the row has it locked until it commits.
HoldsLock(p) == At(p, "write") /\ poster[p].old # NoRow

Unlocked(p) == \A q \in Posters \ {p} : HoldsLock(q) => Key(q) # Key(p)

\* SELECT ... FOR UPDATE; when there is no row, there is nothing to lock.
SelectBalance(p) ==
  /\ At(p, "apply")
  /\ Unlocked(p)
  /\ Become(p, [poster[p] EXCEPT !.pc = "write",
                                !.old = bal[AccountOf(Event(p))][NextDelta(p).mint]])
  /\ UNCHANGED <<filed, journalled, tables, settled, tainted, races, passes, faults>>

AfterDelta(p) ==
  LET rest == poster[p].left \ {Min(poster[p].left)}
  IN  IF rest = {} THEN Settle(p)
      ELSE /\ Become(p, [poster[p] EXCEPT !.pc = "apply", !.left = rest, !.old = NoRow])
           /\ UNCHANGED settled

\* The new balance and the posting entry, committed together.
Commit(p, old) ==
  LET d == NextDelta(p)
  IN  /\ bal' = [bal EXCEPT ![AccountOf(Event(p))][d.mint] = Amount(old) + d.delta]
      /\ posting' = [posting EXCEPT ![Event(p)][d.mint] =
                       [entries |-> @.entries + 1, total |-> @.total + d.delta]]
      /\ AfterDelta(p)

\* The posters of an open that have read the account p takes something from.
Undercuts(p) == {q \in Posters \ {p} :
  Booking(q) /\ Row(poster[q]) \in Opens /\ AccountOf(Event(q)) = AccountOf(Event(p))}

\* INSERT ... ON CONFLICT DO UPDATE SET amount_raw = EXCLUDED.amount_raw.
WriteBalance(p) ==
  LET old == poster[p].old
      now == bal[AccountOf(Event(p))][NextDelta(p).mint]
  IN  /\ At(p, "write")
      /\ Unlocked(p)
      /\ Commit(p, old)
      /\ overwritten' = IF old = NoRow /\ now # NoRow THEN overwritten \cup {Key(p)}
                        ELSE overwritten
      /\ undercut' = IF Amount(old) + NextDelta(p).delta < Amount(now)
                     THEN undercut \cup Undercuts(p) ELSE undercut
      /\ UNCHANGED <<filed, journalled, pslr, linked, tainted, contended, passes, faults>>

\* The ingest fills in the chain_session_id column last.
LinkChain(p) ==
  /\ At(p, "link")
  /\ linked' = linked \cup {Row(poster[p])}
  /\ Become(p, NextRow(poster[p]))
  /\ UNCHANGED <<filed, journalled, pslr, bal, posting, settled, tainted, races, passes, faults>>

\* Bug: a row that could not be stored is posted all the same.
AfterErrorStoringToo(q) ==
  CASE q.pc = "upsert" -> [q EXCEPT !.pc = "check"]
    [] q.pc = "link" -> NextRow(q)
    [] q.pass = "journal" /\ q.pc = "check" -> [q EXCEPT !.pc = "read"]
    [] q.pc \notin {"upsert", "link"} /\ (q.pass = "ingest" \/ q.scope = "tx_fee") ->
         NextScope(q)
    [] OTHER -> Idle

\* How a pass goes on after a database error.
AfterError(q) ==
  CASE q.pc = "upsert" -> Idle
    [] q.pc = "link" -> NextRow(q)
    [] q.pass = "journal" /\ q.pc = "check" -> [q EXCEPT !.pc = "read"]
    [] q.pc \notin {"upsert", "link"} /\ (q.pass = "ingest" \/ q.scope = "tx_fee") ->
         NextScope(q)
    [] OTHER -> Idle

Fault == /\ faults < MaxFaults
         /\ faults' = faults + 1
         /\ tainted' = TRUE

DbError(p) ==
  /\ ~At(p, "idle")
  /\ Fault
  /\ Become(p, AfterError(poster[p]))
  /\ UNCHANGED <<filed, journalled, tables, settled, races, passes>>

\* The API process ends; what was committed stays.
Restart ==
  /\ \E p \in Posters : ~At(p, "idle")
  /\ Fault
  /\ poster' = [p \in Posters |-> Idle]
  /\ UNCHANGED <<filed, journalled, tables, settled, races, passes>>

Next ==
  \/ AppendRow
  \/ Restart
  \/ \E p \in Posters :
       \/ StartIngest(p) \/ StartBackfill(p) \/ StartChainBackfill(p) \/ StartJournal(p)
       \/ Upsert(p) \/ CheckApplied(p) \/ ReadRunning(p)
       \/ SelectBalance(p) \/ WriteBalance(p)
       \/ LinkChain(p) \/ DbError(p)

Spec == Init /\ [][Next]_vars

-----------------------------------------------------------------------------
(* Properties.                                                             *)

\* Type invariant.  Only stored rows carry a chain id, and only filed rows are
\* stored; a poster in the middle of a row has a scope to work on.
TypeOK ==
  /\ filed \in 0..N
  /\ pslr \subseteq 1..filed
  /\ linked \subseteq pslr
  /\ journalled \subseteq Rows
  /\ bal \in [Accounts -> [Mints -> Int \cup {NoRow}]]
  /\ posting \in [EventIds -> [Mints -> [entries : Nat, total : Int]]]
  /\ poster \in [Posters -> PosterType]
  /\ \A p \in Posters :
       /\ ~At(p, "idle") => poster[p].todo # {}
       /\ poster[p].pc \in {"check", "read", "apply", "write"} => poster[p].scope # "none"
       /\ Booking(p) =>
            poster[p].left # {} /\ poster[p].left \subseteq DOMAIN poster[p].batch
  /\ settled \subseteq EventIds
  /\ tainted \in BOOLEAN
  /\ overwritten \subseteq Accounts \X Mints
  /\ contended \subseteq EventIds
  /\ undercut \subseteq Posters
  /\ passes \in 0..MaxPasses /\ faults \in 0..MaxFaults

\* What an event id contributes to an account, and all the ids of a row together.
Share(a, m, e) == IF AccountOf(e) = a THEN posting[e][m].total ELSE 0

RowTotal(a, m, r) ==
  Share(a, m, <<"lifecycle", r>>) + Share(a, m, <<"tx_fee", r>>)
    + Share(a, m, <<"chain_lifecycle", r>>) + Share(a, m, <<"journal", r>>)

\* Any number of passes write the cached amount_raw and the audit table, cut off
\* by errors and restarts at any statement: a balance is the total of its posting
\* entries unless its very first insert ran into another one.  FOR UPDATE keeps
\* every later write from being lost; it has nothing to lock before the row is
\* there (apply_balance_delta).
BalanceIsSumOfPostings ==
  \A a \in Accounts, m \in Mints : <<a, m>> \notin overwritten =>
    Amount(bal[a][m]) = SumTo([r \in Rows |-> RowTotal(a, m, r)], N)

\* However often a row is ingested, replayed by a backfill or retried after an
\* error, by any number of passes: a delta is booked twice under its event id
\* only if two of them were between the check and the last delta of the event at
\* the same time (session_lifecycle_posting_already_applied asks outside the
\* transactions that book).
PostedAtMostOnce ==
  \A e \in EventIds \ contended, m \in Mints :
    posting[e][m].entries <=
      Cardinality({i \in DOMAIN PostingsOf(e) : PostingsOf(e)[i].mint = m})

\* The ledger books no lifecycle row that the reconciliation cannot see: a
\* posted row is a stored PSLR row (ingest_lifecycle_rows_best_effort stores
\* before it posts, and gives up the pass when it cannot store).
PostedIsStored ==
  \A e \in EventIds, m \in Mints :
    e[1] # "journal" /\ posting[e][m].entries > 0 => e[2] \in pslr

\* The balance that caps the debits of an open is read outside the transactions
\* that book them.  The debit takes the account below zero only if another poster
\* has taken something from it in between; until then the passes may overlap in
\* any way ("so SESSION/CHAIN logical balance never goes negative",
\* cap_open_debits_against_running_balance).
OpenNeverOverdraws ==
  [][\A p \in Posters \ undercut :
       WriteBalance(p) /\ Row(poster[p]) \in Opens /\ NextDelta(p).delta < 0
         /\ poster[p].scope \in {"lifecycle", "chain_lifecycle"}
       => bal'[AccountOf(Event(p))][NextDelta(p).mint] >= 0]_vars

\* The plain sum of the deltas of an account's rows in the file.
Inventory(a, m) ==
  SumTo([r \in Rows |-> IF r \in InAccount(a, 1..filed) THEN TotalOf(Deltas[r], m) ELSE 0], N)

\* Once the passes have caught up with the file, and no fault, capped debit,
\* journal posting or overlap of passes has disturbed them, the spend caps of a session and of the
\* chain are exactly its inventory, the plain sum of its deltas, with and
\* without the reconcile gate (resolve_session_mint_caps).
CapsAreInventory ==
  (/\ \A p \in Posters : At(p, "idle")
   /\ pslr = 1..filed
   /\ ~tainted)
  => \A a \in Sessions \cup {CHAIN}, gate \in BOOLEAN :
       ResolveMintCaps(gate, a) =
         [m \in Mints |-> Positive(Inventory(a, m))]

\* "Apply SESSION GL postings from one lifecycle JSON object (idempotent on
\* `event_id`)": an event whose posting has returned Ok is not booked again.
IdempotentOnEventId ==
  [][\A e \in settled : posting'[e] = posting[e]]_vars
=============================================================================
