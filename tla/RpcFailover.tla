----------------------------- MODULE RpcFailover -----------------------------
(***************************************************************************)
(* The RPC provider: concurrent requests share one current endpoint and    *)
(* one health table.  A read (and a send without confirmation) goes        *)
(* through execute_with_retry, which blames its endpoint for a failure and *)
(* rotates; send_and_confirm_transaction stays on one endpoint until the   *)
(* send fails for good or the confirmation times out, and then rotates.    *)
(*                                                                         *)
(* One step lies between two points where another request can run: a lock  *)
(* given back, or the answer of an endpoint.  Endpoints are numbered in    *)
(* the order of all_endpoints.  An endpoint is described by the answers it *)
(* may give; which of them it gives is free.  Waiting changes no state, so *)
(* the delays between retries and the polls that see no status are no      *)
(* steps.                                                                  *)
(***************************************************************************)
EXTENDS Integers, FiniteSets

CONSTANTS
  Requests,     \* the tasks that use the provider
  Kind,         \* the call each of them makes, again and again: "read" or "send"
  NoOne,        \* nobody holds the write lock of current_endpoint_idx
  N,            \* number of endpoints
  MaxRetries,   \* RpcConfig.max_retries
  MaxFailures,  \* the consecutive failures that make an endpoint unhealthy
  Commitment,   \* RpcConfig.commitment; "confirmed" stands for finalized too
  Answers       \* what each endpoint may answer

Endpoints == 1..N
AnswerKinds == {"ok", "error", "blocked", "missing"}

ASSUME EndpointAssumption ==
  /\ N \in Nat \ {0}
  /\ Answers \in [Endpoints -> (SUBSET AnswerKinds) \ {{}}]

ASSUME RequestAssumption ==
  /\ NoOne \notin Requests
  /\ Kind \in [Requests -> {"read", "send"}]
  /\ MaxRetries \in Nat
  /\ MaxFailures \in Nat \ {0}
  /\ Commitment \in {"processed", "confirmed"}

VARIABLES
  idx,       \* current_endpoint_idx
  holder,    \* who holds its write lock
  fails,     \* consecutive_failures of each endpoint, up to MaxFailures
  rested,    \* endpoints whose last failure is older than recovery_timeout
  disabled,  \* disabled_endpoints
  req,       \* what each request is doing
  tx,        \* the transaction of a call under way, on chain
  result,    \* how its last call ended
  mixed,     \* a request has talked to another endpoint than it will blame
  disturbed  \* the reads during which another request has moved idx

health == <<fails, rested, disabled>>
vars   == <<idx, holder, health, req, tx, result, mixed, disturbed>>

Places == {"idle", "pick", "client", "call", "rotate", "scan", "send", "confirm"}
Results == {"none", "ok", "missing", "rejected", "failed"}

\* A transaction is executed on a fork, well ("processed") or with an error
\* ("faulty").  While the fork may still be dropped the transaction can become
\* pending again; "landed" is an execution without error that is final.  One that
\* expires stays pending.
TxStates == {"unsent", "pending", "processed", "faulty", "landed"}

Request == [pc : Places, endpoint : Endpoints, client : Endpoints,
            tries : 0..MaxRetries, round : 0..(N - 1), scan : 1..(N + 1)]

TypeOK ==
  /\ idx \in Endpoints
  /\ holder \in Requests \cup {NoOne}
  /\ fails \in [Endpoints -> 0..MaxFailures]
  /\ rested \subseteq Endpoints
  /\ disabled \subseteq Endpoints
  /\ req \in [Requests -> Request]
  /\ tx \in [Requests -> TxStates]
  /\ result \in [Requests -> Results]
  /\ mixed \in BOOLEAN
  /\ disturbed \subseteq Requests

At(r, pc) == req[r].pc = pc
Reads(r) == Kind[r] = "read"
Answer(r) == Answers[req[r].client]

\* A request between two attempts: the locals of an attempt end with it.
Between(q, pc) == [q EXCEPT !.pc = pc, !.endpoint = 1, !.client = 1, !.scan = 1]

Idle == [pc |-> "idle", endpoint |-> 1, client |-> 1,
         tries |-> 0, round |-> 0, scan |-> 1]

\* What becomes of its transaction after a call has returned is nothing the provider
\* sees.
Return(r, how) ==
  /\ req' = [req EXCEPT ![r] = Idle]
  /\ result' = [result EXCEPT ![r] = how]
  /\ tx' = [tx EXCEPT ![r] = "unsent"]

Init ==
  /\ idx = 1
  /\ holder = NoOne
  /\ fails = [e \in Endpoints |-> 0]
  /\ rested = {}
  /\ disabled = {}
  /\ req = [r \in Requests |-> Idle]
  /\ tx = [r \in Requests |-> "unsent"]
  /\ result = [r \in Requests |-> "none"]
  /\ mixed = FALSE
  /\ disturbed = {}

-----------------------------------------------------------------------------
(* The health table.                                                       *)

RecordSuccess(e) ==
  /\ fails' = IF e \in disabled THEN fails ELSE [fails EXCEPT ![e] = 0]
  /\ UNCHANGED <<rested, disabled>>

RecordFailure(e) ==
  /\ fails' = IF e \in disabled \/ fails[e] = MaxFailures THEN fails
              ELSE [fails EXCEPT ![e] = @ + 1]
  /\ rested' = IF e \in disabled THEN rested ELSE rested \ {e}
  /\ UNCHANGED disabled

DisableEndpoint(e) ==
  /\ disabled' = disabled \cup {e}
  /\ UNCHANGED <<fails, rested>>

IsHealthy(e) ==
  /\ e \notin disabled
  /\ fails[e] < MaxFailures \/ e \in rested

-----------------------------------------------------------------------------
(* A request begins and reads the current endpoint.                        *)

Begin(r) ==
  /\ At(r, "idle")
  /\ req' = [req EXCEPT ![r] = [Idle EXCEPT !.pc = "pick"]]
  /\ result' = [result EXCEPT ![r] = "none"]
  /\ disturbed' = disturbed \ {r}
  /\ UNCHANGED <<idx, holder, health, tx, mixed>>

PickEndpoint(r) ==
  /\ At(r, "pick")
  /\ holder = NoOne
  /\ req' = [req EXCEPT ![r] =
        IF Reads(r) THEN [@ EXCEPT !.pc = "client", !.endpoint = idx]
        ELSE [@ EXCEPT !.pc = "send", !.endpoint = idx, !.client = idx]]
  /\ UNCHANGED <<idx, holder, health, tx, result, mixed, disturbed>>

\* get_client reads the index a second time.
PickClient(r) ==
  /\ At(r, "client")
  /\ holder = NoOne
  /\ req' = [req EXCEPT ![r].pc = "call", ![r].client = idx]
  /\ mixed' = (mixed \/ idx # req[r].endpoint)
  /\ UNCHANGED <<idx, holder, health, tx, result, disturbed>>

-----------------------------------------------------------------------------
(* execute_with_retry: what an answer does.                                *)

CallOk(r) ==
  /\ At(r, "call")
  /\ "ok" \in Answer(r)
  /\ RecordSuccess(req[r].endpoint)
  /\ Return(r, "ok")
  /\ UNCHANGED <<idx, holder, mixed, disturbed>>

\* The account does not exist: no other endpoint would say otherwise.
CallMissing(r) ==
  /\ At(r, "call")
  /\ "missing" \in Answer(r)
  /\ Return(r, "missing")
  /\ UNCHANGED <<idx, holder, health, mixed, disturbed>>

CallBlocked(r) ==
  /\ At(r, "call")
  /\ "blocked" \in Answer(r)
  /\ DisableEndpoint(req[r].endpoint)
  /\ req' = [req EXCEPT ![r] = Between(@, "rotate")]
  /\ UNCHANGED <<idx, holder, tx, result, mixed, disturbed>>

CallError(r) ==
  /\ At(r, "call")
  /\ "error" \in Answer(r)
  /\ RecordFailure(req[r].endpoint)
  /\ req' = [req EXCEPT ![r] = Between(@, "rotate")]
  /\ UNCHANGED <<idx, holder, tx, result, mixed, disturbed>>

-----------------------------------------------------------------------------
(* rotate_endpoint: the write lock is held while the health of one         *)
(* endpoint after the other is read.                                       *)

\* Wrong: the scan begins with the endpoint that has just failed.
AheadFromSelf(i) == IF idx + i - 1 <= N THEN idx + i - 1 ELSE idx + i - 1 - N

\* The index is taken modulo the number of endpoints; i goes up to N.
Ahead(i) == IF idx + i <= N THEN idx + i ELSE idx + i - N

RotateLock(r) ==
  /\ At(r, "rotate")
  /\ holder = NoOne
  /\ holder' = r
  /\ req' = [req EXCEPT ![r].pc = "scan", ![r].scan = 1]
  /\ UNCHANGED <<idx, health, tx, result, mixed, disturbed>>

\* Wrong: a send goes on to the next endpoint as long as there is one.
NextAttemptForever(r) ==
  IF Reads(r) /\ req[r].tries = MaxRetries THEN Return(r, "failed")
  ELSE /\ req' = [req EXCEPT ![r] =
             [Between(@, "pick") EXCEPT !.tries = IF Reads(r) THEN req[r].tries + 1 ELSE 0]]
       /\ UNCHANGED <<tx, result>>

\* Wrong: one attempt more than there are retries.
NextAttemptOneMore(r) ==
  IF Reads(r) /\ req[r].tries > MaxRetries THEN Return(r, "failed")
  ELSE /\ req' = [req EXCEPT ![r] = [Between(@, "pick") EXCEPT !.tries = req[r].tries + 1]]
       /\ UNCHANGED <<tx, result>>

\* What the caller does after the rotation.
NextAttempt(r) ==
  LET q == req[r] IN
  CASE Reads(r) /\ q.tries < MaxRetries ->
         /\ req' = [req EXCEPT ![r] = [Between(@, "pick") EXCEPT !.tries = q.tries + 1]]
         /\ UNCHANGED <<tx, result>>
    [] ~Reads(r) /\ q.round < N - 1 ->
         /\ req' = [req EXCEPT ![r] = [Between(@, "pick") EXCEPT !.round = q.round + 1]]
         /\ UNCHANGED <<tx, result>>
    [] OTHER -> Return(r, "failed")

MoveTo(r, e) ==
  /\ idx' = e
  /\ holder' = NoOne
  /\ NextAttempt(r)
  /\ disturbed' = disturbed \cup {q \in Requests \ {r} : Reads(q) /\ ~At(q, "idle")}
  /\ UNCHANGED <<health, mixed>>

ScanPick(r) ==
  /\ At(r, "scan")
  /\ req[r].scan <= N
  /\ IsHealthy(Ahead(req[r].scan))
  /\ MoveTo(r, Ahead(req[r].scan))

ScanSkip(r) ==
  /\ At(r, "scan")
  /\ req[r].scan <= N
  /\ ~IsHealthy(Ahead(req[r].scan))
  /\ req' = [req EXCEPT ![r].scan = @ + 1]
  /\ UNCHANGED <<idx, holder, health, tx, result, mixed, disturbed>>

\* No endpoint is healthy: rotate anyway.
ScanExhausted(r) ==
  /\ At(r, "scan")
  /\ req[r].scan = N + 1
  /\ MoveTo(r, Ahead(1))

-----------------------------------------------------------------------------
(* send_and_confirm_transaction.                                           *)

Deliver(r) == IF tx[r] = "unsent" THEN [tx EXCEPT ![r] = "pending"] ELSE tx

SendOk(r) ==
  /\ At(r, "send")
  /\ "ok" \in Answer(r)
  /\ tx' = Deliver(r)
  /\ req' = [req EXCEPT ![r].pc = "confirm", ![r].tries = 0]
  /\ UNCHANGED <<idx, holder, health, result, mixed, disturbed>>

\* Any endpoint may refuse a transaction, whose blockhash it need not know and which
\* may have been executed or have expired, and a send may fail although the
\* cluster has taken the transaction.
SendError(r) ==
  /\ At(r, "send")
  /\ tx' \in {tx, Deliver(r)}
  /\ req' = [req EXCEPT ![r] =
        IF req[r].tries < MaxRetries THEN [@ EXCEPT !.tries = req[r].tries + 1]
        ELSE [Between(@, "rotate") EXCEPT !.tries = 0]]
  /\ UNCHANGED <<idx, holder, health, result, mixed, disturbed>>

Fates(state) ==
  CASE state = "pending"   -> {"processed", "faulty"}
    [] state = "processed" -> {"landed", "pending"}
    [] state = "faulty"    -> {"pending"}
    [] OTHER               -> {}

\* The cluster executes a transaction or changes its mind about it.
Resolve(r) ==
  /\ \E fate \in Fates(tx[r]) : tx' = [tx EXCEPT ![r] = fate]
  /\ UNCHANGED <<idx, holder, health, req, result, mixed, disturbed>>

\* A status without error counts at the commitment that is configured.
Committed(state) ==
  state = "landed" \/ (state = "processed" /\ Commitment = "processed")

ConfirmOk(r) ==
  /\ At(r, "confirm")
  /\ "ok" \in Answer(r)
  /\ Committed(tx[r])
  /\ Return(r, "ok")
  /\ UNCHANGED <<idx, holder, health, mixed, disturbed>>

\* A status with an error ends the call at any commitment.
ConfirmRejected(r) ==
  /\ At(r, "confirm")
  /\ "ok" \in Answer(r)
  /\ tx[r] = "faulty"
  /\ Return(r, "rejected")
  /\ UNCHANGED <<idx, holder, health, mixed, disturbed>>

\* A status query that fails ends the call at once, without a rotation.
ConfirmError(r) ==
  /\ At(r, "confirm")
  /\ Answer(r) # {"ok"}
  /\ Return(r, "failed")
  /\ UNCHANGED <<idx, holder, health, mixed, disturbed>>

ConfirmDeadline(r) ==
  /\ At(r, "confirm")
  /\ req' = [req EXCEPT ![r] = Between(@, "rotate")]
  /\ UNCHANGED <<idx, holder, health, tx, result, mixed, disturbed>>

-----------------------------------------------------------------------------
\* An endpoint has been left alone for recovery_timeout.
Rest(e) ==
  /\ fails[e] = MaxFailures
  /\ e \notin rested
  /\ rested' = rested \cup {e}
  /\ UNCHANGED <<idx, holder, fails, disabled, req, tx, result, mixed, disturbed>>

Locking(r) == PickEndpoint(r) \/ PickClient(r) \/ RotateLock(r)

Step(r) ==
  \/ Locking(r)
  \/ CallOk(r) \/ CallMissing(r) \/ CallBlocked(r) \/ CallError(r)
  \/ ScanPick(r) \/ ScanSkip(r) \/ ScanExhausted(r)
  \/ SendOk(r) \/ SendError(r)
  \/ ConfirmOk(r) \/ ConfirmRejected(r) \/ ConfirmError(r) \/ ConfirmDeadline(r)

Next ==
  \/ \E r \in Requests : Begin(r) \/ Step(r) \/ Resolve(r)
  \/ \E e \in Endpoints : Rest(e)

\* tokio schedules every ready task, its RwLock serves waiters in their order,
\* calls have a timeout and a confirmation has a deadline; nobody has to begin a
\* request, and the cluster promises nothing.
Fairness == \A r \in Requests : WF_vars(Step(r)) /\ SF_vars(Locking(r))

Spec == Init /\ [][Next]_vars /\ Fairness

-----------------------------------------------------------------------------
Good(e) == Answers[e] = {"ok"}

\* Failover works: with an endpoint that always answers and enough retries to
\* try every endpoint once, a read that nobody else rotates under gets its
\* answer, wherever earlier requests have left the index and the health table.
GoodEndpointServes ==
  (\E e \in Endpoints : Good(e)) /\ N <= MaxRetries + 1 /\ ~mixed =>
    \A r \in Requests \ disturbed : ~(Reads(r) /\ result[r] = "failed")

\* Every request comes to an end, however the others move the index and hold
\* its lock: retries and endpoints are bounded, and no lock is kept.
RequestEnds == \A r \in Requests : ~At(r, "idle") ~> At(r, "idle")
=============================================================================
