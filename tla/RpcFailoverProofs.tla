-------------------------- MODULE RpcFailoverProofs --------------------------
(***************************************************************************)
(* Proofs about RpcFailover, for any number of endpoints and requests, any *)
(* limits and any answers.                                                 *)
(***************************************************************************)
EXTENDS RpcFailover, TLAPS

-----------------------------------------------------------------------------
(* The inductive invariant.                                                *)

\* Reads and sends keep to their own places.
Placed ==
  \A r \in Requests :
    /\ req[r].pc \in {"client", "call"} => Reads(r)
    /\ req[r].pc \in {"send", "confirm"} => ~Reads(r)

\* While blame falls on the endpoint that was asked, an endpoint that always
\* answers has a clean record.
Spotless ==
  ~mixed =>
    /\ \A e \in Endpoints : Good(e) => e \notin disabled /\ fails[e] = 0
    /\ \A r \in Requests : At(r, "call") => req[r].endpoint = req[r].client

\* There is a good endpoint between the given distances from the current one.
GoodAhead(from, to) == \E d \in Nat : from <= d /\ d <= to /\ d < N /\ Good(Ahead(d))

\* A good endpoint is no further ahead than the retries that are left, and a
\* scan has not passed it.
OnTrack(r) ==
  LET left == MaxRetries - req[r].tries IN
  /\ result[r] # "failed"
  /\ req[r].pc \in {"pick", "client", "call"} => GoodAhead(0, left)
  /\ At(r, "client") => req[r].endpoint = idx
  /\ At(r, "call") => req[r].client = idx
  /\ At(r, "rotate") => GoodAhead(1, left)
  /\ At(r, "scan") => GoodAhead(req[r].scan, left)

\* There is a good endpoint, and a retry for every other one.
Servable == (\E e \in Endpoints : Good(e)) /\ N <= MaxRetries + 1

\* Every undisturbed read is on track.
AllOnTrack ==
  Servable /\ ~mixed => \A r \in Requests \ disturbed : Reads(r) => OnTrack(r)

\* The inductive invariant.
RpcInv == TypeOK /\ Placed /\ Spotless /\ AllOnTrack

-----------------------------------------------------------------------------
(* Helpers.                                                                *)

\* The index stays within the list.
LEMMA AheadInRange ==
  ASSUME idx \in Endpoints, NEW i \in 0..N
  PROVE  Ahead(i) \in Endpoints
BY EndpointAssumption DEF Ahead, Endpoints

\* A request between two attempts has its counters and no other locals.
LEMMA BetweenTyped ==
  ASSUME NEW q \in Request, NEW pc \in Places
  PROVE  /\ Between(q, pc) \in Request
         /\ Between(q, pc).pc = pc
         /\ Between(q, pc).tries = q.tries
         /\ Between(q, pc).round = q.round
         /\ Between(q, pc).scan = 1
<1> 1 \in Endpoints /\ 1 \in 1..(N + 1)  BY EndpointAssumption DEF Endpoints
<1> QED BY DEF Between, Request

\* An idle request and one that begins are well typed.
LEMMA IdleTyped ==
  /\ Idle \in Request
  /\ [Idle EXCEPT !.pc = "pick"] \in Request
BY EndpointAssumption, RequestAssumption DEF Idle, Request, Places, Endpoints

\* A return leaves the request idle and records how it ended.
LEMMA ReturnTyped ==
  ASSUME TypeOK, NEW r \in Requests, NEW how \in Results, Return(r, how)
  PROVE  /\ req' \in [Requests -> Request] /\ result' \in [Requests -> Results]
         /\ tx' \in [Requests -> TxStates]
BY IdleTyped DEF Return, TypeOK, TxStates

\* The two ways on after a rotation, as one assignment each.
LEMMA NextAttemptCases ==
  ASSUME TypeOK, NEW r \in Requests, NextAttempt(r)
  PROVE  \/ /\ Reads(r) /\ req[r].tries < MaxRetries
            /\ req' = [req EXCEPT ![r] =
                  [Between(req[r], "pick") EXCEPT !.tries = req[r].tries + 1]]
            /\ result' = result /\ tx' = tx
         \/ /\ ~Reads(r) /\ req[r].round < N - 1
            /\ req' = [req EXCEPT ![r] =
                  [Between(req[r], "pick") EXCEPT !.round = req[r].round + 1]]
            /\ result' = result /\ tx' = tx
         \/ /\ Reads(r) => ~(req[r].tries < MaxRetries)
            /\ req' = [req EXCEPT ![r] = Idle]
            /\ result' = [result EXCEPT ![r] = "failed"]
            /\ tx' = [tx EXCEPT ![r] = "unsent"]
BY DEF NextAttempt, Return

\* What the caller does after a rotation keeps the types.
LEMMA NextAttemptTyped ==
  ASSUME TypeOK, NEW r \in Requests, NextAttempt(r)
  PROVE  /\ req' \in [Requests -> Request] /\ result' \in [Requests -> Results]
         /\ tx' \in [Requests -> TxStates]
<1> USE EndpointAssumption, RequestAssumption
<1>1. /\ req[r] \in Request
      /\ "pick" \in Places
      /\ req[r].tries \in 0..MaxRetries
      /\ req[r].round \in 0..(N - 1)
  BY DEF TypeOK, Request, Places
<1> DEFINE q == Between(req[r], "pick")
<1>2. q \in Request  BY <1>1, BetweenTyped
<1> HIDE DEF q
<1>3. ASSUME Reads(r), req[r].tries < MaxRetries,
             req' = [req EXCEPT ![r] = [q EXCEPT !.tries = req[r].tries + 1]],
             result' = result, tx' = tx
      PROVE  /\ req' \in [Requests -> Request] /\ result' \in [Requests -> Results]
             /\ tx' \in [Requests -> TxStates]
  <2>1. [q EXCEPT !.tries = req[r].tries + 1] \in Request
    BY <1>1, <1>2, <1>3 DEF Request
  <2> QED BY <1>3, <2>1 DEF TypeOK
<1>4. ASSUME ~Reads(r), req[r].round < N - 1,
             req' = [req EXCEPT ![r] = [q EXCEPT !.round = req[r].round + 1]],
             result' = result, tx' = tx
      PROVE  /\ req' \in [Requests -> Request] /\ result' \in [Requests -> Results]
             /\ tx' \in [Requests -> TxStates]
  <2>1. [q EXCEPT !.round = req[r].round + 1] \in Request
    BY <1>1, <1>2, <1>4 DEF Request
  <2> QED BY <1>4, <2>1 DEF TypeOK
<1>5. ASSUME req' = [req EXCEPT ![r] = Idle],
             result' = [result EXCEPT ![r] = "failed"],
             tx' = [tx EXCEPT ![r] = "unsent"]
      PROVE  /\ req' \in [Requests -> Request] /\ result' \in [Requests -> Results]
             /\ tx' \in [Requests -> TxStates]
  BY <1>5 DEF TypeOK, Idle, Request, Results, Places, Endpoints, TxStates
<1>6. QED BY <1>3, <1>4, <1>5, NextAttemptCases DEF q

-----------------------------------------------------------------------------
(* Type correctness.                                                       *)

\* One step keeps every variable in its set.
LEMMA TypeStep == TypeOK /\ [Next]_vars => TypeOK'
<1> SUFFICES ASSUME TypeOK, [Next]_vars PROVE TypeOK'  OBVIOUS
<1> USE EndpointAssumption, RequestAssumption
<1>1. ASSUME NEW r \in Requests, Begin(r) PROVE TypeOK'
  BY <1>1, IdleTyped DEF Begin, TypeOK, Results, TxStates, health
<1>2. ASSUME NEW r \in Requests, PickEndpoint(r) PROVE TypeOK'
  <2>1. req[r] \in Request /\ idx \in Endpoints  BY DEF TypeOK
  <2>2. /\ [req[r] EXCEPT !.pc = "client", !.endpoint = idx] \in Request
        /\ [req[r] EXCEPT !.pc = "send", !.endpoint = idx, !.client = idx] \in Request
    BY <2>1 DEF Request, Places
  <2>3. req' \in [Requests -> Request]  BY <1>2, <2>2 DEF PickEndpoint, TypeOK
  <2> QED BY <1>2, <2>3 DEF PickEndpoint, TypeOK, health
<1>3. ASSUME NEW r \in Requests, PickClient(r) PROVE TypeOK'
  <2>1. req[r] \in Request /\ idx \in Endpoints  BY DEF TypeOK
  <2>2. [req[r] EXCEPT !.pc = "call", !.client = idx] \in Request
    BY <2>1 DEF Request, Places
  <2>3. req' = [req EXCEPT ![r] = [req[r] EXCEPT !.pc = "call", !.client = idx]]
    BY <1>3 DEF PickClient, TypeOK
  <2>4. req' \in [Requests -> Request]  BY <2>2, <2>3 DEF TypeOK
  <2> QED BY <1>3, <2>4 DEF PickClient, TypeOK, health
<1>4. ASSUME NEW r \in Requests, CallOk(r) PROVE TypeOK'
  <2>1. req[r] \in Request /\ req[r].endpoint \in Endpoints  BY DEF TypeOK, Request
  <2>2. fails' \in [Endpoints -> 0..MaxFailures]
    BY <1>4, <2>1 DEF CallOk, RecordSuccess, TypeOK
  <2>3. /\ req' \in [Requests -> Request] /\ result' \in [Requests -> Results]
        /\ tx' \in [Requests -> TxStates]
    BY <1>4, ReturnTyped DEF CallOk, Results
  <2> QED BY <1>4, <2>2, <2>3 DEF CallOk, RecordSuccess, TypeOK
<1>5. ASSUME NEW r \in Requests, CallMissing(r) PROVE TypeOK'
  <2>1. /\ req' \in [Requests -> Request] /\ result' \in [Requests -> Results]
        /\ tx' \in [Requests -> TxStates]
    BY <1>5, ReturnTyped DEF CallMissing, Results
  <2> QED BY <1>5, <2>1 DEF CallMissing, TypeOK, health
<1>6. ASSUME NEW r \in Requests, CallBlocked(r) PROVE TypeOK'
  <2>1. req[r] \in Request /\ req[r].endpoint \in Endpoints  BY DEF TypeOK, Request
  <2>2. req' \in [Requests -> Request]
    BY <1>6, <2>1, BetweenTyped DEF CallBlocked, TypeOK, Places
  <2> QED BY <1>6, <2>1, <2>2 DEF CallBlocked, DisableEndpoint, TypeOK
<1>7. ASSUME NEW r \in Requests, CallError(r) PROVE TypeOK'
  <2>1. req[r] \in Request /\ req[r].endpoint \in Endpoints  BY DEF TypeOK, Request
  <2>2. req' \in [Requests -> Request]
    BY <1>7, <2>1, BetweenTyped DEF CallError, TypeOK, Places
  <2>3. fails' \in [Endpoints -> 0..MaxFailures]
    <3>1. CASE req[r].endpoint \in disabled \/ fails[req[r].endpoint] = MaxFailures
      BY <1>7, <3>1 DEF CallError, RecordFailure, TypeOK
    <3>2. CASE ~(req[r].endpoint \in disabled \/ fails[req[r].endpoint] = MaxFailures)
      <4>1. fails[req[r].endpoint] + 1 \in 0..MaxFailures  BY <2>1, <3>2 DEF TypeOK
      <4>2. fails' = [fails EXCEPT ![req[r].endpoint] = fails[req[r].endpoint] + 1]
        BY <1>7, <3>2 DEF CallError, RecordFailure
      <4> QED BY <4>1, <4>2 DEF TypeOK
    <3> QED BY <3>1, <3>2
  <2> QED BY <1>7, <2>2, <2>3 DEF CallError, RecordFailure, TypeOK
<1>8. ASSUME NEW r \in Requests, RotateLock(r) PROVE TypeOK'
  <2>1. req[r] \in Request /\ 1 \in 1..(N + 1)  BY DEF TypeOK
  <2>2. [req[r] EXCEPT !.pc = "scan", !.scan = 1] \in Request
    BY <2>1 DEF Request, Places
  <2>3. req' = [req EXCEPT ![r] = [req[r] EXCEPT !.pc = "scan", !.scan = 1]]
    BY <1>8 DEF RotateLock, TypeOK
  <2>4. req' \in [Requests -> Request]  BY <2>2, <2>3 DEF TypeOK
  <2> QED BY <1>8, <2>4 DEF RotateLock, TypeOK, health
<1>9. ASSUME NEW r \in Requests, NEW i \in 0..N, MoveTo(r, Ahead(i)) PROVE TypeOK'
  <2>1. Ahead(i) \in Endpoints  BY AheadInRange DEF TypeOK
  <2>2. /\ req' \in [Requests -> Request] /\ result' \in [Requests -> Results]
        /\ tx' \in [Requests -> TxStates]
    BY <1>9, NextAttemptTyped DEF MoveTo
  <2> QED BY <1>9, <2>1, <2>2 DEF MoveTo, TypeOK, health
<1>10. ASSUME NEW r \in Requests, ScanPick(r) PROVE TypeOK'
  <2>1. req[r].scan \in 0..N  BY <1>10 DEF ScanPick, TypeOK, Request
  <2> QED BY <1>9, <1>10, <2>1 DEF ScanPick
<1>11. ASSUME NEW r \in Requests, ScanSkip(r) PROVE TypeOK'
  <2>1. req[r] \in Request /\ req[r].scan + 1 \in 1..(N + 1)
    BY <1>11 DEF ScanSkip, TypeOK, Request
  <2> QED BY <1>11, <2>1 DEF ScanSkip, TypeOK, Request, health
<1>12. ASSUME NEW r \in Requests, ScanExhausted(r) PROVE TypeOK'
  BY <1>9, <1>12 DEF ScanExhausted
<1>13. ASSUME NEW r \in Requests, SendOk(r) PROVE TypeOK'
  <2>0. req[r] \in Request /\ 0 \in 0..MaxRetries  BY DEF TypeOK
  <2>1. [req[r] EXCEPT !.pc = "confirm", !.tries = 0] \in Request
    BY <2>0 DEF Request, Places
  <2>2. req' = [req EXCEPT ![r] = [req[r] EXCEPT !.pc = "confirm", !.tries = 0]]
    BY <1>13 DEF SendOk, TypeOK
  <2>3. tx' \in [Requests -> TxStates]
    BY <1>13 DEF SendOk, Deliver, TypeOK, TxStates
  <2>4. req' \in [Requests -> Request]  BY <2>1, <2>2 DEF TypeOK
  <2> QED BY <1>13, <2>3, <2>4 DEF SendOk, TypeOK, health
<1>14. ASSUME NEW r \in Requests, SendError(r) PROVE TypeOK'
  <2>1. req[r] \in Request  BY DEF TypeOK
  <2>2. req' \in [Requests -> Request]
    <3>1. CASE req[r].tries < MaxRetries
      <4>1. req[r].tries + 1 \in 0..MaxRetries  BY <2>1, <3>1 DEF Request
      <4>2. req' = [req EXCEPT ![r] = [req[r] EXCEPT !.tries = req[r].tries + 1]]
        BY <1>14, <3>1 DEF SendError
      <4>3. [req[r] EXCEPT !.tries = req[r].tries + 1] \in Request
        BY <2>1, <4>1 DEF Request
      <4> QED BY <4>2, <4>3 DEF TypeOK
    <3>2. CASE ~(req[r].tries < MaxRetries)
      <4>1. Between(req[r], "rotate") \in Request  BY <2>1, BetweenTyped DEF Places
      <4>2. [Between(req[r], "rotate") EXCEPT !.tries = 0] \in Request
        BY <4>1 DEF Request
      <4>3. req' = [req EXCEPT ![r] = [Between(req[r], "rotate") EXCEPT !.tries = 0]]
        BY <1>14, <3>2 DEF SendError
      <4> QED BY <4>2, <4>3 DEF TypeOK
    <3> QED BY <3>1, <3>2
  <2>3. tx' \in [Requests -> TxStates]
    BY <1>14 DEF SendError, Deliver, TypeOK, TxStates
  <2> QED BY <1>14, <2>2, <2>3 DEF SendError, TypeOK, health
<1>15. ASSUME NEW r \in Requests, Resolve(r) PROVE TypeOK'
  BY <1>15 DEF Resolve, Fates, TypeOK, TxStates, health
<1>16. ASSUME NEW r \in Requests, ConfirmOk(r) \/ ConfirmRejected(r) \/ ConfirmError(r)
       PROVE  TypeOK'
  <2>1. /\ req' \in [Requests -> Request] /\ result' \in [Requests -> Results]
        /\ tx' \in [Requests -> TxStates]
    BY <1>16, ReturnTyped DEF ConfirmOk, ConfirmRejected, ConfirmError, Results
  <2> QED BY <1>16, <2>1 DEF ConfirmOk, ConfirmRejected, ConfirmError, TypeOK, health
<1>17. ASSUME NEW r \in Requests, ConfirmDeadline(r) PROVE TypeOK'
  <2>1. req[r] \in Request  BY DEF TypeOK
  <2>2. req' \in [Requests -> Request]
    BY <1>17, <2>1, BetweenTyped DEF ConfirmDeadline, TypeOK, Places
  <2> QED BY <1>17, <2>2 DEF ConfirmDeadline, TypeOK, health
<1>18. ASSUME NEW e \in Endpoints, Rest(e) PROVE TypeOK'
  BY <1>18 DEF Rest, TypeOK
<1>19. CASE UNCHANGED vars
  BY <1>19 DEF vars, TypeOK, health
<1>20. QED
  BY <1>1, <1>2, <1>3, <1>4, <1>5, <1>6, <1>7, <1>8, <1>10, <1>11, <1>12, <1>13, <1>14,
     <1>15, <1>16, <1>17, <1>18, <1>19 DEF Next, Step, Locking

-----------------------------------------------------------------------------
(* What a step does to the places of requests.                             *)

\* A step of one request leaves the others where they are.
LEMMA OthersStay ==
  ASSUME TypeOK, NEW r \in Requests, Begin(r) \/ Step(r), NEW x \in Requests \ {r}
  PROVE  req'[x] = req[x] /\ result'[x] = result[x] /\ tx'[x] = tx[x]
<1> USE DEF TypeOK
<1>1. CASE Begin(r)  BY <1>1 DEF Begin
<1>2. CASE Locking(r)
  BY <1>2 DEF Locking, PickEndpoint, PickClient, RotateLock
<1>3. CASE CallOk(r) \/ CallMissing(r) \/ CallBlocked(r) \/ CallError(r)
  BY <1>3 DEF CallOk, CallMissing, CallBlocked, CallError, Return
<1>4. ASSUME NEW e, MoveTo(r, e)
      PROVE  req'[x] = req[x] /\ result'[x] = result[x] /\ tx'[x] = tx[x]
  <2>1. NextAttempt(r)  BY <1>4 DEF MoveTo
  <2> QED BY <2>1, NextAttemptCases
<1>5. CASE ScanPick(r) \/ ScanExhausted(r)
  BY <1>4, <1>5 DEF ScanPick, ScanExhausted
<1>6. CASE ScanSkip(r)  BY <1>6 DEF ScanSkip
<1>7. CASE SendOk(r)  BY <1>7 DEF SendOk, Deliver
<1>8. CASE SendError(r)
  <2>1. tx'[x] = tx[x]  BY <1>8 DEF SendError, Deliver
  <2> QED BY <1>8, <2>1 DEF SendError
<1>9. CASE ConfirmOk(r) \/ ConfirmRejected(r) \/ ConfirmError(r) \/ ConfirmDeadline(r)
  BY <1>9 DEF ConfirmOk, ConfirmRejected, ConfirmError, ConfirmDeadline, Return
<1>10. QED BY <1>1, <1>2, <1>3, <1>5, <1>6, <1>7, <1>8, <1>9 DEF Step

\* Where a rotation sends its caller.
LEMMA AfterMove ==
  ASSUME TypeOK, NEW r \in Requests, NextAttempt(r)
  PROVE  /\ req'[r].pc \in {"pick", "idle"}
         /\ result'[r] \in {result[r], "failed"}
         /\ Reads(r) /\ req[r].tries < MaxRetries =>
              /\ req'[r].pc = "pick"
              /\ req'[r].tries = req[r].tries + 1
              /\ result'[r] = result[r]
<1>1. req[r] \in Request /\ "pick" \in Places  BY DEF TypeOK, Places
<1> DEFINE q == Between(req[r], "pick")
<1>2. q \in Request /\ q.pc = "pick"  BY <1>1, BetweenTyped
<1> HIDE DEF q
<1>3. \A k : [q EXCEPT !.tries = k].pc = "pick" /\ [q EXCEPT !.tries = k].tries = k
  BY <1>2 DEF Request
<1>4. \A k : [q EXCEPT !.round = k].pc = "pick"
  BY <1>2 DEF Request
<1>5. Idle.pc = "idle"  BY DEF Idle
<1>6. ASSUME Reads(r), req[r].tries < MaxRetries,
             req' = [req EXCEPT ![r] = [q EXCEPT !.tries = req[r].tries + 1]],
             result' = result
      PROVE  /\ req'[r].pc = "pick"
             /\ req'[r].tries = req[r].tries + 1
             /\ result'[r] = result[r]
  BY <1>3, <1>6 DEF TypeOK
<1>7. ASSUME ~Reads(r), req' = [req EXCEPT ![r] = [q EXCEPT !.round = req[r].round + 1]],
             result' = result
      PROVE  req'[r].pc = "pick" /\ result'[r] = result[r]
  BY <1>4, <1>7 DEF TypeOK
<1>8. ASSUME req' = [req EXCEPT ![r] = Idle], result' = [result EXCEPT ![r] = "failed"]
      PROVE  req'[r].pc = "idle" /\ result'[r] = "failed"
  BY <1>5, <1>8 DEF TypeOK
<1>9. QED
  <2>1. \/ /\ Reads(r) /\ req[r].tries < MaxRetries
           /\ req' = [req EXCEPT ![r] = [q EXCEPT !.tries = req[r].tries + 1]]
           /\ result' = result
        \/ /\ ~Reads(r) /\ req[r].round < N - 1
           /\ req' = [req EXCEPT ![r] = [q EXCEPT !.round = req[r].round + 1]]
           /\ result' = result
        \/ /\ Reads(r) => ~(req[r].tries < MaxRetries)
           /\ req' = [req EXCEPT ![r] = Idle]
           /\ result' = [result EXCEPT ![r] = "failed"]
    BY NextAttemptCases DEF q
  <2> QED BY <1>6, <1>7, <1>8, <2>1

-----------------------------------------------------------------------------
(* Places and outcomes.                                                    *)

\* Reads and sends keep to their own places.
LEMMA PlacedStep == TypeOK /\ Placed /\ [Next]_vars => Placed'
<1> SUFFICES ASSUME TypeOK, Placed, [Next]_vars PROVE Placed'  OBVIOUS
<1> DEFINE Fits(r) == /\ req[r].pc \in {"client", "call"} => Reads(r)
                      /\ req[r].pc \in {"send", "confirm"} => ~Reads(r)
<1>1. ASSUME NEW r \in Requests, Begin(r) \/ Step(r) PROVE Placed'
  <2>1. \A x \in Requests \ {r} : Fits(x)'
    BY <1>1, OthersStay DEF Placed, Reads
  <2>2. SUFFICES Fits(r)'
    <3>1. \A x \in Requests : Fits(x)'  BY <2>1, <2>2
    <3> QED BY <3>1 DEF Placed, Reads
  <2>3. req[r] \in Request /\ {"rotate", "pick"} \subseteq Places
    BY DEF TypeOK, Places
  <2>4. CASE Begin(r)
    BY <2>4 DEF Begin, TypeOK, Idle
  <2>5. CASE PickEndpoint(r)
    <3>1. CASE Reads(r)
      <4>1. req'[r] = [req[r] EXCEPT !.pc = "client", !.endpoint = idx]
        BY <2>5, <3>1 DEF PickEndpoint, TypeOK
      <4>2. req'[r].pc = "client"  BY <4>1, <2>3 DEF Request
      <4> QED BY <3>1, <4>2 DEF Reads
    <3>2. CASE ~Reads(r)
      <4>1. req'[r] = [req[r] EXCEPT !.pc = "send", !.endpoint = idx, !.client = idx]
        BY <2>5, <3>2 DEF PickEndpoint, TypeOK
      <4>2. req'[r].pc = "send"  BY <4>1, <2>3 DEF Request
      <4> QED BY <3>2, <4>2 DEF Reads
    <3> QED BY <3>1, <3>2
  <2>6. CASE PickClient(r)
    <3>1. req'[r].pc = "call"  BY <2>3, <2>6 DEF PickClient, TypeOK, Request
    <3>2. Reads(r)  BY <2>6 DEF PickClient, Placed, At
    <3> QED BY <3>1, <3>2 DEF Reads
  <2>7. CASE RotateLock(r) \/ ScanSkip(r)
    <3>1. req'[r].pc = "scan"
      BY <2>3, <2>7 DEF RotateLock, ScanSkip, TypeOK, Request, At
    <3> QED BY <3>1
  <2>8. CASE \/ CallOk(r) \/ CallMissing(r)
             \/ ConfirmOk(r) \/ ConfirmRejected(r) \/ ConfirmError(r)
    <3>1. req'[r] = Idle
      BY <2>8 DEF CallOk, CallMissing, ConfirmOk, ConfirmRejected, ConfirmError, Return,
                  TypeOK
    <3> QED BY <3>1 DEF Idle
  <2>9. CASE CallBlocked(r) \/ CallError(r) \/ ConfirmDeadline(r)
    <3>1. req'[r] = Between(req[r], "rotate")
      BY <2>9 DEF CallBlocked, CallError, ConfirmDeadline, TypeOK
    <3> QED BY <2>3, <3>1, BetweenTyped
  <2>10. CASE ScanPick(r) \/ ScanExhausted(r)
    <3>1. NextAttempt(r)  BY <2>10 DEF ScanPick, ScanExhausted, MoveTo
    <3> QED BY <3>1, AfterMove
  <2>11. CASE SendOk(r)
    <3>1. req'[r].pc = "confirm"  BY <2>3, <2>11 DEF SendOk, TypeOK, Request
    <3>2. ~Reads(r)  BY <2>11 DEF SendOk, Placed, At
    <3> QED BY <3>1, <3>2 DEF Reads
  <2>12. CASE SendError(r)
    <3>1. CASE req[r].tries < MaxRetries
      <4>1. req'[r] = [req[r] EXCEPT !.tries = req[r].tries + 1]
        BY <2>12, <3>1 DEF SendError, TypeOK
      <4>2. req'[r].pc = req[r].pc  BY <2>3, <4>1 DEF Request
      <4> QED BY <4>2 DEF Placed, Reads
    <3>2. CASE ~(req[r].tries < MaxRetries)
      <4>1. req'[r] = [Between(req[r], "rotate") EXCEPT !.tries = 0]
        BY <2>12, <3>2 DEF SendError, TypeOK
      <4>2. Between(req[r], "rotate") \in Request /\ Between(req[r], "rotate").pc = "rotate"
        BY <2>3, BetweenTyped
      <4>3. req'[r].pc = "rotate"  BY <4>1, <4>2 DEF Request
      <4> QED BY <4>3
    <3> QED BY <3>1, <3>2
  <2>13. QED
    BY <1>1, <2>4, <2>5, <2>6, <2>7, <2>8, <2>9, <2>10, <2>11, <2>12 DEF Step, Locking
<1>2. CASE req' = req  BY <1>2 DEF Placed, Reads
<1>3. QED
  <2>1. ASSUME NEW r \in Requests, Resolve(r) PROVE req' = req  BY <2>1 DEF Resolve
  <2>2. ASSUME NEW e \in Endpoints, Rest(e) PROVE req' = req  BY <2>2 DEF Rest
  <2>3. UNCHANGED vars => req' = req  BY DEF vars
  <2> QED BY <1>1, <1>2, <2>1, <2>2, <2>3 DEF Next

-----------------------------------------------------------------------------
(* Failover.                                                               *)

\* Only a read that takes its client gets to the place of a call.
LEMMA NoNewCall ==
  ASSUME TypeOK, NEW r \in Requests, Begin(r) \/ Step(r), ~PickClient(r)
  PROVE  req'[r].pc # "call"
<1>1. req[r] \in Request /\ {"rotate", "pick"} \subseteq Places
  BY DEF TypeOK, Places
<1>2. CASE Begin(r)
  BY <1>2 DEF Begin, TypeOK, Idle
<1>3. CASE PickEndpoint(r)
  <2>1. \/ req'[r] = [req[r] EXCEPT !.pc = "client", !.endpoint = idx]
        \/ req'[r] = [req[r] EXCEPT !.pc = "send", !.endpoint = idx, !.client = idx]
    BY <1>3 DEF PickEndpoint, TypeOK
  <2> QED BY <1>1, <2>1 DEF Request
<1>4. CASE RotateLock(r) \/ ScanSkip(r)
  BY <1>1, <1>4 DEF RotateLock, ScanSkip, TypeOK, Request, At
<1>5. CASE \/ CallOk(r) \/ CallMissing(r)
           \/ ConfirmOk(r) \/ ConfirmRejected(r) \/ ConfirmError(r)
  <2>1. req'[r] = Idle
    BY <1>5 DEF CallOk, CallMissing, ConfirmOk, ConfirmRejected, ConfirmError, Return,
                TypeOK
  <2> QED BY <2>1 DEF Idle
<1>6. CASE CallBlocked(r) \/ CallError(r) \/ ConfirmDeadline(r)
  <2>1. req'[r] = Between(req[r], "rotate")
    BY <1>6 DEF CallBlocked, CallError, ConfirmDeadline, TypeOK
  <2> QED BY <1>1, <2>1, BetweenTyped
<1>7. CASE ScanPick(r) \/ ScanExhausted(r)
  <2>1. NextAttempt(r)  BY <1>7 DEF ScanPick, ScanExhausted, MoveTo
  <2> QED BY <2>1, AfterMove
<1>8. CASE SendOk(r)
  BY <1>1, <1>8 DEF SendOk, TypeOK, Request
<1>9. CASE SendError(r)
  <2>1. CASE req[r].tries < MaxRetries
    <3>1. req'[r] = [req[r] EXCEPT !.tries = req[r].tries + 1]
      BY <1>9, <2>1 DEF SendError, TypeOK
    <3> QED BY <1>1, <1>9, <3>1 DEF Request, SendError, At
  <2>2. CASE ~(req[r].tries < MaxRetries)
    <3>1. req'[r] = [Between(req[r], "rotate") EXCEPT !.tries = 0]
      BY <1>9, <2>2 DEF SendError, TypeOK
    <3>2. Between(req[r], "rotate") \in Request /\ Between(req[r], "rotate").pc = "rotate"
      BY <1>1, BetweenTyped
    <3> QED BY <3>1, <3>2 DEF Request
  <2> QED BY <2>1, <2>2
<1>10. QED
  BY <1>2, <1>3, <1>4, <1>5, <1>6, <1>7, <1>8, <1>9 DEF Step, Locking

\* Blame only falls on endpoints that have failed, while nobody is blamed for
\* the answer of another endpoint.
LEMMA SpotlessStep == TypeOK /\ Spotless /\ [Next]_vars => Spotless'
<1> SUFFICES ASSUME TypeOK, Spotless, [Next]_vars, ~mixed' PROVE Spotless'
  BY DEF Spotless
<1> USE DEF Good
<1> DEFINE Clean == \A e \in Endpoints : Good(e) => e \notin disabled /\ fails[e] = 0
<1> DEFINE Fair(r) == At(r, "call") => req[r].endpoint = req[r].client
<1>1. SUFFICES ASSUME ~mixed PROVE Clean' /\ \A r \in Requests : Fair(r)'
  <2>1. mixed => mixed'
    BY DEF Next, Step, Locking, vars, Begin, PickEndpoint, PickClient, CallOk, CallMissing,
           CallBlocked, CallError, RotateLock, ScanPick, ScanSkip, ScanExhausted, MoveTo,
           SendOk, SendError, Resolve, ConfirmOk, ConfirmRejected, ConfirmError,
           ConfirmDeadline, Rest
  <2> QED BY <1>1, <2>1 DEF Spotless
<1>2. Clean /\ \A r \in Requests : Fair(r)  BY <1>1 DEF Spotless
<1>3. ASSUME NEW r \in Requests, Begin(r) \/ Step(r)
      PROVE  Clean' /\ \A x \in Requests : Fair(x)'
  <2>1. \A x \in Requests \ {r} : Fair(x)'  BY <1>2, <1>3, OthersStay DEF At
  <2>2. req[r] \in Request /\ req[r].endpoint \in Endpoints /\ req[r].client \in Endpoints
    BY DEF TypeOK, Request
  <2>3. CASE PickClient(r)
    <3>1. idx = req[r].endpoint  BY <2>3 DEF PickClient
    <3>2. req'[r].endpoint = req[r].endpoint /\ req'[r].client = idx
      BY <2>2, <2>3 DEF PickClient, TypeOK, Request
    <3>3. Clean'  BY <1>2, <2>3 DEF PickClient, health
    <3> QED BY <2>1, <3>1, <3>2, <3>3
  <2>4. CASE ~PickClient(r)
    <3>1. Fair(r)'  BY <1>3, <2>4, NoNewCall DEF At
    <3>2. SUFFICES Clean'  BY <2>1, <3>1
    <3>3. CASE CallOk(r)
      BY <1>2, <2>2, <3>3 DEF CallOk, RecordSuccess, TypeOK
    <3>4. CASE CallBlocked(r)
      <4>1. req[r].endpoint = req[r].client  BY <1>2, <3>4 DEF CallBlocked
      <4>2. ~Good(req[r].endpoint)  BY <3>4, <4>1 DEF CallBlocked, Answer
      <4> QED BY <1>2, <3>4, <4>2 DEF CallBlocked, DisableEndpoint
    <3>5. CASE CallError(r)
      <4>1. req[r].endpoint = req[r].client  BY <1>2, <3>5 DEF CallError
      <4>2. ~Good(req[r].endpoint)  BY <3>5, <4>1 DEF CallError, Answer
      <4>3. disabled' = disabled  BY <3>5 DEF CallError, RecordFailure
      <4>4. \A e \in Endpoints \ {req[r].endpoint} : fails'[e] = fails[e]
        BY <3>5 DEF CallError, RecordFailure, TypeOK
      <4> QED BY <1>2, <4>2, <4>3, <4>4
    <3>6. CASE fails' = fails /\ disabled' = disabled
      BY <1>2, <3>6
    <3>7. QED
      BY <1>3, <2>4, <3>3, <3>4, <3>5, <3>6
      DEF Step, Locking, health, Begin, PickEndpoint, CallMissing, RotateLock, ScanPick,
          ScanSkip, ScanExhausted, MoveTo, SendOk, SendError, ConfirmOk, ConfirmRejected,
          ConfirmError, ConfirmDeadline
  <2>5. QED BY <2>3, <2>4
<1>4. CASE req' = req /\ fails' = fails /\ disabled' = disabled
  BY <1>2, <1>4 DEF At
<1>5. QED
  BY <1>3, <1>4 DEF Next, Resolve, Rest, vars, health

\* From every endpoint a good one is fewer than N places ahead.
LEMMA GoodWithinReach ==
  ASSUME Servable, idx \in Endpoints
  PROVE  GoodAhead(0, MaxRetries)
<1> USE EndpointAssumption, RequestAssumption DEF Endpoints
<1>1. PICK g \in Endpoints : Good(g)  BY DEF Servable
<1>2. CASE idx <= g
  <2>1. g - idx \in Nat /\ g - idx < N /\ Ahead(g - idx) = g  BY <1>2 DEF Ahead
  <2> QED BY <1>1, <2>1 DEF GoodAhead, Servable
<1>3. CASE g < idx
  <2>1. g - idx + N \in Nat /\ g - idx + N < N /\ Ahead(g - idx + N) = g
    BY <1>3 DEF Ahead
  <2> QED BY <1>1, <2>1 DEF GoodAhead, Servable
<1>4. QED BY <1>2, <1>3

\* A step of a read itself keeps it on track.
LEMMA OwnTrack ==
  ASSUME TypeOK, Placed, Spotless, Servable, ~mixed, NEW r \in Requests, Reads(r),
         Begin(r) \/ (Step(r) /\ OnTrack(r))
  PROVE  OnTrack(r)'
<1> USE EndpointAssumption, RequestAssumption
<1>1. /\ req[r] \in Request /\ {"rotate", "pick"} \subseteq Places
      /\ req[r].tries \in 0..MaxRetries /\ req[r].scan \in 1..(N + 1)
      /\ idx \in Endpoints /\ req[r].client \in Endpoints
  BY DEF TypeOK, Request, Places
<1>2. CASE Begin(r)
  <2>1. req'[r].pc = "pick" /\ req'[r].tries = 0 /\ result'[r] = "none" /\ idx' = idx
    BY <1>2 DEF Begin, Idle, TypeOK
  <2>2. GoodAhead(0, MaxRetries)  BY <1>1, GoodWithinReach
  <2>3. MaxRetries - req'[r].tries = MaxRetries  BY <2>1
  <2> QED BY <2>1, <2>2, <2>3 DEF OnTrack, GoodAhead, Ahead, Good, At
<1>3. CASE OnTrack(r) /\ PickEndpoint(r)
  <2>1. req'[r] = [req[r] EXCEPT !.pc = "client", !.endpoint = idx]
    BY <1>3 DEF PickEndpoint, TypeOK
  <2>2. /\ req'[r].pc = "client" /\ req'[r].endpoint = idx
        /\ req'[r].tries = req[r].tries
    BY <1>1, <2>1 DEF Request
  <2>3. result' = result /\ idx' = idx /\ req[r].pc = "pick"  BY <1>3 DEF PickEndpoint, At
  <2> QED BY <1>3, <2>2, <2>3 DEF OnTrack, GoodAhead, Ahead, Good, At
<1>4. CASE OnTrack(r) /\ PickClient(r)
  <2>1. req'[r].pc = "call" /\ req'[r].client = idx /\ req'[r].tries = req[r].tries
    BY <1>1, <1>4 DEF PickClient, TypeOK, Request
  <2>2. result' = result /\ idx' = idx /\ req[r].pc = "client"  BY <1>4 DEF PickClient, At
  <2> QED BY <1>4, <2>1, <2>2 DEF OnTrack, GoodAhead, Ahead, Good, At
<1>5. CASE CallOk(r) \/ CallMissing(r)
  <2>1. req'[r] = Idle /\ result'[r] # "failed"
    BY <1>5 DEF CallOk, CallMissing, Return, TypeOK
  <2> QED BY <2>1 DEF OnTrack, Idle, At
<1>6. CASE OnTrack(r) /\ (CallBlocked(r) \/ CallError(r))
  <2>1. req'[r] = Between(req[r], "rotate")
    BY <1>6 DEF CallBlocked, CallError, TypeOK
  <2>2. req'[r].pc = "rotate" /\ req'[r].tries = req[r].tries
    BY <1>1, <2>1, BetweenTyped
  <2>3. result' = result /\ idx' = idx /\ req[r].pc = "call"
    BY <1>6 DEF CallBlocked, CallError, At
  <2>4. ~Good(idx)
    BY <1>6, <2>3 DEF OnTrack, CallBlocked, CallError, Answer, Good, At
  <2>5. PICK d \in Nat : 0 <= d /\ d <= MaxRetries - req[r].tries /\ d < N /\ Good(Ahead(d))
    BY <1>6, <2>3 DEF OnTrack, GoodAhead
  <2>6. d # 0  BY <1>1, <2>4, <2>5 DEF Ahead, Endpoints
  <2>7. GoodAhead(1, MaxRetries - req[r].tries)  BY <2>5, <2>6 DEF GoodAhead
  <2> QED BY <1>6, <2>2, <2>3, <2>7 DEF OnTrack, GoodAhead, Ahead, Good, At
<1>7. CASE OnTrack(r) /\ RotateLock(r)
  <2>1. req'[r].pc = "scan" /\ req'[r].scan = 1 /\ req'[r].tries = req[r].tries
    BY <1>1, <1>7 DEF RotateLock, TypeOK, Request
  <2>2. result' = result /\ idx' = idx /\ req[r].pc = "rotate"  BY <1>7 DEF RotateLock, At
  <2> QED BY <1>7, <2>1, <2>2 DEF OnTrack, GoodAhead, Ahead, Good, At
<1>8. CASE OnTrack(r) /\ ScanSkip(r)
  <2>1. /\ req'[r].pc = "scan" /\ req'[r].scan = req[r].scan + 1
        /\ req'[r].tries = req[r].tries
    BY <1>1, <1>8 DEF ScanSkip, TypeOK, Request, At
  <2>2. result' = result /\ idx' = idx /\ req[r].pc = "scan"  BY <1>8 DEF ScanSkip, At
  <2>3. PICK d \in Nat : /\ req[r].scan <= d /\ d <= MaxRetries - req[r].tries
                         /\ d < N /\ Good(Ahead(d))
    BY <1>8, <2>2 DEF OnTrack, GoodAhead, At
  <2>4. Ahead(d) \in Endpoints  BY <1>1, <2>3, AheadInRange
  <2>5. IsHealthy(Ahead(d))  BY <2>3, <2>4 DEF Spotless, IsHealthy
  <2>6. d # req[r].scan  BY <1>8, <2>5 DEF ScanSkip
  <2>7. GoodAhead(req[r].scan + 1, MaxRetries - req[r].tries)
    BY <1>1, <2>3, <2>6 DEF GoodAhead
  <2> QED BY <1>8, <2>1, <2>2, <2>7 DEF OnTrack, GoodAhead, Ahead, Good, At
<1>9. CASE OnTrack(r) /\ ScanPick(r)
  <2>1. /\ req[r].scan \in 1..N /\ idx' = Ahead(req[r].scan) /\ req[r].pc = "scan"
        /\ NextAttempt(r)
    BY <1>1, <1>9 DEF ScanPick, MoveTo, At
  <2>2. GoodAhead(req[r].scan, MaxRetries - req[r].tries)
    BY <1>9, <2>1 DEF OnTrack, At
  <2>3. PICK d \in Nat : /\ req[r].scan <= d /\ d <= MaxRetries - req[r].tries
                         /\ d < N /\ Good(Ahead(d))
    BY <2>2 DEF GoodAhead
  <2>4. PICK j \in 1..N : j = req[r].scan  BY <2>1
  <2>5. /\ d - j \in Nat /\ d - j <= MaxRetries - (req[r].tries + 1) /\ d - j < N
        /\ req[r].tries < MaxRetries
    BY <1>1, <2>3, <2>4
  <2>6. Ahead(d - j)' = Ahead(d)
    <3>1. idx' = Ahead(j)  BY <2>1, <2>4
    <3>2. j <= d /\ d < N /\ idx \in 1..N  BY <1>1, <2>3, <2>4 DEF Endpoints
    <3> QED BY <3>1, <3>2 DEF Ahead
  <2>7. Good(Ahead(d - j))'  BY <2>3, <2>6 DEF Good
  <2>8. /\ req'[r].pc = "pick" /\ req'[r].tries = req[r].tries + 1
        /\ result'[r] = result[r]
    BY <2>1, <2>5, AfterMove
  <2>9. GoodAhead(0, MaxRetries - req[r].tries)'
    <3>1. d - j <= MaxRetries - req'[r].tries /\ 0 <= d - j  BY <2>5, <2>8
    <3> QED BY <2>5, <2>7, <3>1 DEF GoodAhead
  <2> QED BY <1>9, <2>8, <2>9 DEF OnTrack, At
<1>10. CASE OnTrack(r) /\ ScanExhausted(r)
  BY <1>1, <1>10 DEF OnTrack, ScanExhausted, GoodAhead, At
<1>11. CASE \/ SendOk(r) \/ SendError(r) \/ ConfirmOk(r) \/ ConfirmRejected(r)
            \/ ConfirmError(r) \/ ConfirmDeadline(r)
  BY <1>11 DEF Placed, SendOk, SendError, ConfirmOk, ConfirmRejected, ConfirmError,
               ConfirmDeadline, At
<1>12. QED
  BY <1>2, <1>3, <1>4, <1>5, <1>6, <1>7, <1>8, <1>9, <1>10, <1>11 DEF Step, Locking

\* A read that nobody has moved the index under stays on track, whoever steps.
LEMMA TrackStep ==
  TypeOK /\ Placed /\ Spotless /\ AllOnTrack /\ [Next]_vars => AllOnTrack'
<1> SUFFICES ASSUME TypeOK, Placed, Spotless, AllOnTrack, [Next]_vars, Servable, ~mixed',
                    NEW x \in Requests \ disturbed', Reads(x)
             PROVE  OnTrack(x)'
  BY DEF AllOnTrack, Servable, Reads, Good
<1>1. ~mixed
  BY DEF Next, Step, Locking, vars, Begin, PickEndpoint, PickClient, CallOk, CallMissing,
         CallBlocked, CallError, RotateLock, ScanPick, ScanSkip, ScanExhausted, MoveTo,
         SendOk, SendError, Resolve, ConfirmOk, ConfirmRejected, ConfirmError,
         ConfirmDeadline, Rest
<1>2. x \notin disturbed => OnTrack(x)  BY <1>1 DEF AllOnTrack
<1>3. ASSUME x \notin disturbed, idx' = idx, req'[x] = req[x], result'[x] = result[x]
      PROVE  OnTrack(x)'
  BY <1>2, <1>3 DEF OnTrack, GoodAhead, Ahead, Good, At
<1>4. ASSUME Begin(x) \/ Step(x) PROVE OnTrack(x)'
  <2>1. CASE Begin(x)  BY <1>1, <2>1, OwnTrack
  <2>2. CASE Step(x)
    <3>1. x \notin disturbed
      BY <2>2 DEF Step, Locking, PickEndpoint, PickClient, CallOk, CallMissing, CallBlocked,
                  CallError, RotateLock, ScanPick, ScanSkip, ScanExhausted, MoveTo, SendOk,
                  SendError, ConfirmOk, ConfirmRejected, ConfirmError, ConfirmDeadline
    <3> QED BY <1>1, <1>2, <2>2, <3>1, OwnTrack
  <2> QED BY <1>4, <2>1, <2>2
<1>5. ASSUME NEW r \in Requests \ {x}, Begin(r) \/ Step(r) PROVE OnTrack(x)'
  <2>1. req'[x] = req[x] /\ result'[x] = result[x]  BY <1>5, OthersStay
  <2>2. CASE ScanPick(r) \/ ScanExhausted(r)
    <3>1. disturbed' = disturbed \cup {q \in Requests \ {r} : Reads(q) /\ ~At(q, "idle")}
      BY <2>2 DEF ScanPick, ScanExhausted, MoveTo
    <3>2. x \notin disturbed /\ req[x].pc = "idle"  BY <3>1 DEF At
    <3> QED BY <1>2, <2>1, <3>2 DEF OnTrack, At
  <2>3. CASE ~(ScanPick(r) \/ ScanExhausted(r))
    <3>1. idx' = idx /\ disturbed' \in {disturbed, disturbed \ {r}}
      BY <1>5, <2>3 DEF Step, Locking, Begin, PickEndpoint, PickClient, CallOk, CallMissing,
                        CallBlocked, CallError, RotateLock, ScanSkip, SendOk, SendError,
                        ConfirmOk, ConfirmRejected, ConfirmError, ConfirmDeadline
    <3> QED BY <1>3, <2>1, <3>1
  <2>4. QED BY <2>2, <2>3
<1>6. CASE \/ \E r \in Requests : Resolve(r)
           \/ \E e \in Endpoints : Rest(e)
           \/ UNCHANGED vars
  BY <1>3, <1>6 DEF Resolve, Rest, vars
<1>7. QED BY <1>4, <1>5, <1>6 DEF Next

-----------------------------------------------------------------------------
(* The theorems.                                                           *)

\* Every request begins idle, on a clean record.
LEMMA RpcInitially == Init => RpcInv
<1> SUFFICES ASSUME Init PROVE RpcInv  OBVIOUS
<1> USE EndpointAssumption, RequestAssumption
<1>1. TypeOK
  <2>1. idx \in Endpoints /\ fails \in [Endpoints -> 0..MaxFailures]
    BY DEF Init, Endpoints
  <2>2. req \in [Requests -> Request]  BY IdleTyped DEF Init
  <2> QED BY <2>1, <2>2 DEF Init, TypeOK, Results, TxStates
<1>2. \A r \in Requests : req[r].pc = "idle" /\ result[r] = "none"
  BY DEF Init, Idle
<1>3. Placed  BY <1>2 DEF Placed
<1>4. Spotless  BY <1>2 DEF Spotless, Init, At
<1>5. AllOnTrack  BY <1>2 DEF AllOnTrack, OnTrack, At
<1>6. QED BY <1>1, <1>3, <1>4, <1>5 DEF RpcInv

\* The conjunction is inductive.
LEMMA RpcInvAlways == Spec => []RpcInv
<1>1. RpcInv /\ [Next]_vars => RpcInv'
  BY TypeStep, PlacedStep, SpotlessStep, TrackStep DEF RpcInv
<1>2. QED BY <1>1, RpcInitially, PTL DEF Spec

\* Whatever the endpoints answer and however requests interleave, indices,
\* counters and results stay in their ranges: no rotation leaves the list, no
\* request makes more attempts than max_retries allows.
THEOREM RpcTypeCorrect == Spec => []TypeOK
BY RpcInvAlways, PTL DEF RpcInv

\* For any number of endpoints, a read that is not rotated under finds the one
\* that always answers within its retries.
THEOREM GoodEndpointIsFound == Spec => []GoodEndpointServes
<1>1. RpcInv => GoodEndpointServes
  BY DEF RpcInv, AllOnTrack, Servable, OnTrack, GoodEndpointServes
<1>2. QED BY <1>1, RpcInvAlways, PTL
=============================================================================
