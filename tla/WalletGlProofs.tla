--------------------------- MODULE WalletGlProofs ---------------------------
(***************************************************************************)
(* What holds of WalletGl for any rows, deltas, sessions and mints, any    *)
(* number of passes and faults and any number of posters side by side.     *)
(***************************************************************************)
EXTENDS WalletGl, FiniteSetTheorems, WellFoundedInduction, TLAPS

-----------------------------------------------------------------------------
(* Minima and sums.                                                        *)

\* Every non-empty set of naturals has a least element: smaller rows first.
LEMMA NatMin ==
  ASSUME NEW T \in SUBSET Nat, T # {}
  PROVE  \E n \in T : \A m \in T : n <= m
<1> DEFINE less == {ss \in Nat \X Nat : ss[1] < ss[2]}
<1>1. IsWellFoundedOn(less, Nat)
  BY NatLessThanWellFounded DEF OpToRel
<1> HIDE DEF less
<1>2. PICK n \in T : \A m \in T : ~ (<<m, n>> \in less)
  BY <1>1, WFMin
<1>3. ASSUME NEW m \in T PROVE n <= m
  <2>1. n \in Nat /\ m \in Nat
    OBVIOUS
  <2>2. ASSUME m < n PROVE <<m, n>> \in less
    BY <2>1, <2>2 DEF less
  <2>3. ~ (m < n)
    BY <1>2, <2>2
  <2> QED
    BY <2>1, <2>3
<1> QED
  BY <1>3

\* Min, as the passes use it to take the next row and the next delta.
LEMMA MinIsLeast ==
  ASSUME NEW T \in SUBSET Nat, T # {}
  PROVE  Min(T) \in T /\ \A m \in T : Min(T) <= m
BY NatMin DEF Min

\* What SumTo adds up: the partial sums of F up to n.
PartialSums(F, n, s) == s = [k \in 0..n |-> IF k = 0 THEN 0 ELSE s[k - 1] + F[k]]

\* The partial sums of integers exist and are integers.
LEMMA SumsExist ==
  ASSUME NEW n \in Nat, NEW F, \A i \in 1..n : F[i] \in Int
  PROVE  \E s \in [0..n -> Int] : PartialSums(F, n, s)
<1> DEFINE Missing == {k \in Nat : k <= n /\ ~\E s \in [0..k -> Int] : PartialSums(F, k, s)}
<1>1. SUFFICES Missing = {}
  OBVIOUS
<1>2. SUFFICES ASSUME Missing # {} PROVE FALSE
  OBVIOUS
<1>3. PICK k \in Missing : \A j \in Missing : k <= j
  BY <1>2, NatMin
<1>4. CASE k = 0
  <2> DEFINE s == [j \in 0..0 |-> 0]
  <2>1. s \in [0..0 -> Int] /\ PartialSums(F, 0, s)
    BY DEF PartialSums
  <2> QED
    BY <1>3, <1>4, <2>1
<1>5. CASE k # 0
  <2>1. k - 1 \in Nat /\ k - 1 <= n /\ k - 1 \notin Missing
    BY <1>3, <1>5
  <2>2. PICK s \in [0..(k - 1) -> Int] : PartialSums(F, k - 1, s)
    BY <2>1
  <2> DEFINE t == [j \in 0..k |-> IF j = k THEN s[k - 1] + F[k] ELSE s[j]]
  <2>3. s[k - 1] + F[k] \in Int
    BY <1>3, <1>5, <2>2
  <2>4. t \in [0..k -> Int]
    BY <1>3, <2>1, <2>3
  <2>5. \A j \in 0..(k - 1) : s[j] = IF j = 0 THEN 0 ELSE s[j - 1] + F[j]
    BY <2>2 DEF PartialSums
  <2>6. ASSUME NEW j \in 0..k PROVE t[j] = IF j = 0 THEN 0 ELSE t[j - 1] + F[j]
    BY <1>3, <1>5, <2>5
  <2>7. PartialSums(F, k, t)
    BY <2>4, <2>6 DEF PartialSums
  <2> QED
    BY <1>3, <2>4, <2>7
<1> QED
  BY <1>3, <1>4, <1>5

\* And they are unique.
LEMMA SumsUnique ==
  ASSUME NEW n \in Nat, NEW F, NEW s, NEW t, PartialSums(F, n, s), PartialSums(F, n, t)
  PROVE  s[n] = t[n]
<1> DEFINE Apart == {k \in Nat : k <= n /\ s[k] # t[k]}
<1>1. SUFFICES ASSUME Apart # {} PROVE FALSE
  OBVIOUS
<1>2. PICK k \in Apart : \A j \in Apart : k <= j
  BY <1>1, NatMin
<1>3. \A j \in 0..n : /\ s[j] = IF j = 0 THEN 0 ELSE s[j - 1] + F[j]
                      /\ t[j] = IF j = 0 THEN 0 ELSE t[j - 1] + F[j]
  BY DEF PartialSums
<1>4. k # 0
  BY <1>2, <1>3
<1>5. s[k - 1] = t[k - 1]
  BY <1>2, <1>4
<1> QED
  BY <1>2, <1>3, <1>4, <1>5

\* SumTo is the last of the partial sums.
LEMMA SumIs ==
  ASSUME NEW n \in Nat, NEW F, NEW s, PartialSums(F, n, s)
  PROVE  SumTo(F, n) = s[n]
<1> DEFINE c == CHOOSE f : PartialSums(F, n, f)
<1>1. PartialSums(F, n, c)
  OBVIOUS
<1>2. SumTo(F, n) = c[n]
  BY DEF SumTo, PartialSums
<1> QED
  BY <1>1, <1>2, SumsUnique

\* The sum of integers is an integer.
LEMMA SumType ==
  ASSUME NEW n \in Nat, NEW F, \A i \in 1..n : F[i] \in Int
  PROVE  SumTo(F, n) \in Int
<1>1. PICK s \in [0..n -> Int] : PartialSums(F, n, s)
  BY SumsExist
<1> QED
  BY <1>1, SumIs

\* A sum of zeros is zero.
LEMMA SumOfZeros ==
  ASSUME NEW n \in Nat, NEW F, \A i \in 1..n : F[i] = 0
  PROVE  SumTo(F, n) = 0
<1> DEFINE s == [k \in 0..n |-> 0]
<1>1. PartialSums(F, n, s)
  BY DEF PartialSums
<1> QED
  BY <1>1, SumIs

\* Adding d to one summand adds d to the sum.
LEMMA SumChange ==
  ASSUME NEW n \in Nat, NEW F, NEW G, NEW r \in 1..n, NEW d \in Int,
         \A i \in 1..n : F[i] \in Int,
         \A i \in 1..n : G[i] = IF i = r THEN F[i] + d ELSE F[i]
  PROVE  SumTo(G, n) = SumTo(F, n) + d
<1>1. PICK s \in [0..n -> Int] : PartialSums(F, n, s)
  BY SumsExist
<1> DEFINE t == [k \in 0..n |-> IF k < r THEN s[k] ELSE s[k] + d]
<1>2. \A k \in 0..n : s[k] = IF k = 0 THEN 0 ELSE s[k - 1] + F[k]
  BY <1>1 DEF PartialSums
<1>3. ASSUME NEW k \in 0..n PROVE t[k] = IF k = 0 THEN 0 ELSE t[k - 1] + G[k]
  <2>1. CASE k = 0
    BY <1>2, <2>1
  <2>2. CASE k # 0
    <3>1. k \in 1..n /\ k - 1 \in 0..n
      BY <2>2
    <3>2. s[k] = s[k - 1] + F[k] /\ F[k] \in Int /\ s[k - 1] \in Int
      BY <1>2, <3>1
    <3>3. CASE k < r
      BY <3>1, <3>2, <3>3
    <3>4. CASE k = r
      BY <3>1, <3>2, <3>4
    <3>5. CASE k > r
      BY <3>1, <3>2, <3>5
    <3> QED
      BY <3>1, <3>3, <3>4, <3>5
  <2> QED
    BY <2>1, <2>2
<1>4. PartialSums(G, n, t)
  BY <1>3 DEF PartialSums
<1>5. SumTo(F, n) = s[n] /\ SumTo(G, n) = t[n]
  BY <1>1, <1>4, SumIs
<1> QED
  BY <1>5

-----------------------------------------------------------------------------
(* Events, postings and capped debits.                                     *)

\* Event ids, their accounts and their postings are typed.
LEMMA EventTypes ==
  ASSUME NEW e \in EventIds
  PROVE  /\ e[1] \in Scopes /\ e[2] \in Rows /\ e = <<e[1], e[2]>>
         /\ AccountOf(e) \in Accounts
         /\ PostingsOf(e) \in Seq(Delta)
<1>1. e[1] \in Scopes /\ e[2] \in Rows /\ e = <<e[1], e[2]>>
  BY DEF EventIds
<1>2. AccountOf(e) \in Accounts
  BY <1>1, ConstantsAssumption DEF AccountOf, Accounts
<1>3. CASE e[1] = "tx_fee"
  <2>1. Fee[e[2]] \in Int /\ Wsol \in Mints
    BY <1>1, ConstantsAssumption
  <2>2. [mint |-> Wsol, delta |-> Fee[e[2]]] \in Delta
    BY <2>1 DEF Delta
  <2>3. <<[mint |-> Wsol, delta |-> Fee[e[2]]]>> \in Seq(Delta) /\ <<>> \in Seq(Delta)
    BY <2>2
  <2> QED
    BY <1>1, <1>2, <1>3, <2>3 DEF PostingsOf
<1>4. CASE e[1] # "tx_fee"
  BY <1>1, <1>2, <1>4, ConstantsAssumption DEF PostingsOf
<1> QED
  BY <1>3, <1>4

\* A balance row has an integer amount, and so has an absent one.
LEMMA AmountType ==
  ASSUME NEW x \in Int \cup {NoRow}
  PROVE  Amount(x) \in Int
BY DEF Amount

\* Capping keeps the mints of the deltas and changes only debits of an open.
LEMMA CapType ==
  ASSUME NEW e \in EventIds, NEW run \in [Mints -> Int \cup {NoRow}]
  PROVE  LET capped == CapOpenDebits(e, run, PostingsOf(e))
         IN  /\ capped \in Seq(Delta)
             /\ DOMAIN capped = DOMAIN PostingsOf(e)
             /\ \A i \in DOMAIN capped :
                  /\ capped[i] \in Delta
                  /\ capped[i].mint = PostingsOf(e)[i].mint
                  /\ /\ e[2] \in Opens
                     /\ e[1] \in {"lifecycle", "chain_lifecycle"}
                     /\ capped[i].delta < 0
                     => Amount(run[capped[i].mint]) + capped[i].delta >= 0
<1> DEFINE posts == PostingsOf(e)
           capped == CapOpenDebits(e, run, posts)
<1>1. posts \in Seq(Delta)
  BY EventTypes
<1>2. \A i \in DOMAIN posts : posts[i] \in Delta
  BY <1>1
<1> HIDE DEF posts
<1>3. CASE e[2] \notin Opens \/ e[1] \notin {"lifecycle", "chain_lifecycle"}
  <2>1. capped = posts
    BY <1>3 DEF CapOpenDebits
  <2> HIDE DEF capped
  <2> QED
    BY <1>1, <1>2, <1>3, <2>1 DEF capped, posts
<1>4. CASE e[2] \in Opens /\ e[1] \in {"lifecycle", "chain_lifecycle"}
  <2> DEFINE cap(i) == IF posts[i].delta >= 0 THEN posts[i]
                       ELSE [posts[i] EXCEPT !.delta =
                               -Least(-posts[i].delta, Positive(Amount(run[posts[i].mint])))]
  <2>1. capped = [i \in DOMAIN posts |-> cap(i)]
    BY <1>4 DEF CapOpenDebits
  <2>2. ASSUME NEW i \in DOMAIN posts
        PROVE  /\ cap(i) \in Delta
               /\ cap(i).mint = posts[i].mint
               /\ cap(i).delta < 0 => Amount(run[cap(i).mint]) + cap(i).delta >= 0
    <3>1. posts[i] \in Delta /\ posts[i].delta \in Int /\ posts[i].mint \in Mints
      BY <1>2 DEF Delta
    <3>2. Amount(run[posts[i].mint]) \in Int
      BY <3>1, AmountType
    <3>3. CASE posts[i].delta >= 0
      BY <3>1, <3>3
    <3>4. CASE posts[i].delta < 0
      <4> DEFINE x == -Least(-posts[i].delta, Positive(Amount(run[posts[i].mint])))
      <4>1. x \in Int /\ (x < 0 => Amount(run[posts[i].mint]) + x >= 0)
        BY <3>1, <3>2, <3>4 DEF Least, Positive
      <4>2. cap(i) = [posts[i] EXCEPT !.delta = x]
        BY <3>1, <3>4
      <4> HIDE DEF x, cap
      <4>3. cap(i) \in Delta /\ cap(i).mint = posts[i].mint /\ cap(i).delta = x
        BY <3>1, <4>1, <4>2 DEF Delta
      <4> QED
        BY <4>1, <4>3
    <3> QED
      BY <3>1, <3>3, <3>4
  <2> HIDE DEF cap, capped
  <2>3. PICK n \in Nat : DOMAIN posts = 1..n
    BY <1>1
  <2>4. capped \in Seq(Delta)
    <3>1. capped \in [1..n -> Delta]
      BY <2>1, <2>2, <2>3
    <3> QED
      BY <3>1, <2>3
  <2>5. DOMAIN capped = DOMAIN posts /\ \A i \in DOMAIN capped : capped[i] = cap(i)
    BY <2>1
  <2> QED
    BY <1>4, <2>2, <2>4, <2>5 DEF posts, capped
<1> QED
  BY <1>3, <1>4

-----------------------------------------------------------------------------
(* Passes.                                                                 *)

\* The scopes a pass posts.
PassScopes(pass) ==
  CASE pass = "ingest" -> {"lifecycle", "tx_fee", "chain_lifecycle"}
    [] pass = "backfill" -> {"lifecycle", "tx_fee"}
    [] pass = "chain_backfill" -> {"chain_lifecycle"}
    [] pass = "journal" -> {"journal"}
    [] OTHER -> {}

\* The deltas being booked are those of the event, some of them still to come.
BatchFits(q) ==
  LET posts == PostingsOf(EventId(q.scope, Row(q)))
  IN  /\ q.left # {}
      /\ q.left \subseteq DOMAIN q.batch
      /\ DOMAIN q.batch = DOMAIN posts
      /\ \A i \in DOMAIN q.batch : q.batch[i].mint = posts[i].mint

\* Where a pass can be, when the file has f rows and the rows in st are stored:
\* an ingest posts no row it has not stored, a backfill visits stored rows only, a
\* journal event is about one row.
Fits(q, f, st) ==
  /\ q.pc = "idle" <=> q.pass = "none"
  /\ q.pc # "idle" => q.todo # {}
  /\ q.pc \in {"upsert", "link"} => q.pass = "ingest"
  /\ q.pc \in {"upsert", "check", "read", "apply", "write"} => q.scope \in PassScopes(q.pass)
  /\ q.pass = "ingest" => q.todo \subseteq 1..f
  /\ q.pass = "ingest" /\ q.pc # "upsert" => Row(q) \in st
  /\ q.pass \in {"backfill", "chain_backfill"} => q.todo \subseteq st
  /\ q.pass = "journal" => \A r, s \in q.todo : r = s
  /\ q.pc \in {"apply", "write"} => BatchFits(q)

\* The typing of the state, with every pass where it can be.
Placed ==
  /\ filed \in 0..N
  /\ pslr \subseteq 1..filed
  /\ linked \subseteq pslr
  /\ journalled \subseteq Rows
  /\ bal \in [Accounts -> [Mints -> Int \cup {NoRow}]]
  /\ posting \in [EventIds -> [Mints -> [entries : Nat, total : Int]]]
  /\ poster \in [Posters -> PosterType]
  /\ \A p \in Posters : Fits(poster[p], filed, pslr)
  /\ settled \subseteq EventIds
  /\ tainted \in BOOLEAN
  /\ faults \in 0..MaxFaults

\* More rows in the file and in the table change nothing for a pass.
LEMMA FitsGrows ==
  ASSUME NEW q, NEW f \in Nat, NEW g \in Nat, f <= g, NEW st, NEW tt, st \subseteq tt,
         Fits(q, f, st)
  PROVE  Fits(q, g, tt)
<1>1. 1..f \subseteq 1..g
  OBVIOUS
<1> QED
  BY <1>1 DEF Fits

\* The row of a pass under way is one of its rows.
LEMMA RowOfPass ==
  ASSUME NEW q \in PosterType, q.todo # {}
  PROVE  Row(q) \in q.todo /\ Row(q) \in Rows
<1>1. q.todo \subseteq Nat /\ q.todo \subseteq Rows
  BY ConstantsAssumption DEF PosterType, Rows
<1> QED
  BY <1>1, MinIsLeast DEF Row

\* A pass at rest fits.
LEMMA IdleFits ==
  ASSUME NEW f, NEW st
  PROVE  Idle \in PosterType /\ Fits(Idle, f, st)
<1>1. Idle \in PosterType
  BY DEF Idle, PosterType, Passes, Pcs
<1> QED
  BY <1>1 DEF Fits, Idle

\* The first row of a pass, if it has any.
LEMMA StartRowFits ==
  ASSUME NEW pass \in Passes \ {"none"}, NEW todo \in SUBSET Rows, NEW f \in Nat, NEW st,
         pass = "ingest" => todo \subseteq 1..f,
         pass \in {"backfill", "chain_backfill"} => todo \subseteq st,
         pass = "journal" => \A r, s \in todo : r = s
  PROVE  StartRow(pass, todo) \in PosterType /\ Fits(StartRow(pass, todo), f, st)
<1>1. CASE todo = {}
  BY <1>1, IdleFits DEF StartRow
<1>2. CASE todo # {}
  <2> DEFINE q == StartRow(pass, todo)
  <2>1. q = [pass |-> pass, pc |-> IF pass = "ingest" THEN "upsert" ELSE "check",
             todo |-> todo, scope |-> FirstScope(pass), batch |-> <<>>, left |-> {},
             old |-> NoRow]
    BY <1>2 DEF StartRow
  <2>2. FirstScope(pass) \in Scopes
    BY DEF FirstScope, Scopes
  <2>3. FirstScope(pass) \in PassScopes(pass)
    BY DEF FirstScope, PassScopes, Passes
  <2> HIDE DEF q
  <2>4. <<>> \in Seq(Delta)
    OBVIOUS
  <2>5. q \in PosterType
    BY <2>1, <2>2, <2>4 DEF PosterType, Pcs, Passes
  <2>6. Fits(q, f, st)
    BY <1>2, <2>1, <2>3 DEF Fits
  <2> QED
    BY <2>5, <2>6 DEF q
<1> QED
  BY <1>1, <1>2

\* The next row of a pass, or its end.
LEMMA NextRowFits ==
  ASSUME NEW q \in PosterType, NEW f \in Nat, NEW st, q.pass # "none", Fits(q, f, st)
  PROVE  NextRow(q) \in PosterType /\ Fits(NextRow(q), f, st)
<1>1. q.pass \in Passes \ {"none"} /\ q.todo \ {Row(q)} \in SUBSET Rows
  BY DEF PosterType
<1>2. /\ q.pass = "ingest" => q.todo \ {Row(q)} \subseteq 1..f
      /\ q.pass \in {"backfill", "chain_backfill"} => q.todo \ {Row(q)} \subseteq st
      /\ q.pass = "journal" => \A r, s \in q.todo \ {Row(q)} : r = s
  BY DEF Fits
<1> QED
  BY <1>1, <1>2, StartRowFits DEF NextRow

\* The next scope of a row, or the next row.
LEMMA NextScopeFits ==
  ASSUME NEW q \in PosterType, NEW f \in Nat, NEW st, Fits(q, f, st),
         q.pc \in {"check", "read", "apply", "write"}
  PROVE  NextScope(q) \in PosterType /\ Fits(NextScope(q), f, st)
<1>0. q.pass # "none" /\ q.scope \in PassScopes(q.pass) /\ q.todo # {} /\ q.pc # "upsert"
  BY DEF Fits
<1>1. CASE ScopeAfter(q) # "none"
  <2> DEFINE n == NextScope(q)
  <2>1. n = [q EXCEPT !.pc = "check", !.scope = ScopeAfter(q), !.batch = <<>>, !.left = {},
                      !.old = NoRow]
    BY <1>1 DEF NextScope, Moved
  <2>2. ScopeAfter(q) \in Scopes
    BY <1>1 DEF ScopeAfter, Scopes
  <2>3. ScopeAfter(q) \in PassScopes(q.pass)
    BY <1>0, <1>1 DEF ScopeAfter, PassScopes, PosterType, Passes
  <2>4. <<>> \in Seq(Delta)
    OBVIOUS
  <2> HIDE DEF n
  <2>5. /\ n \in PosterType
        /\ n.pc = "check" /\ n.scope = ScopeAfter(q) /\ n.todo = q.todo /\ n.pass = q.pass
    BY <2>1, <2>2, <2>4 DEF PosterType, Pcs
  <2>6. Row(n) = Row(q)
    BY <2>5 DEF Row
  <2>7. Fits(n, f, st)
    BY <1>0, <2>3, <2>5, <2>6 DEF Fits
  <2> QED
    BY <2>5, <2>7 DEF n
<1>2. CASE ScopeAfter(q) = "none" /\ q.pass = "ingest"
  <2> DEFINE n == NextScope(q)
  <2>1. n = [q EXCEPT !.pc = "link", !.scope = "none", !.batch = <<>>, !.left = {}, !.old = NoRow]
    BY <1>2 DEF NextScope, Moved
  <2>2. <<>> \in Seq(Delta)
    OBVIOUS
  <2> HIDE DEF n
  <2>3. /\ n \in PosterType
        /\ n.pc = "link" /\ n.todo = q.todo /\ n.pass = q.pass
    BY <2>1, <2>2 DEF PosterType, Pcs
  <2>4. Row(n) = Row(q)
    BY <2>3 DEF Row
  <2>5. Fits(n, f, st)
    BY <1>0, <1>2, <2>3, <2>4 DEF Fits
  <2> QED
    BY <2>3, <2>5 DEF n
<1>3. CASE ScopeAfter(q) = "none" /\ q.pass # "ingest"
  BY <1>0, <1>3, NextRowFits DEF NextScope
<1> QED
  BY <1>1, <1>2, <1>3

\* A pass goes on, or gives up, at a place where it can be.
LEMMA AfterErrorFits ==
  ASSUME NEW q \in PosterType, NEW f \in Nat, NEW st, Fits(q, f, st), q.pc # "idle"
  PROVE  AfterError(q) \in PosterType /\ Fits(AfterError(q), f, st)
<1>0. q.pass # "none" /\ q.pc \in Pcs
  BY DEF Fits, PosterType
<1>1. CASE q.pc = "upsert"
  BY <1>1, IdleFits DEF AfterError
<1>2. CASE q.pc = "link"
  BY <1>0, <1>2, NextRowFits DEF AfterError
<1>3. CASE q.pc \notin {"upsert", "link"} /\ q.pass = "journal" /\ q.pc = "check"
  <2> DEFINE n == AfterError(q)
  <2>0. q.scope = "journal"
    BY <1>3 DEF Fits, PassScopes
  <2>1. n = [q EXCEPT !.pc = "read"]
    BY <1>3, <2>0 DEF AfterError
  <2> HIDE DEF n
  <2>2. /\ n \in PosterType
        /\ n.pc = "read" /\ n.todo = q.todo /\ n.pass = q.pass /\ n.scope = q.scope
    BY <2>1 DEF PosterType, Pcs
  <2>3. Fits(n, f, st)
    BY <1>3, <2>2 DEF Fits
  <2> QED
    BY <2>2, <2>3 DEF n
<1>4. CASE /\ q.pc \notin {"upsert", "link"}
           /\ ~(q.pass = "journal" /\ q.pc = "check")
           /\ q.pass = "ingest" \/ q.scope = "tx_fee"
  <2>1. AfterError(q) = NextScope(q)
    BY <1>4 DEF AfterError
  <2> QED
    BY <1>0, <1>4, <2>1, NextScopeFits DEF Pcs
<1>5. CASE /\ q.pc \notin {"upsert", "link"}
           /\ ~(q.pass = "journal" /\ q.pc = "check")
           /\ ~(q.pass = "ingest" \/ q.scope = "tx_fee")
  <2>1. AfterError(q) = Idle
    BY <1>5 DEF AfterError
  <2> QED
    BY <2>1, IdleFits
<1> QED
  BY <1>1, <1>2, <1>3, <1>4, <1>5

\* What is remembered of the races, and the bound on passes, keep their types.
Remembered ==
  /\ overwritten \subseteq Accounts \X Mints
  /\ contended \subseteq EventIds
  /\ undercut \subseteq Posters
  /\ passes \in 0..MaxPasses

\* The places of the passes give the type invariant.
LEMMA PlacedTyped == Placed /\ Remembered => TypeOK
<1> SUFFICES ASSUME Placed, Remembered PROVE TypeOK
  OBVIOUS
<1>1. ASSUME NEW p \in Posters
      PROVE  /\ ~At(p, "idle") => poster[p].todo # {}
             /\ poster[p].pc \in {"check", "read", "apply", "write"} => poster[p].scope # "none"
             /\ poster[p].pc \in {"apply", "write"} =>
                  poster[p].left # {} /\ poster[p].left \subseteq DOMAIN poster[p].batch
  <2>1. Fits(poster[p], filed, pslr)
    BY DEF Placed
  <2>2. "none" \notin PassScopes(poster[p].pass)
    BY DEF PassScopes
  <2> QED
    BY <2>1, <2>2 DEF Fits, BatchFits, At
<1> QED
  BY <1>1 DEF Placed, Remembered, TypeOK, Booking

\* One pass moves to a place that fits, the others stay where they were.
LEMMA MoveFits ==
  ASSUME Placed, NEW p \in Posters, NEW q \in PosterType, Become(p, q),
         Fits(q, filed', pslr'), filed' \in 0..N, filed <= filed', pslr \subseteq pslr'
  PROVE  /\ poster' \in [Posters -> PosterType]
         /\ \A r \in Posters : Fits(poster'[r], filed', pslr')
<1>1. poster' = [poster EXCEPT ![p] = q] /\ poster \in [Posters -> PosterType]
  BY DEF Become, Placed
<1>2. filed \in Nat /\ filed' \in Nat
  BY ConstantsAssumption DEF Placed
<1>3. \A r \in Posters : Fits(poster[r], filed', pslr')
  BY <1>2, FitsGrows DEF Placed
<1> QED
  BY <1>1, <1>3

\* The event of a pass that is posting.
LEMMA EventOfPass ==
  ASSUME Placed, NEW p \in Posters, poster[p].pc \in {"check", "read", "apply", "write"}
  PROVE  /\ Event(p) \in EventIds
         /\ Event(p)[1] = poster[p].scope /\ Event(p)[2] = Row(poster[p])
         /\ poster[p].scope \in PassScopes(poster[p].pass)
         /\ poster[p].todo # {} /\ Row(poster[p]) \in poster[p].todo /\ Row(poster[p]) \in Rows
<1>1. poster[p] \in PosterType /\ Fits(poster[p], filed, pslr)
  BY DEF Placed
<1>2. poster[p].todo # {} /\ poster[p].scope \in PassScopes(poster[p].pass)
  BY <1>1 DEF Fits
<1>3. Row(poster[p]) \in poster[p].todo /\ Row(poster[p]) \in Rows
  BY <1>1, <1>2, RowOfPass
<1>4. poster[p].scope \in Scopes
  BY <1>2 DEF PassScopes, Scopes
<1> QED
  BY <1>2, <1>3, <1>4 DEF Event, EventId, EventIds

\* The delta a pass books next.
LEMMA NextDeltaType ==
  ASSUME Placed, NEW p \in Posters, poster[p].pc \in {"apply", "write"}
  PROVE  /\ Min(poster[p].left) \in poster[p].left
         /\ Min(poster[p].left) \in DOMAIN PostingsOf(Event(p))
         /\ NextDelta(p) \in Delta /\ NextDelta(p).mint \in Mints /\ NextDelta(p).delta \in Int
         /\ NextDelta(p).mint = PostingsOf(Event(p))[Min(poster[p].left)].mint
<1>1. poster[p] \in PosterType /\ BatchFits(poster[p])
  BY DEF Placed, Fits
<1>2. poster[p].left \in SUBSET Nat /\ poster[p].left # {}
  BY <1>1 DEF PosterType, BatchFits
<1>3. Min(poster[p].left) \in poster[p].left
  BY <1>2, MinIsLeast
<1>4. /\ Min(poster[p].left) \in DOMAIN poster[p].batch
      /\ DOMAIN poster[p].batch = DOMAIN PostingsOf(Event(p))
      /\ NextDelta(p).mint = PostingsOf(Event(p))[Min(poster[p].left)].mint
  BY <1>1, <1>3 DEF BatchFits, Event, NextDelta
<1>5. poster[p].batch \in Seq(Delta)
  BY <1>1 DEF PosterType
<1>6. NextDelta(p) \in Delta
  BY <1>4, <1>5 DEF NextDelta
<1> QED
  BY <1>3, <1>4, <1>6 DEF Delta

\* What a commit does to the tables, and where the pass goes on.
LEMMA CommitFacts ==
  ASSUME Placed, NEW p \in Posters, poster[p].pc \in {"apply", "write"},
         NEW old \in Int \cup {NoRow}, Commit(p, old)
  PROVE  /\ bal' = [bal EXCEPT ![AccountOf(Event(p))][NextDelta(p).mint] =
                      Amount(old) + NextDelta(p).delta]
         /\ posting' = [posting EXCEPT ![Event(p)][NextDelta(p).mint] =
                          [entries |-> posting[Event(p)][NextDelta(p).mint].entries + 1,
                           total |-> posting[Event(p)][NextDelta(p).mint].total
                                       + NextDelta(p).delta]]
         /\ bal' \in [Accounts -> [Mints -> Int \cup {NoRow}]]
         /\ posting' \in [EventIds -> [Mints -> [entries : Nat, total : Int]]]
         /\ settled' \subseteq EventIds
         /\ \/ /\ poster[p].left \ {Min(poster[p].left)} = {}
               /\ Become(p, NextScope(poster[p]))
            \/ /\ poster[p].left \ {Min(poster[p].left)} # {}
               /\ Become(p, [poster[p] EXCEPT !.pc = "apply",
                                              !.left = poster[p].left \ {Min(poster[p].left)},
                                              !.old = NoRow])
<1>1. /\ Event(p) \in EventIds /\ AccountOf(Event(p)) \in Accounts
      /\ NextDelta(p).mint \in Mints /\ NextDelta(p).delta \in Int
  BY EventOfPass, EventTypes, NextDeltaType
<1>2. /\ bal \in [Accounts -> [Mints -> Int \cup {NoRow}]]
      /\ posting \in [EventIds -> [Mints -> [entries : Nat, total : Int]]]
      /\ settled \subseteq EventIds
  BY DEF Placed
<1>3. bal' = [bal EXCEPT ![AccountOf(Event(p))][NextDelta(p).mint] =
                Amount(old) + NextDelta(p).delta]
  BY DEF Commit
<1>4. posting' = [posting EXCEPT ![Event(p)][NextDelta(p).mint] =
                    [entries |-> posting[Event(p)][NextDelta(p).mint].entries + 1,
                     total |-> posting[Event(p)][NextDelta(p).mint].total + NextDelta(p).delta]]
  BY DEF Commit
<1>5. Amount(old) + NextDelta(p).delta \in Int
  BY <1>1, AmountType
<1>6. bal' \in [Accounts -> [Mints -> Int \cup {NoRow}]]
  BY <1>1, <1>2, <1>3, <1>5
<1>7. posting' \in [EventIds -> [Mints -> [entries : Nat, total : Int]]]
  <2>1. posting[Event(p)][NextDelta(p).mint] \in [entries : Nat, total : Int]
    BY <1>1, <1>2
  <2> DEFINE v == [entries |-> posting[Event(p)][NextDelta(p).mint].entries + 1,
                   total |-> posting[Event(p)][NextDelta(p).mint].total + NextDelta(p).delta]
  <2>2. v \in [entries : Nat, total : Int]
    BY <1>1, <2>1
  <2> HIDE DEF v
  <2>3. posting' = [posting EXCEPT ![Event(p)][NextDelta(p).mint] = v]
    BY <1>4 DEF v
  <2> QED
    BY <1>1, <1>2, <2>2, <2>3
<1>8. AfterDelta(p)
  BY DEF Commit
<1>9. settled' \subseteq EventIds
  BY <1>1, <1>2, <1>8 DEF AfterDelta, Settle
<1> QED
  BY <1>3, <1>4, <1>6, <1>7, <1>8, <1>9 DEF AfterDelta, Settle

\* After a commit the pass is where it can be.
LEMMA CommitFits ==
  ASSUME Placed, NEW p \in Posters, poster[p].pc \in {"apply", "write"},
         NEW old \in Int \cup {NoRow}, Commit(p, old), UNCHANGED <<filed, pslr>>
  PROVE  /\ poster' \in [Posters -> PosterType]
         /\ \A r \in Posters : Fits(poster'[r], filed', pslr')
<1> DEFINE q == poster[p]
           rest == q.left \ {Min(q.left)}
           n == [q EXCEPT !.pc = "apply", !.left = rest, !.old = NoRow]
<1>1. q \in PosterType /\ Fits(q, filed, pslr) /\ filed \in 0..N /\ filed \in Nat
  BY ConstantsAssumption DEF Placed
<1>2. NextScope(q) \in PosterType /\ Fits(NextScope(q), filed, pslr)
  BY <1>1, NextScopeFits
<1>3. ASSUME rest # {} PROVE n \in PosterType /\ Fits(n, filed, pslr)
  <2>1. rest \in SUBSET Nat /\ rest \subseteq q.left
    BY <1>1 DEF PosterType
  <2> HIDE DEF rest
  <2>2. /\ n \in PosterType
        /\ n.pc = "apply" /\ n.left = rest /\ n.pass = q.pass /\ n.todo = q.todo
        /\ n.scope = q.scope /\ n.batch = q.batch
    BY <1>1, <2>1 DEF PosterType, Pcs
  <2> HIDE DEF n
  <2>3. BatchFits(n)
    BY <1>1, <1>3, <2>1, <2>2 DEF Fits, BatchFits, Row
  <2>4. Row(n) = Row(q)
    BY <2>2 DEF Row
  <2> QED
    BY <1>1, <2>2, <2>3, <2>4 DEF Fits
<1>4. Become(p, NextScope(q)) \/ (rest # {} /\ Become(p, n))
  BY CommitFacts
<1> HIDE DEF q, rest, n
<1> QED
  BY <1>1, <1>2, <1>3, <1>4, MoveFits

\* One step per action: whatever the passes, errors and restarts do, an ingest
\* has stored the row it posts.
LEMMA PlacedStep == Placed /\ [Next]_vars => Placed'
<1> SUFFICES ASSUME Placed, [Next]_vars PROVE Placed'
  OBVIOUS
<1>0. /\ filed \in 0..N /\ filed \in Nat /\ N \in Nat
      /\ pslr \subseteq 1..filed
      /\ linked \subseteq pslr
      /\ journalled \subseteq Rows
      /\ bal \in [Accounts -> [Mints -> Int \cup {NoRow}]]
      /\ posting \in [EventIds -> [Mints -> [entries : Nat, total : Int]]]
      /\ poster \in [Posters -> PosterType]
      /\ \A p \in Posters : poster[p] \in PosterType /\ Fits(poster[p], filed, pslr)
      /\ settled \subseteq EventIds
      /\ tainted \in BOOLEAN
      /\ faults \in 0..MaxFaults
  BY ConstantsAssumption DEF Placed
<1> USE DEF tables
<1>1. ASSUME AppendRow PROVE Placed'
  <2>1. filed' = filed + 1 /\ filed' \in 0..N /\ filed <= filed' /\ filed' \in Nat
    BY <1>0, <1>1 DEF AppendRow
  <2>2. UNCHANGED <<journalled, pslr, linked, bal, posting, poster, settled, tainted, faults>>
    BY <1>1 DEF AppendRow
  <2>3. 1..filed \subseteq 1..filed'
    BY <1>0, <2>1
  <2>4. \A p \in Posters : Fits(poster[p], filed', pslr)
    BY <1>0, <2>1, FitsGrows
  <2> QED
    BY <1>0, <2>1, <2>2, <2>3, <2>4 DEF Placed
<1>2. ASSUME Restart PROVE Placed'
  <2>1. /\ UNCHANGED <<filed, journalled, pslr, linked, bal, posting, settled>>
        /\ poster' = [p \in Posters |-> Idle]
        /\ tainted' = TRUE /\ faults' = faults + 1 /\ faults < MaxFaults
    BY <1>2 DEF Restart, Fault
  <2>2. faults' \in 0..MaxFaults
    BY <1>0, <2>1, ConstantsAssumption
  <2>3. /\ poster' \in [Posters -> PosterType]
        /\ \A p \in Posters : Fits(poster'[p], filed, pslr)
    BY <2>1, IdleFits
  <2> QED
    BY <1>0, <2>1, <2>2, <2>3 DEF Placed
<1>3. ASSUME NEW p \in Posters, NEW pass \in Passes \ {"none"}, NEW todo \in SUBSET Rows,
             Start(p, pass, todo), journalled' \subseteq Rows,
             pass = "ingest" => todo \subseteq 1..filed,
             pass \in {"backfill", "chain_backfill"} => todo \subseteq pslr,
             pass = "journal" => \A r, s \in todo : r = s
      PROVE  Placed'
  <2>1. /\ UNCHANGED <<filed, pslr, linked, bal, posting, settled, faults>>
        /\ Become(p, StartRow(pass, todo)) /\ tainted' \in BOOLEAN
    BY <1>3 DEF Start
  <2>2. StartRow(pass, todo) \in PosterType /\ Fits(StartRow(pass, todo), filed, pslr)
    BY <1>0, <1>3, StartRowFits
  <2>3. /\ poster' \in [Posters -> PosterType]
        /\ \A r \in Posters : Fits(poster'[r], filed', pslr')
    BY <1>0, <2>1, <2>2, MoveFits
  <2> QED
    BY <1>0, <1>3, <2>1, <2>3 DEF Placed
<1>4. ASSUME NEW p \in Posters, StartIngest(p) PROVE Placed'
  <2>1. 1..filed \in SUBSET Rows /\ "ingest" \in Passes \ {"none"}
    BY <1>0 DEF Rows, Passes
  <2> QED
    BY <1>0, <1>3, <1>4, <2>1 DEF StartIngest
<1>5. ASSUME NEW p \in Posters, StartBackfill(p) PROVE Placed'
  <2>1. PICK s \in Sessions : Start(p, "backfill", InAccount(s, pslr))
    BY <1>5 DEF StartBackfill
  <2>2. InAccount(s, pslr) \subseteq pslr /\ "backfill" \in Passes \ {"none"}
    BY DEF Passes, InAccount
  <2>3. pslr \subseteq Rows
    BY <1>0 DEF Rows
  <2> QED
    BY <1>0, <1>3, <1>5, <2>1, <2>2, <2>3 DEF StartBackfill
<1>6. ASSUME NEW p \in Posters, StartChainBackfill(p) PROVE Placed'
  <2>1. linked \in SUBSET Rows /\ "chain_backfill" \in Passes \ {"none"}
    BY <1>0 DEF Rows, Passes
  <2> QED
    BY <1>0, <1>3, <1>6, <2>1 DEF StartChainBackfill
<1>7. ASSUME NEW p \in Posters, StartJournal(p) PROVE Placed'
  <2>1. PICK r \in Rows : /\ Start(p, "journal", {r})
                          /\ journalled' = journalled \cup {r}
    BY <1>7 DEF StartJournal
  <2>2. {r} \in SUBSET Rows /\ "journal" \in Passes \ {"none"}
    BY DEF Passes
  <2> QED
    BY <1>0, <1>3, <2>1, <2>2
<1>8. ASSUME NEW p \in Posters, Upsert(p) PROVE Placed'
  <2> DEFINE q == poster[p]
             n == [q EXCEPT !.pc = "check"]
  <2>1. /\ q.pc = "upsert" /\ Become(p, n) /\ pslr' = pslr \cup {Row(q)}
        /\ UNCHANGED <<filed, journalled, linked, bal, posting, settled, tainted, faults>>
    BY <1>8 DEF Upsert, At
  <2>2. q \in PosterType /\ Fits(q, filed, pslr)
    BY <1>0
  <2>3. q.pass = "ingest" /\ q.todo # {} /\ q.todo \subseteq 1..filed
    BY <2>1, <2>2 DEF Fits
  <2>4. Row(q) \in 1..filed
    BY <2>2, <2>3, RowOfPass
  <2>5. /\ n \in PosterType
        /\ n.pc = "check" /\ n.pass = q.pass /\ n.todo = q.todo /\ n.scope = q.scope
    BY <2>2 DEF PosterType, Pcs
  <2>6. pslr' \subseteq 1..filed' /\ linked' \subseteq pslr'
    BY <1>0, <2>1, <2>4
  <2> HIDE DEF n, q
  <2>7. Fits(n, filed', pslr')
    BY <2>1, <2>2, <2>3, <2>5 DEF Fits, Row
  <2>8. /\ poster' \in [Posters -> PosterType]
        /\ \A r \in Posters : Fits(poster'[r], filed', pslr')
    <3>1. n \in PosterType /\ Become(p, n) /\ pslr \subseteq pslr'
      BY <2>1, <2>5 DEF q, n
    <3>2. filed' \in 0..N /\ filed <= filed'
      BY <1>0, <2>1
    <3> QED
      BY <2>7, <3>1, <3>2, MoveFits
  <2> QED
    BY <1>0, <2>1, <2>6, <2>8 DEF Placed
<1>9. ASSUME NEW p \in Posters, NEW q \in PosterType, Become(p, q), Fits(q, filed, pslr),
             UNCHANGED <<filed, pslr, linked, journalled, bal, posting>>,
             settled' \subseteq EventIds, tainted' \in BOOLEAN, faults' \in 0..MaxFaults
      PROVE  Placed'
  <2>1. /\ poster' \in [Posters -> PosterType]
        /\ \A r \in Posters : Fits(poster'[r], filed', pslr')
    BY <1>0, <1>9, MoveFits
  <2> QED
    BY <1>0, <1>9, <2>1 DEF Placed
<1>10. ASSUME NEW p \in Posters, Settle(p), poster[p].pc \in {"check", "read"},
              UNCHANGED <<filed, pslr, linked, journalled, bal, posting, faults>>,
              tainted' \in BOOLEAN
       PROVE  Placed'
  <2>1. Event(p) \in EventIds
    BY <1>10, EventOfPass
  <2>2. settled' \subseteq EventIds /\ Become(p, NextScope(poster[p]))
    BY <1>0, <1>10, <2>1 DEF Settle
  <2>3. NextScope(poster[p]) \in PosterType /\ Fits(NextScope(poster[p]), filed, pslr)
    BY <1>0, <1>10, NextScopeFits
  <2> QED
    BY <1>0, <1>9, <1>10, <2>2, <2>3
<1>11. ASSUME NEW p \in Posters, CheckApplied(p) PROVE Placed'
  <2>1. /\ poster[p].pc = "check"
        /\ UNCHANGED <<filed, pslr, linked, journalled, bal, posting, tainted, faults>>
    BY <1>11 DEF CheckApplied, At
  <2>2. CASE Settle(p)
    BY <1>0, <1>10, <2>1, <2>2
  <2>3. CASE Become(p, [poster[p] EXCEPT !.pc = "read"]) /\ UNCHANGED settled
    <3> DEFINE q == poster[p]
               n == [q EXCEPT !.pc = "read"]
    <3>1. q \in PosterType /\ Fits(q, filed, pslr)
      BY <1>0
    <3>2. /\ n \in PosterType
          /\ n.pc = "read" /\ n.pass = q.pass /\ n.todo = q.todo /\ n.scope = q.scope
      BY <3>1 DEF PosterType, Pcs
    <3> HIDE DEF n
    <3>3. Fits(n, filed, pslr)
      BY <2>1, <3>1, <3>2 DEF Fits, Row
    <3> QED
      BY <1>0, <1>9, <2>1, <2>3, <3>2, <3>3 DEF n
  <2> QED
    BY <1>11, <2>2, <2>3 DEF CheckApplied
<1>12. ASSUME NEW p \in Posters, ReadRunning(p) PROVE Placed'
  <2> DEFINE e == Event(p)
             capped == CapOpenDebits(e, bal[AccountOf(e)], PostingsOf(e))
             q == poster[p]
             n == [q EXCEPT !.pc = "apply", !.batch = capped, !.left = NonZero(capped)]
  <2>1. /\ q.pc = "read"
        /\ UNCHANGED <<filed, pslr, linked, journalled, bal, posting, faults>>
        /\ tainted' \in BOOLEAN
        /\ \/ Settle(p)
           \/ NonZero(capped) # {} /\ Become(p, n) /\ UNCHANGED settled
    BY <1>0, <1>12 DEF ReadRunning, At
  <2>2. CASE Settle(p)
    BY <1>0, <1>10, <2>1, <2>2
  <2>3. CASE NonZero(capped) # {} /\ Become(p, n) /\ UNCHANGED settled
    <3>1. e \in EventIds /\ AccountOf(e) \in Accounts
      BY <2>1, EventOfPass, EventTypes
    <3>2. bal[AccountOf(e)] \in [Mints -> Int \cup {NoRow}]
      BY <1>0, <3>1
    <3>3. /\ capped \in Seq(Delta)
          /\ DOMAIN capped = DOMAIN PostingsOf(e)
          /\ \A i \in DOMAIN capped : capped[i].mint = PostingsOf(e)[i].mint
      BY <3>1, <3>2, CapType
    <3>4. q \in PosterType /\ Fits(q, filed, pslr)
      BY <1>0
    <3>5. NonZero(capped) \subseteq DOMAIN capped /\ NonZero(capped) \in SUBSET Nat
      BY <3>3 DEF NonZero
    <3> HIDE DEF capped
    <3>6. /\ n \in PosterType
          /\ n.pc = "apply" /\ n.pass = q.pass /\ n.todo = q.todo /\ n.scope = q.scope
          /\ n.batch = capped /\ n.left = NonZero(capped)
      BY <3>3, <3>4, <3>5 DEF PosterType, Pcs
    <3>7. e = EventId(q.scope, Row(q))
      BY DEF Event
    <3> HIDE DEF n, e
    <3>8. Row(n) = Row(q)
      BY <3>6 DEF Row
    <3>9. BatchFits(n)
      BY <2>3, <3>3, <3>5, <3>6, <3>7, <3>8 DEF BatchFits
    <3>10. Fits(n, filed, pslr)
      BY <2>1, <3>4, <3>6, <3>8, <3>9 DEF Fits
    <3> QED
      BY <1>0, <1>9, <2>1, <2>3, <3>6, <3>10
  <2> QED
    BY <2>1, <2>2, <2>3
<1>13. ASSUME NEW p \in Posters, NEW old \in Int \cup {NoRow}, Commit(p, old),
              poster[p].pc \in {"apply", "write"},
              UNCHANGED <<filed, journalled, pslr, linked, tainted, faults>>
       PROVE  Placed'
  <2>1. /\ bal' \in [Accounts -> [Mints -> Int \cup {NoRow}]]
        /\ posting' \in [EventIds -> [Mints -> [entries : Nat, total : Int]]]
        /\ settled' \subseteq EventIds
    BY <1>13, CommitFacts
  <2>2. /\ poster' \in [Posters -> PosterType]
        /\ \A r \in Posters : Fits(poster'[r], filed', pslr')
    BY <1>13, CommitFits
  <2> QED
    BY <1>0, <1>13, <2>1, <2>2 DEF Placed
<1>14. ASSUME NEW p \in Posters, WriteBalance(p) PROVE Placed'
  <2>1. poster[p].pc = "write" /\ Commit(p, poster[p].old)
        /\ UNCHANGED <<filed, journalled, pslr, linked, tainted, faults>>
    BY <1>14 DEF WriteBalance, At
  <2>2. poster[p].old \in Int \cup {NoRow}
    BY <1>0 DEF PosterType
  <2> QED
    BY <1>13, <2>1, <2>2
<1>15. ASSUME NEW p \in Posters, SelectBalance(p) PROVE Placed'
  <2> DEFINE q == poster[p]
             now == bal[AccountOf(Event(p))][NextDelta(p).mint]
             n == [q EXCEPT !.pc = "write", !.old = now]
  <2>1. /\ q.pc = "apply" /\ Become(p, n)
        /\ UNCHANGED <<filed, journalled, pslr, linked, bal, posting, settled, tainted, faults>>
    BY <1>15 DEF SelectBalance, At
  <2>2. q \in PosterType /\ Fits(q, filed, pslr)
    BY <1>0
  <2>3. now \in Int \cup {NoRow}
    <3>1. /\ Event(p) \in EventIds /\ AccountOf(Event(p)) \in Accounts /\ NextDelta(p).mint \in Mints
      BY <2>1, EventOfPass, EventTypes, NextDeltaType
    <3> QED
      BY <1>0, <3>1
  <2> HIDE DEF now
  <2>4. /\ n \in PosterType
        /\ n.pc = "write" /\ n.pass = q.pass /\ n.todo = q.todo /\ n.scope = q.scope
        /\ n.batch = q.batch /\ n.left = q.left
    BY <2>2, <2>3 DEF PosterType, Pcs
  <2> HIDE DEF n
  <2>5. BatchFits(n)
    BY <2>1, <2>2, <2>4 DEF Fits, BatchFits, Row
  <2>6. Fits(n, filed, pslr)
    BY <2>1, <2>2, <2>4, <2>5 DEF Fits, Row
  <2> QED
    BY <1>0, <1>9, <2>1, <2>4, <2>6
<1>17. ASSUME NEW p \in Posters, LinkChain(p) PROVE Placed'
  <2>1. /\ poster[p].pc = "link" /\ Become(p, NextRow(poster[p]))
        /\ linked' = linked \cup {Row(poster[p])}
        /\ UNCHANGED <<filed, journalled, pslr, bal, posting, settled, tainted, faults>>
    BY <1>17 DEF LinkChain, At
  <2>2. poster[p] \in PosterType /\ Fits(poster[p], filed, pslr)
    BY <1>0
  <2>3. poster[p].pass = "ingest" /\ Row(poster[p]) \in pslr
    BY <2>1, <2>2 DEF Fits
  <2>4. NextRow(poster[p]) \in PosterType /\ Fits(NextRow(poster[p]), filed, pslr)
    BY <1>0, <2>2, <2>3, NextRowFits
  <2>5. /\ poster' \in [Posters -> PosterType]
        /\ \A r \in Posters : Fits(poster'[r], filed', pslr')
    BY <1>0, <2>1, <2>4, MoveFits
  <2> QED
    BY <1>0, <2>1, <2>3, <2>5 DEF Placed
<1>18. ASSUME NEW p \in Posters, DbError(p) PROVE Placed'
  <2>1. /\ poster[p].pc # "idle" /\ Become(p, AfterError(poster[p]))
        /\ tainted' = TRUE /\ faults' = faults + 1 /\ faults < MaxFaults
        /\ UNCHANGED <<filed, journalled, pslr, linked, bal, posting, settled>>
    BY <1>18 DEF DbError, Fault, At
  <2>2. faults' \in 0..MaxFaults
    BY <1>0, <2>1, ConstantsAssumption
  <2>3. AfterError(poster[p]) \in PosterType /\ Fits(AfterError(poster[p]), filed, pslr)
    BY <1>0, <2>1, AfterErrorFits
  <2> QED
    BY <1>0, <1>9, <2>1, <2>2, <2>3
<1>19. ASSUME UNCHANGED vars PROVE Placed'
  <2>1. UNCHANGED <<filed, journalled, pslr, linked, bal, posting, poster, settled, tainted, faults>>
    BY <1>19 DEF vars
  <2> QED
    BY <1>0, <2>1 DEF Placed
<1> QED
  BY <1>1, <1>2, <1>4, <1>5, <1>6, <1>7, <1>8, <1>11, <1>12, <1>14, <1>15, <1>17, <1>18, <1>19
  DEF Next

\* The initial state is placed.
LEMMA PlacedInit == Init => Placed
<1> SUFFICES ASSUME Init PROVE Placed
  OBVIOUS
<1>1. /\ poster \in [Posters -> PosterType]
      /\ \A p \in Posters : Fits(poster[p], filed, pslr)
  BY IdleFits DEF Init
<1>2. posting \in [EventIds -> [Mints -> [entries : Nat, total : Int]]]
  BY DEF Init
<1>3. bal \in [Accounts -> [Mints -> Int \cup {NoRow}]]
  BY DEF Init
<1>4. filed \in 0..N /\ faults \in 0..MaxFaults
  BY ConstantsAssumption DEF Init
<1> QED
  BY <1>1, <1>2, <1>3, <1>4 DEF Init, Placed

\* Every state is placed.
LEMMA PlacedInvariant == Spec => []Placed
BY PlacedInit, PlacedStep, PTL DEF Spec

\* What is remembered of the races stays typed.
LEMMA RememberedStep == Placed /\ Remembered /\ [Next]_vars => Remembered'
<1> SUFFICES ASSUME Placed, Remembered, [Next]_vars PROVE Remembered'
  OBVIOUS
<1> USE DEF races
<1>1. ASSUME UNCHANGED races, UNCHANGED passes PROVE Remembered'
  BY <1>1 DEF Remembered
<1>2. CASE AppendRow \/ Restart \/ UNCHANGED vars
  BY <1>1, <1>2 DEF AppendRow, Restart, vars
<1>3. ASSUME NEW p \in Posters, NEW pass, NEW todo, Start(p, pass, todo) PROVE Remembered'
  BY <1>3, ConstantsAssumption DEF Start, Remembered
<1>4. ASSUME NEW p \in Posters,
             StartIngest(p) \/ StartBackfill(p) \/ StartChainBackfill(p) \/ StartJournal(p)
      PROVE  Remembered'
  BY <1>3, <1>4 DEF StartIngest, StartBackfill, StartChainBackfill, StartJournal
<1>5. ASSUME NEW p \in Posters, Upsert(p) \/ SelectBalance(p) \/ LinkChain(p) \/ DbError(p)
      PROVE  Remembered'
  BY <1>1, <1>5 DEF Upsert, SelectBalance, LinkChain, DbError
<1>6. ASSUME NEW p \in Posters, CheckApplied(p) PROVE Remembered'
  <2>1. Event(p) \in EventIds
    BY <1>6, EventOfPass DEF CheckApplied, At
  <2>2. /\ UNCHANGED <<overwritten, undercut, passes>>
        /\ contended' \in {contended, contended \cup {Event(p)}}
    BY <1>6 DEF CheckApplied
  <2> QED
    BY <2>1, <2>2 DEF Remembered
<1>7. ASSUME NEW p \in Posters, ReadRunning(p) PROVE Remembered'
  BY <1>7 DEF ReadRunning, Remembered
<1>8. ASSUME NEW p \in Posters, WriteBalance(p) PROVE Remembered'
  <2>1. Key(p) \in Accounts \X Mints
    BY <1>8, EventOfPass, EventTypes, NextDeltaType DEF WriteBalance, At, Key
  <2>2. /\ UNCHANGED <<contended, passes>>
        /\ overwritten' \in {overwritten, overwritten \cup {Key(p)}}
        /\ undercut' \in {undercut, undercut \cup Undercuts(p)}
    BY <1>8 DEF WriteBalance
  <2>3. Undercuts(p) \subseteq Posters
    BY DEF Undercuts
  <2> QED
    BY <2>1, <2>2, <2>3 DEF Remembered
<1> QED
  BY <1>2, <1>4, <1>5, <1>6, <1>7, <1>8 DEF Next

\* Any number of concurrent passes keeps the tables typed, stores only rows of
\* the file and links only stored rows.
THEOREM WalletTypeCorrect == Spec => []TypeOK
<1>1. Init => Remembered
  BY ConstantsAssumption DEF Init, Remembered
<1>2. Placed /\ Remembered => TypeOK
  BY PlacedTyped
<1> QED
  BY <1>1, <1>2, PlacedInvariant, RememberedStep, PTL DEF Spec

-----------------------------------------------------------------------------
(* What is booked.                                                         *)

\* No other step touches a balance or a posting, and no row is ever removed.
LEMMA OnlyCommitsBook ==
  ASSUME [Next]_vars
  PROVE  /\ UNCHANGED <<bal, posting>> \/ \E p \in Posters : WriteBalance(p)
         /\ pslr \subseteq pslr'
<1> USE DEF tables
<1>1. ASSUME NEW p \in Posters,
             \/ StartIngest(p) \/ StartBackfill(p) \/ StartChainBackfill(p) \/ StartJournal(p)
             \/ Upsert(p) \/ CheckApplied(p) \/ ReadRunning(p) \/ SelectBalance(p)
             \/ LinkChain(p) \/ DbError(p)
      PROVE  UNCHANGED <<bal, posting>> /\ pslr \subseteq pslr'
  BY <1>1 DEF StartIngest, StartBackfill, StartChainBackfill, StartJournal, Start, Upsert,
              CheckApplied, ReadRunning, SelectBalance, LinkChain, DbError
<1>2. ASSUME NEW p \in Posters, WriteBalance(p) PROVE pslr' = pslr
  BY <1>2 DEF WriteBalance
<1>3. ASSUME AppendRow \/ Restart \/ UNCHANGED vars
      PROVE  UNCHANGED <<bal, posting>> /\ pslr \subseteq pslr'
  BY <1>3 DEF AppendRow, Restart, vars
<1> QED
  BY <1>1, <1>2, <1>3 DEF Next

\* What a booking step commits, and where its pass is.
LEMMA BookingFacts ==
  ASSUME Placed, NEW p \in Posters, WriteBalance(p)
  PROVE  /\ poster[p].pc = "write"
         /\ poster[p].old \in Int \cup {NoRow}
         /\ Commit(p, poster[p].old)
         /\ UNCHANGED <<filed, journalled, pslr, linked, tainted, contended, faults>>
<1>1. poster[p] \in PosterType
  BY DEF Placed
<1> QED
  BY <1>1 DEF WriteBalance, At, PosterType

\* A booked event changes the entries and the total of one event id and one mint.
LEMMA BookingChanges ==
  ASSUME Placed, NEW p \in Posters, WriteBalance(p), NEW e \in EventIds, NEW m \in Mints
  PROVE  /\ e = Event(p) /\ m = NextDelta(p).mint =>
              /\ posting'[e][m].entries = posting[e][m].entries + 1
              /\ posting'[e][m].total = posting[e][m].total + NextDelta(p).delta
         /\ ~(e = Event(p) /\ m = NextDelta(p).mint) => posting'[e][m] = posting[e][m]
<1>1. posting \in [EventIds -> [Mints -> [entries : Nat, total : Int]]]
  BY DEF Placed
<1>2. poster[p].old \in Int \cup {NoRow} /\ Commit(p, poster[p].old)
  BY BookingFacts
<1>3. poster[p].pc \in {"apply", "write"}
  BY BookingFacts
<1>4. posting' = [posting EXCEPT ![Event(p)][NextDelta(p).mint] =
                    [entries |-> posting[Event(p)][NextDelta(p).mint].entries + 1,
                     total |-> posting[Event(p)][NextDelta(p).mint].total + NextDelta(p).delta]]
  BY <1>2, <1>3, CommitFacts
<1>5. Event(p) \in EventIds /\ NextDelta(p).mint \in Mints
  BY <1>3, EventOfPass, NextDeltaType
<1> QED
  BY <1>1, <1>4, <1>5

\* A row is booked only once it is stored, whatever passes run side by side and
\* wherever they are cut off (ingest_lifecycle_rows_best_effort).
THEOREM PostedRowsAreStored == Spec => []PostedIsStored
<1>1. Init => PostedIsStored
  BY DEF Init, PostedIsStored
<1>2. Placed /\ PostedIsStored /\ [Next]_vars => PostedIsStored'
  <2> SUFFICES ASSUME Placed, PostedIsStored, [Next]_vars PROVE PostedIsStored'
    OBVIOUS
  <2>1. CASE UNCHANGED <<bal, posting>>
    BY <2>1, OnlyCommitsBook DEF PostedIsStored
  <2>2. ASSUME NEW p \in Posters, WriteBalance(p) PROVE PostedIsStored'
    <3>1. pslr' = pslr /\ poster[p].pc \in {"apply", "write"}
      BY <2>2, BookingFacts
    <3>2. Event(p)[1] # "journal" => Event(p)[2] \in pslr
      <4>1. /\ Event(p)[1] = poster[p].scope /\ Event(p)[2] = Row(poster[p])
            /\ poster[p].scope \in PassScopes(poster[p].pass)
            /\ Row(poster[p]) \in poster[p].todo
        BY <3>1, EventOfPass
      <4>2. Fits(poster[p], filed, pslr)
        BY DEF Placed
      <4> QED
        BY <3>1, <4>1, <4>2 DEF Fits, PassScopes
    <3>3. ASSUME NEW e \in EventIds, NEW m \in Mints, e[1] # "journal",
                 posting'[e][m].entries > 0
          PROVE  e[2] \in pslr'
      <4>1. CASE e = Event(p) /\ m = NextDelta(p).mint
        BY <3>1, <3>2, <3>3, <4>1
      <4>2. CASE ~(e = Event(p) /\ m = NextDelta(p).mint)
        <5>1. posting'[e][m] = posting[e][m]
          BY <2>2, <4>2, BookingChanges
        <5> QED
          BY <3>1, <3>3, <5>1 DEF PostedIsStored
      <4> QED
        BY <4>1, <4>2
    <3> QED
      BY <3>3 DEF PostedIsStored
  <2> QED
    BY <2>1, <2>2, OnlyCommitsBook
<1> QED
  BY <1>1, <1>2, PlacedInvariant, PTL DEF Spec

-----------------------------------------------------------------------------
(* Overlapping passes.  The ingest is throttled by a time stamp and not by *)
(* a lock, so any number of passes may be at the same event.               *)

\* The event a pass is at.
EventOf(q) == EventId(q.scope, Row(q))

\* Nothing is booked under an event id in the posting table post.
NoEntries(e, post) == \A m \in Mints : post[e][m].entries = 0

\* The deltas of the event of a pass for a mint that are no longer to be booked.
DoneOf(q, m) ==
  {i \in DOMAIN PostingsOf(EventOf(q)) \ q.left : PostingsOf(EventOf(q))[i].mint = m}

\* A pass that is about to book an event found nothing booked for it, and while
\* it books, the entries are those of the deltas it has dealt with, unless the
\* event is one of the contended ones, con.
OnceAt(q, post, con) ==
  EventOf(q) \notin con =>
    /\ q.pc = "read" \/ (q.pc = "check" /\ q.scope = "journal") => NoEntries(EventOf(q), post)
    /\ q.pc \in {"apply", "write"} =>
         \A m \in Mints : post[EventOf(q)][m].entries <= Cardinality(DoneOf(q, m))

\* A pass that has found its event unbooked and is not through with it.
Within(q) == q.pc \in {"read", "apply", "write"} \/ (q.pc = "check" /\ q.scope = "journal")

\* No pass but p is within the event of q, if q is and the event is not in con.
Only(p, q, con) ==
  Within(q) /\ EventOf(q) \notin con =>
    \A r \in Posters \ {p} : Within(poster[r]) => EventOf(poster[r]) # EventOf(q)

Exclusive == \A p \in Posters : Only(p, poster[p], contended)

\* A journal event is booked by the pass that appends it, and by no other.
JournalFresh == \A r \in Rows \ journalled : NoEntries(EventId("journal", r), posting)

\* The inductive invariant behind PostedAtMostOnce.
Once == /\ PostedAtMostOnce /\ JournalFresh /\ Exclusive
        /\ \A p \in Posters : OnceAt(poster[p], posting, contended)

\* A pass between two events has nothing booked to account for.
Quiet(q) == q.pc \in {"idle", "upsert", "link"} \/ (q.pc = "check" /\ q.scope # "journal")

\* Every pass but the journal's starts a row quietly.
LEMMA StartRowQuiet ==
  ASSUME NEW pass, NEW todo, pass = "journal" => todo = {}
  PROVE  Quiet(StartRow(pass, todo))
<1>1. CASE todo = {}
  BY <1>1 DEF StartRow, Idle, Quiet
<1>2. CASE todo # {}
  <2>1. FirstScope(pass) # "journal"
    BY <1>2 DEF FirstScope
  <2> QED
    BY <1>2, <2>1 DEF StartRow, Quiet
<1> QED
  BY <1>1, <1>2

\* So a pass goes on to its next row and its next scope quietly.
LEMMA NextQuiet ==
  ASSUME NEW q \in PosterType, NEW f, NEW st, Fits(q, f, st), q.pc # "idle"
  PROVE  Quiet(NextRow(q)) /\ Quiet(NextScope(q))
<1>1. Row(q) \in q.todo
  BY RowOfPass DEF Fits
<1>2. q.pass = "journal" => q.todo \ {Row(q)} = {}
  BY <1>1 DEF Fits
<1>3. Quiet(NextRow(q))
  BY <1>2, StartRowQuiet DEF NextRow
<1>4. ASSUME NEW pc, NEW scope,
             pc = "link" \/ (pc = "check" /\ scope # "journal")
      PROVE  Quiet(Moved(q, pc, scope))
  BY <1>4 DEF Quiet, Moved, PosterType
<1>5. ScopeAfter(q) # "journal"
  BY DEF ScopeAfter
<1> QED
  BY <1>3, <1>4, <1>5 DEF NextScope

\* The deltas of an event are finitely many.
LEMMA DoneFinite ==
  ASSUME NEW q, EventOf(q) \in EventIds, NEW m
  PROVE  /\ IsFiniteSet(DoneOf(q, m))
         /\ Cardinality(DoneOf(q, m)) \in Nat
<1>1. PICK n \in Nat : DOMAIN PostingsOf(EventOf(q)) = 1..n
  BY EventTypes
<1>2. IsFiniteSet(1..n)
  BY FS_Interval
<1>3. DoneOf(q, m) \in SUBSET (1..n)
  BY <1>1 DEF DoneOf
<1> QED
  BY <1>2, <1>3, FS_Subset, FS_CardinalityType

\* Quiet passes are in order whatever is booked.
LEMMA QuietOnce ==
  ASSUME NEW q, NEW post, NEW con, Quiet(q)
  PROVE  OnceAt(q, post, con) /\ ~Within(q)
BY DEF Quiet, OnceAt, Within

\* The journal pass works on the row it has appended.
Owned(q, jr) == q.pass = "journal" => q.todo \subseteq jr

JournalOwned == \A p \in Posters : Owned(poster[p], journalled)

\* Going on with a pass, a pass keeps to the rows it has.
Follows(r, q) == r.pass = "journal" => q.pass = "journal" /\ r.todo \subseteq q.todo

\* However a pass goes on, it follows the pass it was.
LEMMA NextFollows ==
  ASSUME NEW q \in PosterType
  PROVE  Follows(Idle, q) /\ Follows(NextRow(q), q) /\ Follows(NextScope(q), q)
           /\ Follows(AfterError(q), q)
<1>1. Follows(Idle, q)
  BY DEF Follows, Idle
<1>2. Follows(NextRow(q), q)
  BY DEF Follows, NextRow, StartRow, Idle
<1>3. ASSUME NEW pc, NEW scope
      PROVE  Follows(Moved(q, pc, scope), q)
  BY DEF Follows, Moved, PosterType
<1>4. Follows(NextScope(q), q)
  BY <1>2, <1>3 DEF NextScope
<1>5. Follows([q EXCEPT !.pc = "read"], q)
  BY DEF Follows, PosterType
<1>6. AfterError(q) \in {Idle, NextRow(q), NextScope(q), [q EXCEPT !.pc = "read"]}
  BY DEF AfterError
<1> QED
  BY <1>1, <1>2, <1>4, <1>5, <1>6

\* Rows are never taken back from the journal, and a step of a pass starts it or
\* follows it.
LEMMA JournalOwnedStep == Placed /\ JournalOwned /\ [Next]_vars => JournalOwned'
<1> SUFFICES ASSUME Placed, JournalOwned, [Next]_vars PROVE JournalOwned'
  OBVIOUS
<1> USE DEF tables
<1>0. /\ poster \in [Posters -> PosterType]
      /\ \A p \in Posters : poster[p] \in PosterType
  BY DEF Placed
<1>1. ASSUME journalled \subseteq journalled', UNCHANGED poster PROVE JournalOwned'
  BY <1>1 DEF JournalOwned, Owned
<1>2. ASSUME NEW p \in Posters, NEW q, Become(p, q), journalled \subseteq journalled',
             Owned(q, journalled')
      PROVE  JournalOwned'
  <2>1. \A r \in Posters : poster'[r] = IF r = p THEN q ELSE poster[r]
    BY <1>0, <1>2 DEF Become
  <2> QED
    BY <1>2, <2>1 DEF JournalOwned, Owned
<1>3. ASSUME NEW p \in Posters, NEW q, Become(p, q), UNCHANGED journalled,
             Follows(q, poster[p])
      PROVE  JournalOwned'
  <2>1. Owned(q, journalled')
    BY <1>3 DEF JournalOwned, Owned, Follows
  <2> QED
    BY <1>2, <1>3, <2>1
<1>4. CASE AppendRow \/ UNCHANGED vars
  BY <1>1, <1>4 DEF AppendRow, vars
<1>5. CASE Restart
  BY <1>5 DEF Restart, JournalOwned, Owned, Idle
<1>6. ASSUME NEW p \in Posters, StartIngest(p) \/ StartBackfill(p) \/ StartChainBackfill(p)
      PROVE  JournalOwned'
  <2>0. PICK pass \in Passes \ {"journal"} : \E todo : Start(p, pass, todo)
    BY <1>6 DEF StartIngest, StartBackfill, StartChainBackfill, Passes
  <2>1. PICK todo : Start(p, pass, todo)
    BY <2>0
  <2>2. Owned(StartRow(pass, todo), journalled')
    BY DEF StartRow, Idle, Owned
  <2> QED
    BY <1>2, <1>6, <2>1, <2>2 DEF StartIngest, StartBackfill, StartChainBackfill, Start
<1>7. ASSUME NEW p \in Posters, StartJournal(p) PROVE JournalOwned'
  <2>1. PICK r \in Rows \ journalled : /\ Become(p, StartRow("journal", {r}))
                                       /\ journalled' = journalled \cup {r}
    BY <1>7 DEF StartJournal, Start
  <2>2. Owned(StartRow("journal", {r}), journalled')
    BY <2>1 DEF StartRow, Owned
  <2> QED
    BY <1>2, <2>1, <2>2
<1>8. ASSUME NEW p \in Posters, NEW pc, Become(p, [poster[p] EXCEPT !.pc = pc]),
             UNCHANGED journalled
      PROVE  JournalOwned'
  <2>1. Follows([poster[p] EXCEPT !.pc = pc], poster[p])
    BY <1>0 DEF Follows, PosterType
  <2> QED
    BY <1>3, <1>8, <2>1
<1>9. ASSUME NEW p \in Posters, UNCHANGED journalled,
             \/ Become(p, NextScope(poster[p])) \/ Become(p, NextRow(poster[p]))
             \/ Become(p, AfterError(poster[p]))
      PROVE  JournalOwned'
  BY <1>0, <1>3, <1>9, NextFollows
<1>10. ASSUME NEW p \in Posters, Upsert(p) PROVE JournalOwned'
  BY <1>8, <1>10 DEF Upsert
<1>10a. ASSUME NEW p \in Posters, SelectBalance(p) PROVE JournalOwned'
  <2>1. PICK x : Become(p, [poster[p] EXCEPT !.pc = "write", !.old = x]) /\ UNCHANGED journalled
    BY <1>10a DEF SelectBalance
  <2>2. Follows([poster[p] EXCEPT !.pc = "write", !.old = x], poster[p])
    BY <1>0 DEF Follows, PosterType
  <2> QED
    BY <1>3, <2>1, <2>2
<1>11. ASSUME NEW p \in Posters, CheckApplied(p) PROVE JournalOwned'
  BY <1>8, <1>9, <1>11 DEF CheckApplied, Settle
<1>12. ASSUME NEW p \in Posters, ReadRunning(p) PROVE JournalOwned'
  <2> DEFINE e == Event(p)
             capped == CapOpenDebits(e, bal[AccountOf(e)], PostingsOf(e))
             q == poster[p]
             n == [q EXCEPT !.pc = "apply", !.batch = capped, !.left = NonZero(capped)]
  <2>1. UNCHANGED journalled /\ (Become(p, NextScope(q)) \/ Become(p, n))
    BY <1>12 DEF ReadRunning, Settle
  <2> HIDE DEF capped
  <2>2. Follows(n, q)
    BY <1>0 DEF Follows, PosterType
  <2> HIDE DEF n
  <2> QED
    BY <1>3, <1>9, <2>1, <2>2
<1>13. ASSUME NEW p \in Posters, LinkChain(p) \/ DbError(p) PROVE JournalOwned'
  BY <1>9, <1>13 DEF LinkChain, DbError
<1>14. ASSUME NEW p \in Posters, WriteBalance(p) PROVE JournalOwned'
  <2> DEFINE q == poster[p]
             rest == q.left \ {Min(q.left)}
             n == [q EXCEPT !.pc = "apply", !.left = rest, !.old = NoRow]
  <2>1. UNCHANGED journalled /\ (Become(p, NextScope(q)) \/ Become(p, n))
    BY <1>14, BookingFacts, CommitFacts
  <2> HIDE DEF rest
  <2>2. Follows(n, q)
    BY <1>0 DEF Follows, PosterType
  <2> HIDE DEF n
  <2> QED
    BY <1>3, <1>9, <2>1, <2>2
<1> QED
  BY <1>4, <1>5, <1>6, <1>7, <1>10, <1>10a, <1>11, <1>12, <1>13, <1>14 DEF Next

\* The first event a pass books, the next one of a batch and the last one: the
\* entries stay those of the deltas dealt with, as long as no second pass is let
\* in to the event.
LEMMA OnceStep == Placed /\ Placed' /\ JournalOwned /\ Once /\ [Next]_vars => Once'
<1> SUFFICES ASSUME Placed, Placed', JournalOwned, Once, [Next]_vars PROVE Once'
  OBVIOUS
<1> USE DEF tables, races
<1>0. /\ poster \in [Posters -> PosterType]
      /\ posting \in [EventIds -> [Mints -> [entries : Nat, total : Int]]]
      /\ bal \in [Accounts -> [Mints -> Int \cup {NoRow}]]
      /\ \A p \in Posters : poster[p] \in PosterType /\ Fits(poster[p], filed, pslr)
  BY DEF Placed
<1>1. ASSUME UNCHANGED posting, journalled \subseteq journalled', contended \subseteq contended',
             Exclusive', \A p \in Posters : OnceAt(poster'[p], posting, contended')
      PROVE  Once'
  <2>1. PostedAtMostOnce' /\ JournalFresh'
    BY <1>1 DEF Once, PostedAtMostOnce, JournalFresh
  <2> QED
    BY <1>1, <2>1 DEF Once
<1>2. ASSUME NEW p \in Posters, NEW q, Become(p, q), UNCHANGED posting,
             journalled \subseteq journalled', contended \subseteq contended',
             OnceAt(q, posting, contended'), Only(p, q, contended')
      PROVE  Once'
  <2>1. \A r \in Posters : poster'[r] = IF r = p THEN q ELSE poster[r]
    BY <1>0, <1>2 DEF Become
  <2>2. ASSUME NEW r \in Posters PROVE OnceAt(poster'[r], posting, contended')
    <3>1. CASE r = p
      BY <1>2, <2>1, <3>1
    <3>2. CASE r # p
      <4>1. poster'[r] = poster[r] /\ OnceAt(poster[r], posting, contended)
        BY <2>1, <3>2 DEF Once
      <4> QED
        BY <1>2, <4>1 DEF OnceAt
    <3> QED
      BY <3>1, <3>2
  <2>3. Exclusive'
    BY <1>2, <2>1 DEF Once, Exclusive, Only
  <2> QED
    BY <1>1, <1>2, <2>2, <2>3
<1>2a. ASSUME NEW p \in Posters, NEW q, Become(p, q), UNCHANGED <<posting, contended>>,
              journalled \subseteq journalled', Quiet(q)
       PROVE  Once'
  BY <1>2, <1>2a, QuietOnce DEF Only
<1>2b. ASSUME NEW p \in Posters, NEW q, Become(p, q), UNCHANGED <<posting, contended>>,
              journalled \subseteq journalled', OnceAt(q, posting, contended),
              Within(poster[p]), EventOf(q) = EventOf(poster[p])
       PROVE  Once'
  <2>1. Only(p, q, contended)
    BY <1>2b DEF Once, Exclusive, Only
  <2> QED
    BY <1>2, <1>2b, <2>1
<1>3. ASSUME AppendRow PROVE Once'
  BY <1>1, <1>3 DEF AppendRow, Once, Exclusive, Only
<1>4. ASSUME Restart PROVE Once'
  <2>1. Quiet(Idle)
    BY DEF Idle, Quiet
  <2>2. \A p \in Posters : OnceAt(poster'[p], posting, contended) /\ ~Within(poster'[p])
    BY <1>4, <2>1, QuietOnce DEF Restart
  <2> QED
    BY <1>1, <1>4, <2>2 DEF Restart, Exclusive, Only
<1>5. ASSUME NEW p \in Posters, StartIngest(p) \/ StartBackfill(p) \/ StartChainBackfill(p)
      PROVE  Once'
  <2>0. PICK pass \in Passes \ {"journal"} : \E todo : Start(p, pass, todo)
    BY <1>5 DEF StartIngest, StartBackfill, StartChainBackfill, Passes
  <2>1. PICK todo : Start(p, pass, todo)
    BY <2>0
  <2>2. Quiet(StartRow(pass, todo))
    BY StartRowQuiet
  <2>3. UNCHANGED <<posting, journalled, contended>> /\ Become(p, StartRow(pass, todo))
    BY <1>5, <2>1 DEF StartIngest, StartBackfill, StartChainBackfill, Start
  <2> QED
    BY <1>2a, <2>2, <2>3
<1>6. ASSUME NEW p \in Posters, StartJournal(p) PROVE Once'
  <2>1. PICK r \in Rows \ journalled : /\ Become(p, StartRow("journal", {r}))
                                       /\ UNCHANGED <<posting, contended>>
                                       /\ journalled' = journalled \cup {r}
                                       /\ \A x \in Posters : poster[x].pass # "journal"
    BY <1>6 DEF StartJournal, Start
  <2> DEFINE q == StartRow("journal", {r})
  <2>2. q.pc = "check" /\ q.scope = "journal" /\ q.todo = {r}
    BY DEF StartRow, FirstScope
  <2> HIDE DEF q
  <2>3. r \in Nat
    BY ConstantsAssumption DEF Rows
  <2>4. Row(q) = r
    BY <2>2, <2>3, MinIsLeast DEF Row
  <2>5. EventOf(q) = EventId("journal", r)
    BY <2>2, <2>4 DEF EventOf
  <2>6. OnceAt(q, posting, contended)
    BY <2>2, <2>5 DEF OnceAt, Once, JournalFresh
  <2>7. ASSUME NEW x \in Posters, Within(poster[x]) PROVE EventOf(poster[x]) # EventOf(q)
    <3>1. poster[x].pc \in {"check", "read", "apply", "write"}
      BY <2>7 DEF Within
    <3>2. Event(x)[1] = poster[x].scope /\ poster[x].scope \in PassScopes(poster[x].pass)
      BY <3>1, EventOfPass
    <3>3. poster[x].scope # "journal"
      BY <2>1, <3>2 DEF PassScopes
    <3> QED
      BY <2>5, <3>2, <3>3 DEF EventOf, Event, EventId
  <2>8. Only(p, q, contended)
    BY <2>7 DEF Only
  <2> QED
    BY <1>2, <2>1, <2>6, <2>8 DEF q
<1>7. ASSUME NEW p \in Posters, Upsert(p) PROVE Once'
  <2> DEFINE q == poster[p]
             n == [q EXCEPT !.pc = "check"]
  <2>1. q.pc = "upsert" /\ Become(p, n) /\ UNCHANGED <<posting, journalled, contended>>
    BY <1>7 DEF Upsert, At
  <2>2. q \in PosterType /\ q.scope \in {"lifecycle", "tx_fee", "chain_lifecycle"}
    BY <1>0, <2>1 DEF Fits, PassScopes
  <2>3. n.pc = "check" /\ n.scope = q.scope
    BY <2>2 DEF PosterType
  <2> HIDE DEF n
  <2>4. Quiet(n)
    BY <2>2, <2>3 DEF Quiet
  <2> QED
    BY <1>2a, <2>1, <2>4
<1>8. ASSUME NEW p \in Posters, Settle(p), ~At(p, "idle"),
             UNCHANGED <<posting, journalled, contended>>
      PROVE  Once'
  <2>1. Quiet(NextScope(poster[p]))
    BY <1>0, <1>8, NextQuiet DEF At
  <2> QED
    BY <1>2a, <1>8, <2>1 DEF Settle
<1>9. ASSUME NEW p \in Posters, CheckApplied(p) PROVE Once'
  <2> DEFINE q == poster[p]
             n == [q EXCEPT !.pc = "read"]
  <2>1. At(p, "check") /\ UNCHANGED <<posting, journalled>>
    BY <1>9 DEF CheckApplied
  <2>2. CASE Settle(p) /\ UNCHANGED contended
    BY <1>8, <2>1, <2>2 DEF At
  <2>3. CASE /\ ~AlreadyApplied(LookupId(Event(p))) /\ Become(p, n)
             /\ contended' = IF Contends(p) THEN contended \cup {Event(p)} ELSE contended
    <3>1. /\ n.pc = "read" /\ n.scope = q.scope /\ n.todo = q.todo
      BY <1>0 DEF PosterType
    <3> HIDE DEF n
    <3>2. EventOf(n) = Event(p) /\ EventOf(q) = Event(p)
      BY <3>1 DEF EventOf, Event, Row
    <3>3. Event(p) \in EventIds /\ Event(p)[1] = q.scope
      BY <2>1, EventOfPass DEF At
    <3>4. Event(p) \notin contended => NoEntries(Event(p), posting)
      <4>1. CASE q.scope = "journal"
        BY <2>1, <3>2, <4>1 DEF Once, OnceAt, At
      <4>2. CASE q.scope # "journal"
        <5>1. LookupId(Event(p)) = Event(p)
          BY <3>3, <4>2 DEF LookupId
        <5>2. \A m \in Mints : ~(posting[Event(p)][m].entries > 0)
          BY <2>3, <5>1 DEF AlreadyApplied
        <5>3. \A m \in Mints : posting[Event(p)][m].entries \in Nat
          BY <1>0, <3>3
        <5> QED
          BY <5>2, <5>3 DEF NoEntries
      <4> QED
        BY <4>1, <4>2
    <3>5. contended \subseteq contended'
      BY <2>3
    <3>6. OnceAt(n, posting, contended')
      BY <3>1, <3>2, <3>4, <3>5 DEF OnceAt
    <3>7. Only(p, n, contended')
      <4> SUFFICES ASSUME Event(p) \notin contended', NEW r \in Posters \ {p}, Within(poster[r]),
                          EventOf(poster[r]) = Event(p)
                   PROVE  FALSE
        BY <3>2 DEF Only
      <4>1. ~Contends(p) /\ Event(p) \notin contended
        BY <2>3
      <4>2. Event(r) = Event(p)
        BY DEF EventOf, Event
      <4>3. poster[r].pc = "check" /\ poster[r].scope = "journal"
        BY <4>1, <4>2 DEF Contends, Within, At, Booking
      <4>4. Event(r)[1] = "journal"
        BY <4>3, EventOfPass
      <4>5. q.scope = "journal"
        BY <3>3, <4>2, <4>4
      <4>6. Within(q)
        BY <2>1, <4>5 DEF Within, At
      <4> QED
        BY <3>2, <4>1, <4>6 DEF Once, Exclusive, Only
    <3> QED
      BY <1>2, <2>1, <2>3, <3>5, <3>6, <3>7
  <2> QED
    BY <1>9, <2>2, <2>3 DEF CheckApplied
<1>10. ASSUME NEW p \in Posters, ReadRunning(p) PROVE Once'
  <2> DEFINE e == Event(p)
             capped == CapOpenDebits(e, bal[AccountOf(e)], PostingsOf(e))
             q == poster[p]
             n == [q EXCEPT !.pc = "apply", !.batch = capped, !.left = NonZero(capped)]
  <2>1. /\ At(p, "read") /\ UNCHANGED <<posting, journalled, contended>>
        /\ Settle(p) \/ Become(p, n)
    BY <1>10 DEF ReadRunning
  <2>2. CASE Settle(p)
    BY <1>8, <2>1, <2>2 DEF At
  <2>3. CASE Become(p, n)
    <3> HIDE DEF capped
    <3>1. n.pc = "apply" /\ n.scope = q.scope /\ n.todo = q.todo
      BY <1>0 DEF PosterType
    <3> HIDE DEF n
    <3>2. EventOf(n) = Event(p) /\ Event(p) = EventOf(q)
      BY <3>1 DEF EventOf, Event, Row
    <3>3. Event(p) \in EventIds
      BY <2>1, EventOfPass DEF At
    <3>4. Event(p) \notin contended => NoEntries(Event(p), posting)
      BY <2>1, <3>2 DEF Once, OnceAt, At
    <3>5. Event(p) \notin contended =>
            \A m \in Mints : posting[EventOf(n)][m].entries <= Cardinality(DoneOf(n, m))
      BY <3>2, <3>3, <3>4, DoneFinite DEF NoEntries
    <3>6. OnceAt(n, posting, contended)
      BY <3>1, <3>2, <3>5 DEF OnceAt
    <3>7. Within(q)
      BY <2>1 DEF At, Within
    <3> QED
      BY <1>2b, <2>1, <2>3, <3>2, <3>6, <3>7
  <2> QED
    BY <2>1, <2>2, <2>3
<1>11. ASSUME NEW p \in Posters, SelectBalance(p) PROVE Once'
  <2> DEFINE q == poster[p]
             now == bal[AccountOf(Event(p))][NextDelta(p).mint]
             n == [q EXCEPT !.pc = "write", !.old = now]
  <2>1. At(p, "apply") /\ UNCHANGED <<posting, journalled, contended>> /\ Become(p, n)
    BY <1>11 DEF SelectBalance
  <2> HIDE DEF now
  <2>2. n.pc = "write" /\ n.scope = q.scope /\ n.todo = q.todo /\ n.left = q.left
    BY <1>0 DEF PosterType
  <2> HIDE DEF n
  <2>3. EventOf(n) = EventOf(q)
    BY <2>2 DEF EventOf, Row
  <2>4. \A m : DoneOf(n, m) = DoneOf(q, m)
    BY <2>2, <2>3 DEF DoneOf
  <2>5. OnceAt(n, posting, contended)
    BY <2>1, <2>2, <2>3, <2>4 DEF OnceAt, Once, At
  <2>6. Within(q)
    BY <2>1 DEF At, Within
  <2> QED
    BY <1>2b, <2>1, <2>3, <2>5, <2>6
<1>12. ASSUME NEW p \in Posters, LinkChain(p) PROVE Once'
  <2>1. Quiet(NextRow(poster[p]))
    BY <1>0, <1>12, NextQuiet DEF LinkChain, At
  <2> QED
    BY <1>2a, <1>12, <2>1 DEF LinkChain
<1>13. ASSUME NEW p \in Posters, DbError(p) PROVE Once'
  <2> DEFINE q == poster[p]
  <2>1. q.pc # "idle" /\ Become(p, AfterError(q)) /\ UNCHANGED <<posting, journalled, contended>>
    BY <1>13 DEF DbError, At
  <2>2. CASE q.pass = "journal" /\ q.pc = "check"
    <3> DEFINE n == [q EXCEPT !.pc = "read"]
    <3>1. q.scope = "journal"
      BY <1>0, <2>2 DEF Fits, PassScopes
    <3>2. AfterError(q) = n
      BY <2>2, <3>1 DEF AfterError
    <3>3. n.pc = "read" /\ n.scope = q.scope /\ n.todo = q.todo
      BY <1>0 DEF PosterType
    <3> HIDE DEF n
    <3>4. EventOf(n) = EventOf(q)
      BY <3>3 DEF EventOf, Row
    <3>5. OnceAt(n, posting, contended)
      BY <2>2, <3>1, <3>3, <3>4 DEF OnceAt, Once
    <3>6. Within(q)
      BY <2>2, <3>1 DEF Within
    <3> QED
      BY <1>2b, <2>1, <3>2, <3>4, <3>5, <3>6
  <2>3. CASE ~(q.pass = "journal" /\ q.pc = "check")
    <3>1. Quiet(Idle) /\ Quiet(NextRow(q)) /\ Quiet(NextScope(q))
      BY <1>0, <2>1, NextQuiet DEF Idle, Quiet
    <3>2. AfterError(q) \in {Idle, NextRow(q), NextScope(q)}
      BY <2>3 DEF AfterError
    <3> QED
      BY <1>2a, <2>1, <3>1, <3>2
  <2> QED
    BY <2>2, <2>3
<1>14. ASSUME NEW p \in Posters, WriteBalance(p) PROVE Once'
  <2> DEFINE q == poster[p]
             i == Min(q.left)
             rest == q.left \ {i}
             n == [q EXCEPT !.pc = "apply", !.left = rest, !.old = NoRow]
             d == NextDelta(p)
             after(m) == DoneOf(q, m) \cup (IF m = d.mint THEN {i} ELSE {})
  <2>1. q.pc \in {"apply", "write"} /\ UNCHANGED <<journalled, contended>>
    BY <1>14, BookingFacts
  <2>2. /\ Event(p) \in EventIds /\ Event(p) = EventOf(q)
        /\ q.scope \in PassScopes(q.pass) /\ Event(p)[1] = q.scope /\ Event(p)[2] = Row(q)
    BY <2>1, EventOfPass DEF EventOf, Event
  <2>3. /\ i \in q.left /\ i \in DOMAIN PostingsOf(Event(p))
        /\ d.mint \in Mints /\ d.mint = PostingsOf(Event(p))[i].mint
    BY <2>1, NextDeltaType
  <2>4. Event(p) \notin contended =>
          \A m \in Mints : posting[Event(p)][m].entries <= Cardinality(DoneOf(q, m))
    BY <2>1, <2>2 DEF Once, OnceAt
  <2>5. ASSUME Event(p) \notin contended, NEW m \in Mints
        PROVE  posting'[Event(p)][m].entries <= Cardinality(after(m))
    <3>1. IsFiniteSet(DoneOf(q, m)) /\ Cardinality(DoneOf(q, m)) \in Nat
      BY <2>2, DoneFinite
    <3>2. posting[Event(p)][m].entries \in Nat
      BY <1>0, <2>2
    <3>3. CASE m = d.mint
      <4>1. posting'[Event(p)][m].entries = posting[Event(p)][m].entries + 1
        BY <1>14, <2>2, <3>3, BookingChanges
      <4>2. i \notin DoneOf(q, m)
        BY <2>3 DEF DoneOf
      <4>3. Cardinality(after(m)) = Cardinality(DoneOf(q, m)) + 1
        BY <3>1, <3>3, <4>2, FS_AddElement
      <4> HIDE DEF after
      <4> QED
        BY <2>4, <2>5, <3>1, <3>2, <4>1, <4>3
    <3>4. CASE m # d.mint
      <4>1. posting'[Event(p)][m] = posting[Event(p)][m]
        BY <1>14, <2>2, <3>4, BookingChanges
      <4>2. after(m) = DoneOf(q, m)
        BY <3>4
      <4> HIDE DEF after
      <4> QED
        BY <2>4, <2>5, <4>1, <4>2
    <3> QED
      BY <3>3, <3>4
  <2>6. \A e \in EventIds : e # Event(p) => \A m \in Mints : posting'[e][m] = posting[e][m]
    BY <1>14, BookingChanges
  <2>7. PostedAtMostOnce'
    <3>1. ASSUME NEW m \in Mints
          PROVE  Cardinality(after(m)) <=
                   Cardinality({j \in DOMAIN PostingsOf(Event(p)) :
                                  PostingsOf(Event(p))[j].mint = m})
      <4> DEFINE all == {j \in DOMAIN PostingsOf(Event(p)) : PostingsOf(Event(p))[j].mint = m}
      <4>1. after(m) \in SUBSET all
        BY <2>2, <2>3 DEF DoneOf
      <4>2. PICK k \in Nat : DOMAIN PostingsOf(Event(p)) = 1..k
        BY <2>2, EventTypes
      <4>3. IsFiniteSet(all)
        <5>1. IsFiniteSet(1..k) /\ all \in SUBSET (1..k)
          BY <4>2, FS_Interval
        <5> QED
          BY <5>1, FS_Subset
      <4> HIDE DEF all, after
      <4>4. Cardinality(after(m)) <= Cardinality(all)
        BY <4>1, <4>3, FS_Subset
      <4> QED
        BY <4>4 DEF all
    <3>2. ASSUME Event(p) \notin contended, NEW m \in Mints
          PROVE  posting'[Event(p)][m].entries <=
                   Cardinality({j \in DOMAIN PostingsOf(Event(p)) :
                                  PostingsOf(Event(p))[j].mint = m})
      <4> DEFINE all == {j \in DOMAIN PostingsOf(Event(p)) : PostingsOf(Event(p))[j].mint = m}
      <4>1. posting'[Event(p)][m].entries \in Int
        BY <2>2 DEF Placed
      <4>2. Cardinality(after(m)) \in Int /\ Cardinality(all) \in Int
        <5>1. PICK k \in Nat : DOMAIN PostingsOf(Event(p)) = 1..k
          BY <2>2, EventTypes
        <5>2. IsFiniteSet(1..k) /\ all \in SUBSET (1..k)
          BY <5>1, FS_Interval
        <5>3. after(m) \in SUBSET (1..k)
          BY <2>2, <2>3, <5>1 DEF DoneOf
        <5> HIDE DEF all, after
        <5>4. IsFiniteSet(all)
          BY <5>2, FS_Subset
        <5>5. IsFiniteSet(after(m))
          BY <5>2, <5>3, FS_Subset
        <5>6. Cardinality(all) \in Nat /\ Cardinality(after(m)) \in Nat
          BY <5>4, <5>5, FS_CardinalityType
        <5> QED
          BY <5>6
      <4> HIDE DEF after
      <4>3. Cardinality(after(m)) <= Cardinality(all)
        BY <3>1
      <4> HIDE DEF all
      <4>4. posting'[Event(p)][m].entries <= Cardinality(all)
        BY <2>5, <3>2, <4>1, <4>2, <4>3
      <4> QED
        BY <4>4 DEF all
    <3> QED
      BY <2>1, <2>6, <3>2 DEF Once, PostedAtMostOnce
  <2>8. JournalFresh'
    <3>1. ASSUME NEW r \in Rows \ journalled PROVE EventId("journal", r) # Event(p)
      <4>1. CASE q.scope # "journal"
        BY <2>2, <4>1 DEF EventId
      <4>2. CASE q.scope = "journal"
        <5>1. q.pass = "journal"
          BY <2>2, <4>2 DEF PassScopes
        <5>2. Row(q) \in journalled
          BY <2>1, <5>1, EventOfPass DEF JournalOwned, Owned
        <5> QED
          BY <2>2, <5>2 DEF EventId
      <4> QED
        BY <4>1, <4>2
    <3>2. \A r \in Rows : EventId("journal", r) \in EventIds
      BY DEF EventId, EventIds, Scopes
    <3> QED
      BY <2>1, <2>6, <3>1, <3>2 DEF Once, JournalFresh, NoEntries
  <2>9. ASSUME NEW r \in Posters \ {p} PROVE OnceAt(poster[r], posting', contended)
    <3>1. OnceAt(poster[r], posting, contended)
      BY DEF Once
    <3> SUFFICES ASSUME Within(poster[r]), EventOf(poster[r]) \notin contended
                 PROVE  OnceAt(poster[r], posting', contended)
      BY DEF OnceAt, Within
    <3>2. Within(q)
      BY <2>1 DEF Within
    <3>3. EventOf(poster[r]) # Event(p)
      BY <2>2, <3>2 DEF Once, Exclusive, Only
    <3>4. EventOf(poster[r]) \in EventIds
      BY EventOfPass DEF Within, EventOf, Event
    <3>5. \A m \in Mints : posting'[EventOf(poster[r])][m] = posting[EventOf(poster[r])][m]
      BY <2>6, <3>3, <3>4
    <3> QED
      BY <3>1, <3>5 DEF OnceAt, NoEntries
  <2>10. ASSUME NEW x, Become(p, x), OnceAt(x, posting', contended),
                Quiet(x) \/ EventOf(x) = EventOf(q)
         PROVE  Once'
    <3>1. \A r \in Posters : poster'[r] = IF r = p THEN x ELSE poster[r]
      BY <1>0, <2>10 DEF Become
    <3>2. \A r \in Posters : OnceAt(poster'[r], posting', contended')
      BY <2>1, <2>9, <2>10, <3>1
    <3>3. Quiet(x) => ~Within(x)
      BY QuietOnce
    <3>4. Exclusive'
      BY <2>1, <2>10, <3>1, <3>3 DEF Once, Exclusive, Only, Within
    <3> QED
      BY <2>7, <2>8, <3>2, <3>4 DEF Once
  <2>11. CASE Become(p, NextScope(q))
    <3>1. Quiet(NextScope(q)) /\ OnceAt(NextScope(q), posting', contended)
      BY <1>0, <2>1, NextQuiet, QuietOnce
    <3> QED
      BY <2>10, <2>11, <3>1
  <2>12. CASE Become(p, n)
    <3> HIDE DEF rest
    <3>1. n.pc = "apply" /\ n.scope = q.scope /\ n.todo = q.todo /\ n.left = rest
      BY <1>0 DEF PosterType
    <3> HIDE DEF n
    <3>2. EventOf(n) = Event(p)
      BY <2>2, <3>1 DEF EventOf, Row
    <3>3. ASSUME NEW m \in Mints PROVE DoneOf(n, m) = after(m)
      BY <2>2, <2>3, <3>1, <3>2 DEF DoneOf, rest
    <3> HIDE DEF after
    <3>4. Event(p) \notin contended =>
            \A m \in Mints : posting'[EventOf(n)][m].entries <= Cardinality(DoneOf(n, m))
      BY <2>5, <3>2, <3>3
    <3>5. OnceAt(n, posting', contended)
      BY <3>1, <3>2, <3>4 DEF OnceAt
    <3> QED
      BY <2>2, <2>10, <2>12, <3>2, <3>5
  <2> QED
    BY <1>14, <2>1, <2>11, <2>12, BookingFacts, CommitFacts
<1>15. CASE UNCHANGED vars
  BY <1>1, <1>15 DEF vars, Once, Exclusive, Only
<1> QED
  BY <1>3, <1>4, <1>5, <1>6, <1>7, <1>9, <1>10, <1>11, <1>12, <1>13, <1>14, <1>15
     DEF Next

\* At the start nothing is booked and no pass is under way.
LEMMA OnceInit == Init => JournalOwned /\ Once
<1> SUFFICES ASSUME Init PROVE JournalOwned /\ Once
  OBVIOUS
<1>1. \A e \in EventIds, m \in Mints : posting[e][m].entries = 0
  BY DEF Init
<1>2. \A r \in Rows : EventId("journal", r) \in EventIds
  BY DEF EventId, EventIds, Scopes
<1>3. JournalFresh
  BY <1>1, <1>2 DEF JournalFresh, NoEntries
<1>4. PostedAtMostOnce
  <2> SUFFICES ASSUME NEW e \in EventIds, NEW m \in Mints
               PROVE  0 <= Cardinality({i \in DOMAIN PostingsOf(e) : PostingsOf(e)[i].mint = m})
    BY <1>1 DEF PostedAtMostOnce
  <2> DEFINE all == {i \in DOMAIN PostingsOf(e) : PostingsOf(e)[i].mint = m}
  <2>1. PICK k \in Nat : DOMAIN PostingsOf(e) = 1..k
    BY EventTypes
  <2>2. IsFiniteSet(1..k) /\ all \in SUBSET (1..k)
    BY <2>1, FS_Interval
  <2> HIDE DEF all
  <2>3. Cardinality(all) \in Nat
    BY <2>2, FS_Subset, FS_CardinalityType
  <2> QED
    BY <2>3 DEF all
<1>5. \A p \in Posters : Quiet(poster[p]) /\ Owned(poster[p], journalled)
  BY DEF Init, Idle, Quiet, Owned
<1>6. \A p \in Posters : OnceAt(poster[p], posting, contended) /\ ~Within(poster[p])
  BY <1>5, QuietOnce
<1> QED
  BY <1>3, <1>4, <1>5, <1>6 DEF Once, JournalOwned, Exclusive, Only

\* However many passes overlap, and however often a row is ingested, replayed or
\* retried after an error or a restart: no delta is booked twice under an event id
\* that no two passes were booking at the same time.
THEOREM PostsAtMostOnce == Spec => []PostedAtMostOnce
<1> DEFINE Inv == JournalOwned /\ Once
<1>1. Init => Inv
  BY OnceInit
<1>2. Placed /\ Placed' /\ Inv /\ [Next]_vars => Inv'
  BY OnceStep, JournalOwnedStep
<1>3. Inv => PostedAtMostOnce
  BY DEF Once
<1> HIDE DEF Inv
<1> QED
  BY <1>1, <1>2, <1>3, PlacedInvariant, PTL DEF Spec

-----------------------------------------------------------------------------
(* The balances.  A transaction that has found a row keeps it locked, one  *)
(* that has found none keeps nothing.                                      *)

\* The balance row a pass is at.
AccOf(q) == AccountOf(EventOf(q))
MintOf(q) == q.batch[Min(q.left)].mint
KeyOf(q) == <<AccOf(q), MintOf(q)>>

\* A pass in a transaction that has found its row.
Holds(q) == q.pc = "write" /\ q.old # NoRow

\* The row it has found is still as it was.
Held(q, b) == Holds(q) => b[AccOf(q)][MintOf(q)] = q.old

\* No two transactions hold one row.
Locks == \A p \in Posters :
  /\ Held(poster[p], bal)
  /\ Holds(poster[p]) =>
       \A r \in Posters \ {p} : Holds(poster[r]) => KeyOf(poster[r]) # KeyOf(poster[p])

\* A pass that books the debits of an open.
Spends(q) == /\ q.pc \in {"apply", "write"} /\ Row(q) \in Opens
             /\ q.scope \in {"lifecycle", "chain_lifecycle"}

\* What is left to book of an open is covered by the balances, and the row of the
\* debit that is being booked was there.
Covered(q, b) ==
  Spends(q) =>
    /\ \A i \in q.left : q.batch[i].delta < 0 =>
         Amount(b[AccOf(q)][q.batch[i].mint]) + q.batch[i].delta >= 0
    /\ q.pc = "write" /\ q.batch[Min(q.left)].delta < 0 => q.old # NoRow

\* So it is for every pass whose account nobody has taken from meanwhile.
Affordable == \A p \in Posters \ undercut : Covered(poster[p], bal)

\* A pass that is not booking.
NotBooking(q) == q.pc \notin {"apply", "write"}

\* A pass that goes on to another scope or row does not book yet.
LEMMA NextNotBooking ==
  ASSUME NEW q \in PosterType
  PROVE  /\ NotBooking(Idle) /\ NotBooking(NextRow(q)) /\ NotBooking(NextScope(q))
         /\ NotBooking(AfterError(q))
<1>1. NotBooking(Idle)
  BY DEF NotBooking, Idle
<1>2. NotBooking(NextRow(q))
  BY DEF NotBooking, NextRow, StartRow, Idle
<1>3. ASSUME NEW pc \in {"link", "check"}, NEW scope
      PROVE  NotBooking(Moved(q, pc, scope))
  BY DEF NotBooking, PosterType, Moved
<1>4. NotBooking(NextScope(q))
  BY <1>2, <1>3 DEF NextScope
<1>5. NotBooking([q EXCEPT !.pc = "read"])
  BY DEF NotBooking, PosterType
<1>6. AfterError(q) \in {Idle, NextRow(q), NextScope(q), [q EXCEPT !.pc = "read"],
                         [q EXCEPT !.pc = "check"]}
  BY DEF AfterError
<1>7. NotBooking([q EXCEPT !.pc = "check"])
  BY DEF NotBooking, PosterType
<1> QED
  BY <1>1, <1>2, <1>4, <1>5, <1>6, <1>7

\* Every step but the three of a booking leaves the balances alone, and the
\* passes as they are or outside a booking.
LEMMA OtherSteps ==
  ASSUME Placed, [Next]_vars
  PROVE  \/ /\ UNCHANGED <<bal, posting, overwritten, undercut>>
            /\ \A r \in Posters : poster'[r] = poster[r] \/ NotBooking(poster'[r])
         \/ \E p \in Posters : ReadRunning(p) \/ SelectBalance(p) \/ WriteBalance(p)
<1> USE DEF tables, races
<1>0. /\ poster \in [Posters -> PosterType]
      /\ \A p \in Posters : poster[p] \in PosterType
  BY DEF Placed
<1> DEFINE Still == \A r \in Posters : poster'[r] = poster[r] \/ NotBooking(poster'[r])
           Same == UNCHANGED <<bal, posting, overwritten, undercut>>
<1>1. ASSUME NEW p \in Posters, NEW q, Become(p, q), NotBooking(q) PROVE Still
  BY <1>0, <1>1 DEF Become
<1>2. CASE AppendRow \/ UNCHANGED vars
  BY <1>2 DEF AppendRow, vars
<1>3. CASE Restart
  <2>1. Same /\ poster' = [p \in Posters |-> Idle]
    BY <1>3 DEF Restart
  <2> QED
    BY <2>1 DEF NotBooking, Idle
<1>4. ASSUME NEW p \in Posters,
             StartIngest(p) \/ StartBackfill(p) \/ StartChainBackfill(p) \/ StartJournal(p)
      PROVE  Same /\ Still
  <2>1. Same /\ \E pass, todo : Become(p, StartRow(pass, todo))
    BY <1>4 DEF StartIngest, StartBackfill, StartChainBackfill, StartJournal, Start
  <2>2. PICK pass, todo : Become(p, StartRow(pass, todo))
    BY <2>1
  <2>3. NotBooking(StartRow(pass, todo))
    BY DEF NotBooking, StartRow, Idle
  <2> QED
    BY <1>1, <2>1, <2>2, <2>3
<1>5. ASSUME NEW p \in Posters, NEW pc \in {"check", "read"}
      PROVE  NotBooking([poster[p] EXCEPT !.pc = pc])
  BY <1>0 DEF NotBooking, PosterType
<1>6. ASSUME NEW p \in Posters, Upsert(p) PROVE Same /\ Still
  BY <1>1, <1>5, <1>6 DEF Upsert
<1>7. ASSUME NEW p \in Posters, CheckApplied(p) PROVE Same /\ Still
  <2>1. Same /\ (\/ Become(p, NextScope(poster[p]))
                 \/ Become(p, [poster[p] EXCEPT !.pc = "read"]))
    BY <1>7 DEF CheckApplied, Settle
  <2> QED
    BY <1>0, <1>1, <1>5, <2>1, NextNotBooking
<1>8. ASSUME NEW p \in Posters, LinkChain(p) PROVE Same /\ Still
  BY <1>0, <1>1, <1>8, NextNotBooking DEF LinkChain
<1>9. ASSUME NEW p \in Posters, DbError(p) PROVE Same /\ Still
  BY <1>0, <1>1, <1>9, NextNotBooking DEF DbError
<1> HIDE DEF Same, Still
<1> QED
  BY <1>2, <1>3, <1>4, <1>6, <1>7, <1>8, <1>9 DEF Next, Same, Still

\* The terms of a poster and those of its record.
LEMMA RecordTerms ==
  ASSUME NEW p \in Posters
  PROVE  /\ EventOf(poster[p]) = Event(p) /\ AccOf(poster[p]) = AccountOf(Event(p))
         /\ MintOf(poster[p]) = NextDelta(p).mint
         /\ poster[p].batch[Min(poster[p].left)] = NextDelta(p)
         /\ KeyOf(poster[p]) = Key(p)
         /\ Holds(poster[p]) <=> HoldsLock(p)
BY DEF EventOf, Event, AccOf, MintOf, NextDelta, KeyOf, Key, Holds, HoldsLock, At

\* A booking writes what it has found plus its delta, and the record goes on with
\* the deltas that are left or leaves the event.
LEMMA BookingAdds ==
  ASSUME Placed, NEW p \in Posters, WriteBalance(p)
  PROVE  /\ Event(p) \in EventIds /\ AccountOf(Event(p)) \in Accounts
         /\ NextDelta(p).mint \in Mints /\ NextDelta(p).delta \in Int
         /\ poster[p].old \in Int \cup {NoRow}
         /\ \A a \in Accounts, m \in Mints :
              bal'[a][m] = IF a = AccountOf(Event(p)) /\ m = NextDelta(p).mint
                           THEN Amount(poster[p].old) + NextDelta(p).delta ELSE bal[a][m]
         /\ \/ Become(p, NextScope(poster[p]))
            \/ Become(p, [poster[p] EXCEPT !.pc = "apply",
                                           !.left = poster[p].left \ {Min(poster[p].left)},
                                           !.old = NoRow])
<1>1. poster[p].pc = "write" /\ poster[p].old \in Int \cup {NoRow} /\ Commit(p, poster[p].old)
  BY BookingFacts
<1>2. poster[p].pc \in {"apply", "write"}
  BY <1>1
<1>3. /\ Event(p) \in EventIds /\ AccountOf(Event(p)) \in Accounts
      /\ NextDelta(p).mint \in Mints /\ NextDelta(p).delta \in Int
  BY <1>2, EventOfPass, EventTypes, NextDeltaType
<1>4. bal \in [Accounts -> [Mints -> Int \cup {NoRow}]]
  BY DEF Placed
<1>5. /\ bal' = [bal EXCEPT ![AccountOf(Event(p))][NextDelta(p).mint] =
                   Amount(poster[p].old) + NextDelta(p).delta]
      /\ \/ Become(p, NextScope(poster[p]))
         \/ Become(p, [poster[p] EXCEPT !.pc = "apply",
                                        !.left = poster[p].left \ {Min(poster[p].left)},
                                        !.old = NoRow])
  BY <1>1, <1>2, CommitFacts
<1> QED
  BY <1>1, <1>3, <1>4, <1>5

\* The row lock: what a transaction has found is what it adds to.
LEMMA LocksStep == Placed /\ Locks /\ [Next]_vars => Locks'
<1> SUFFICES ASSUME Placed, Locks, [Next]_vars PROVE Locks'
  OBVIOUS
<1> USE DEF tables
<1>0. /\ poster \in [Posters -> PosterType]
      /\ \A p \in Posters : poster[p] \in PosterType
  BY DEF Placed
<1>1. \A q : NotBooking(q) => ~Holds(q)
  BY DEF NotBooking, Holds
<1>2. CASE /\ UNCHANGED <<bal, posting, overwritten, undercut>>
           /\ \A r \in Posters : poster'[r] = poster[r] \/ NotBooking(poster'[r])
  <2>1. \A r \in Posters : Holds(poster'[r]) => poster'[r] = poster[r]
    BY <1>1, <1>2
  <2> QED
    BY <1>2, <2>1 DEF Locks, Held
<1>3. ASSUME NEW p \in Posters, NEW q, Become(p, q), ~Holds(q),
             \A r \in Posters \ {p} : Holds(poster[r]) =>
               bal'[AccOf(poster[r])][MintOf(poster[r])] = bal[AccOf(poster[r])][MintOf(poster[r])]
      PROVE  Locks'
  <2>1. poster'[p] = q /\ \A r \in Posters \ {p} : poster'[r] = poster[r]
    BY <1>0, <1>3 DEF Become
  <2>2. \A r \in Posters : Holds(poster'[r]) => r # p /\ poster'[r] = poster[r]
    BY <1>3, <2>1
  <2> QED
    BY <1>3, <2>2 DEF Locks, Held
<1>4. ASSUME NEW p \in Posters, ReadRunning(p) PROVE Locks'
  <2> DEFINE capped == CapOpenDebits(Event(p), bal[AccountOf(Event(p))], PostingsOf(Event(p)))
             n == [poster[p] EXCEPT !.pc = "apply", !.batch = capped, !.left = NonZero(capped)]
  <2>1. UNCHANGED bal /\ (Become(p, NextScope(poster[p])) \/ Become(p, n))
    BY <1>4 DEF ReadRunning, Settle
  <2> HIDE DEF capped
  <2>2. ~Holds(n)
    BY <1>0 DEF Holds, PosterType
  <2>3. ~Holds(NextScope(poster[p]))
    BY <1>0, <1>1, NextNotBooking
  <2> HIDE DEF n
  <2> QED
    BY <1>3, <2>1, <2>2, <2>3
<1>5. ASSUME NEW p \in Posters, WriteBalance(p) PROVE Locks'
  <2> DEFINE rest == poster[p].left \ {Min(poster[p].left)}
             n == [poster[p] EXCEPT !.pc = "apply", !.left = rest, !.old = NoRow]
  <2>1. Become(p, NextScope(poster[p])) \/ Become(p, n)
    BY <1>5, BookingAdds
  <2> HIDE DEF rest
  <2>2. ~Holds(n) /\ ~Holds(NextScope(poster[p]))
    BY <1>0, <1>1, NextNotBooking DEF Holds, PosterType
  <2>3. ASSUME NEW r \in Posters \ {p}, Holds(poster[r])
        PROVE  bal'[AccOf(poster[r])][MintOf(poster[r])] = bal[AccOf(poster[r])][MintOf(poster[r])]
    <3>1. HoldsLock(r) /\ Key(r) # Key(p)
      BY <1>5, <2>3, RecordTerms DEF WriteBalance, Unlocked
    <3>2. poster[r].pc \in {"apply", "write"}
      BY <2>3 DEF Holds
    <3>3. AccountOf(Event(r)) \in Accounts /\ NextDelta(r).mint \in Mints
      BY <3>2, EventOfPass, EventTypes, NextDeltaType
    <3>4. ~(AccountOf(Event(r)) = AccountOf(Event(p)) /\ NextDelta(r).mint = NextDelta(p).mint)
      BY <3>1 DEF Key
    <3>5. bal'[AccountOf(Event(r))][NextDelta(r).mint] = bal[AccountOf(Event(r))][NextDelta(r).mint]
      BY <1>5, <3>3, <3>4, BookingAdds
    <3> QED
      BY <3>5, RecordTerms
  <2> HIDE DEF n
  <2> QED
    BY <1>3, <2>1, <2>2, <2>3
<1>6. ASSUME NEW p \in Posters, SelectBalance(p) PROVE Locks'
  <2> DEFINE found == bal[AccountOf(Event(p))][NextDelta(p).mint]
             n == [poster[p] EXCEPT !.pc = "write", !.old = found]
  <2>1. UNCHANGED bal /\ Become(p, n) /\ Unlocked(p)
    BY <1>6 DEF SelectBalance
  <2>2. n.old = found /\ n.scope = poster[p].scope /\ n.todo = poster[p].todo
          /\ n.left = poster[p].left /\ n.batch = poster[p].batch
    BY <1>0 DEF PosterType
  <2>3. poster'[p] = n /\ \A r \in Posters \ {p} : poster'[r] = poster[r]
    BY <1>0, <2>1 DEF Become
  <2> HIDE DEF n
  <2>4. KeyOf(n) = Key(p) /\ AccOf(n) = AccountOf(Event(p)) /\ MintOf(n) = NextDelta(p).mint
    BY <2>2 DEF KeyOf, AccOf, MintOf, EventOf, Row, Key, Event, NextDelta
  <2>5. Held(n, bal')
    BY <2>1, <2>2, <2>4 DEF Held
  <2>6. \A r \in Posters \ {p} : Holds(poster[r]) => KeyOf(poster[r]) # KeyOf(n)
    BY <2>1, <2>4, RecordTerms DEF Unlocked
  <2> QED
    BY <2>1, <2>3, <2>5, <2>6 DEF Locks
<1> QED
  BY <1>2, <1>4, <1>5, <1>6, OtherSteps

\* The row locks hold whatever passes overlap.
LEMMA LocksInvariant == Spec => []Locks
<1>1. Init => Locks
  BY DEF Init, Locks, Held, Holds, Idle
<1>2. Placed /\ Locks /\ [Next]_vars => Locks'
  BY LocksStep
<1> QED
  BY <1>1, <1>2, PlacedInvariant, PTL DEF Spec

\* Whoever lowers an account puts the opens that have read it among the undercut,
\* and the deltas of an open have different mints.
LEMMA AffordableStep == Placed /\ Locks /\ Affordable /\ [Next]_vars => Affordable'
<1> SUFFICES ASSUME Placed, Locks, Affordable, [Next]_vars PROVE Affordable'
  OBVIOUS
<1> USE DEF tables, races
<1>0. /\ poster \in [Posters -> PosterType]
      /\ bal \in [Accounts -> [Mints -> Int \cup {NoRow}]]
      /\ \A p \in Posters : poster[p] \in PosterType /\ Fits(poster[p], filed, pslr)
  BY DEF Placed
<1>1. \A q, b : NotBooking(q) => Covered(q, b)
  BY DEF NotBooking, Covered, Spends
<1>2. CASE /\ UNCHANGED <<bal, posting, overwritten, undercut>>
           /\ \A r \in Posters : poster'[r] = poster[r] \/ NotBooking(poster'[r])
  BY <1>1, <1>2 DEF Affordable
<1>3. ASSUME NEW p \in Posters, NEW q, Become(p, q), p \in undercut' \/ Covered(q, bal'),
             \A r \in (Posters \ undercut') \ {p} : Covered(poster[r], bal')
      PROVE  Affordable'
  <2>1. poster'[p] = q /\ \A r \in Posters \ {p} : poster'[r] = poster[r]
    BY <1>0, <1>3 DEF Become
  <2> QED
    BY <1>3, <2>1 DEF Affordable
<1>4. ASSUME NEW p \in Posters, ReadRunning(p) PROVE Affordable'
  <2> DEFINE e == Event(p)
             capped == CapOpenDebits(e, bal[AccountOf(e)], PostingsOf(e))
             q == poster[p]
             n == [q EXCEPT !.pc = "apply", !.batch = capped, !.left = NonZero(capped)]
  <2>1. /\ At(p, "read") /\ UNCHANGED bal /\ undercut' = undercut \ {p}
        /\ Become(p, NextScope(q)) \/ Become(p, n)
    BY <1>4 DEF ReadRunning, Settle
  <2>2. /\ e \in EventIds /\ e[1] = q.scope /\ e[2] = Row(q)
        /\ bal[AccountOf(e)] \in [Mints -> Int \cup {NoRow}]
    BY <1>0, <2>1, EventOfPass, EventTypes DEF At
  <2>3. \A i \in DOMAIN capped :
          e[2] \in Opens /\ e[1] \in {"lifecycle", "chain_lifecycle"} /\ capped[i].delta < 0
            => Amount(bal[AccountOf(e)][capped[i].mint]) + capped[i].delta >= 0
    BY <2>2, CapType
  <2> HIDE DEF capped
  <2>4. /\ n.pc = "apply" /\ n.scope = q.scope /\ n.todo = q.todo
        /\ n.batch = capped /\ n.left = NonZero(capped)
    BY <1>0 DEF PosterType
  <2> HIDE DEF n
  <2>5. AccOf(n) = AccountOf(e) /\ Row(n) = Row(q)
    BY <2>4 DEF AccOf, EventOf, Event, Row
  <2>6. Covered(n, bal')
    BY <2>1, <2>2, <2>3, <2>4, <2>5 DEF Covered, Spends, NonZero
  <2>7. \A r \in (Posters \ undercut') \ {p} : Covered(poster[r], bal')
    BY <2>1 DEF Affordable
  <2>8. Covered(NextScope(q), bal')
    BY <1>0, <1>1, NextNotBooking
  <2> QED
    BY <1>3, <2>1, <2>6, <2>7, <2>8
<1>5. ASSUME NEW p \in Posters, SelectBalance(p) PROVE Affordable'
  <2> DEFINE q == poster[p]
             found == bal[AccountOf(Event(p))][NextDelta(p).mint]
             n == [q EXCEPT !.pc = "write", !.old = found]
  <2>1. At(p, "apply") /\ UNCHANGED <<bal, undercut>> /\ Become(p, n)
    BY <1>5 DEF SelectBalance
  <2>2. /\ n.pc = "write" /\ n.old = found /\ n.scope = q.scope /\ n.todo = q.todo
        /\ n.left = q.left /\ n.batch = q.batch
    BY <1>0 DEF PosterType
  <2>3. q.pc = "apply" /\ q.pc \in {"apply", "write"}
    BY <2>1 DEF At
  <2>4. Min(q.left) \in q.left /\ NextDelta(p).delta \in Int /\ NextDelta(p) = q.batch[Min(q.left)]
    BY <2>3, NextDeltaType DEF NextDelta
  <2> HIDE DEF n
  <2>5. AccOf(n) = AccOf(q) /\ Row(n) = Row(q) /\ AccOf(q) = AccountOf(Event(p))
    BY <2>2 DEF AccOf, EventOf, Event, Row
  <2>6. ASSUME p \notin undercut PROVE Covered(n, bal)
    <3> SUFFICES ASSUME Spends(n) PROVE Covered(n, bal)
      BY DEF Covered
    <3>1. Spends(q)
      BY <2>2, <2>3, <2>5 DEF Spends
    <3>2. \A i \in q.left : q.batch[i].delta < 0 =>
            Amount(bal[AccOf(q)][q.batch[i].mint]) + q.batch[i].delta >= 0
      BY <2>6, <3>1 DEF Affordable, Covered
    <3>3. ASSUME NextDelta(p).delta < 0 PROVE found # NoRow
      <4>1. Amount(found) + NextDelta(p).delta >= 0
        BY <2>4, <2>5, <3>2, <3>3
      <4>2. Amount(NoRow) = 0
        BY DEF Amount
      <4> QED
        BY <2>4, <3>3, <4>1, <4>2
    <3> QED
      BY <2>2, <2>4, <2>5, <3>2, <3>3 DEF Covered
  <2>7. \A r \in (Posters \ undercut') \ {p} : Covered(poster[r], bal')
    BY <2>1 DEF Affordable
  <2> QED
    BY <1>3, <2>1, <2>6, <2>7
<1>6. ASSUME NEW p \in Posters, WriteBalance(p) PROVE Affordable'
  <2> DEFINE q == poster[p]
             i == Min(q.left)
             rest == q.left \ {i}
             n == [q EXCEPT !.pc = "apply", !.left = rest, !.old = NoRow]
             e == Event(p)
             d == NextDelta(p).delta
             now == bal[AccountOf(e)][NextDelta(p).mint]
  <2>1. q.pc \in {"apply", "write"} /\ (Become(p, NextScope(q)) \/ Become(p, n))
    BY <1>6, BookingFacts, BookingAdds
  <2>2. /\ undercut \subseteq undercut'
        /\ Amount(q.old) + d < Amount(now) => Undercuts(p) \subseteq undercut'
    BY <1>6 DEF WriteBalance
  <2>3. ASSUME p \notin undercut PROVE Covered(n, bal')
    <3>1. /\ e \in EventIds /\ AccountOf(e) \in Accounts
          /\ e[1] = q.scope /\ e[2] = Row(q) /\ AccOf(q) = AccountOf(e)
      BY <2>1, EventOfPass, EventTypes DEF AccOf, EventOf, Event
    <3>2. /\ i \in q.left /\ q.left \subseteq DOMAIN PostingsOf(e)
          /\ \A j \in q.left : q.batch[j].mint = PostingsOf(e)[j].mint
                                 /\ q.batch[j] \in Delta
      <4>1. BatchFits(q) /\ q.batch \in Seq(Delta)
        BY <1>0, <2>1 DEF Fits, PosterType
      <4>2. i \in q.left
        BY <2>1, NextDeltaType
      <4>3. \A j \in DOMAIN q.batch : q.batch[j] \in Delta
        BY <4>1
      <4> QED
        BY <4>1, <4>2, <4>3 DEF BatchFits, Event
    <3>3. NextDelta(p) = q.batch[i]
      BY DEF NextDelta
    <3> HIDE DEF rest
    <3>4. /\ n.pc = "apply" /\ n.scope = q.scope /\ n.todo = q.todo
          /\ n.left = rest /\ n.batch = q.batch
      BY <1>0 DEF PosterType
    <3> HIDE DEF n
    <3>5. AccOf(n) = AccountOf(e) /\ Row(n) = Row(q)
      BY <3>1, <3>4 DEF AccOf, EventOf, Event, Row
    <3>6. ASSUME Spends(n), NEW j \in rest, q.batch[j].delta < 0
          PROVE  Amount(bal'[AccountOf(e)][q.batch[j].mint]) + q.batch[j].delta >= 0
      <4>1. j \in q.left /\ j # i
        BY DEF rest
      <4>2. Spends(q) /\ e[2] \in Opens /\ e[1] \in {"lifecycle", "chain_lifecycle"}
        BY <2>1, <3>1, <3>4, <3>5, <3>6 DEF Spends
      <4>3. PostingsOf(e) = Deltas[e[2]]
        BY <4>2 DEF PostingsOf
      <4>4. q.batch[j].mint # q.batch[i].mint /\ q.batch[j].mint \in Mints
        BY <3>2, <4>1, <4>2, <4>3, OpenAssumption DEF Delta
      <4>5. bal'[AccountOf(e)][q.batch[j].mint] = bal[AccountOf(e)][q.batch[j].mint]
        <5>1. \A m \in Mints : m # NextDelta(p).mint => bal'[AccountOf(e)][m] = bal[AccountOf(e)][m]
          <6> HIDE DEF i, q
          <6> QED
            BY <1>6, <3>1, BookingAdds
        <5> QED
          BY <3>3, <4>4, <5>1
      <4>6. Amount(bal[AccountOf(e)][q.batch[j].mint]) + q.batch[j].delta >= 0
        BY <2>3, <3>1, <3>6, <4>1, <4>2 DEF Affordable, Covered
      <4> QED
        BY <4>5, <4>6
    <3> QED
      BY <3>4, <3>5, <3>6 DEF Covered
  <2>4. ASSUME NEW r \in (Posters \ undercut') \ {p} PROVE Covered(poster[r], bal')
    <3>1. r \in Posters \ undercut /\ Covered(poster[r], bal)
      BY <2>2 DEF Affordable
    <3> SUFFICES ASSUME Spends(poster[r]) PROVE Covered(poster[r], bal')
      BY DEF Covered
    <3>2. poster[r].pc \in {"apply", "write"}
      BY DEF Spends
    <3>3. /\ Event(r) \in EventIds /\ AccountOf(Event(r)) \in Accounts
          /\ AccOf(poster[r]) = AccountOf(Event(r))
      BY <3>2, EventOfPass, EventTypes, RecordTerms
    <3>4. \A j \in poster[r].left : poster[r].batch[j] \in Delta
      <4>1. BatchFits(poster[r]) /\ poster[r].batch \in Seq(Delta)
        BY <1>0, <3>2 DEF Fits, PosterType
      <4>2. \A j \in DOMAIN poster[r].batch : poster[r].batch[j] \in Delta
        BY <4>1
      <4> QED
        BY <4>1, <4>2 DEF BatchFits
    <3>5. ASSUME NEW m \in Mints
          PROVE  /\ Amount(bal[AccOf(poster[r])][m]) \in Int
                 /\ Amount(bal'[AccOf(poster[r])][m]) \in Int
                 /\ Amount(bal'[AccOf(poster[r])][m]) >= Amount(bal[AccOf(poster[r])][m])
      <4>1. Amount(bal[AccountOf(Event(r))][m]) \in Int
        BY <1>0, <3>3, AmountType
      <4>2. CASE AccountOf(Event(r)) = AccountOf(e) /\ m = NextDelta(p).mint
        <5>1. r \in Undercuts(p)
          BY <3>2, <4>2 DEF Undercuts, Booking, Spends
        <5>2. ~(Amount(q.old) + d < Amount(now))
          BY <2>2, <5>1
        <5>3. /\ bal'[AccountOf(Event(r))][m] = Amount(q.old) + d
              /\ q.old \in Int \cup {NoRow} /\ d \in Int
          BY <1>6, <3>3, <4>2, BookingAdds
        <5>4. Amount(q.old) \in Int
          BY <5>3, AmountType
        <5>5. Amount(bal'[AccountOf(Event(r))][m]) = Amount(q.old) + d
          BY <5>3, <5>4, ConstantsAssumption DEF Amount
        <5> QED
          BY <3>3, <4>1, <4>2, <5>2, <5>3, <5>4, <5>5
      <4>3. CASE ~(AccountOf(Event(r)) = AccountOf(e) /\ m = NextDelta(p).mint)
        <5>1. bal'[AccountOf(Event(r))][m] = bal[AccountOf(Event(r))][m]
          BY <1>6, <3>3, <4>3, BookingAdds
        <5> QED
          BY <3>3, <4>1, <5>1
      <4> QED
        BY <4>2, <4>3
    <3>6. ASSUME NEW j \in poster[r].left, poster[r].batch[j].delta < 0
          PROVE  Amount(bal'[AccOf(poster[r])][poster[r].batch[j].mint])
                   + poster[r].batch[j].delta >= 0
      <4>1. poster[r].batch[j].mint \in Mints /\ poster[r].batch[j].delta \in Int
        BY <3>4 DEF Delta
      <4>2. Amount(bal[AccOf(poster[r])][poster[r].batch[j].mint])
              + poster[r].batch[j].delta >= 0
        BY <3>1, <3>6 DEF Covered
      <4> QED
        BY <3>5, <4>1, <4>2
    <3> QED
      BY <3>1, <3>6 DEF Covered
  <2>5. Covered(NextScope(q), bal')
    BY <1>0, <1>1, NextNotBooking
  <2> HIDE DEF n
  <2> QED
    BY <1>3, <2>1, <2>2, <2>3, <2>4, <2>5
<1> QED
  BY <1>2, <1>4, <1>5, <1>6, OtherSteps

\* An open that nobody has undercut can pay for what it still has to book.
LEMMA AffordableInvariant == Spec => []Affordable
<1>1. Init => Affordable
  BY DEF Init, Affordable, Covered, Spends, Idle
<1>2. Placed /\ Locks /\ Affordable /\ [Next]_vars => Affordable'
  BY AffordableStep
<1> QED
  BY <1>1, <1>2, PlacedInvariant, LocksInvariant, PTL DEF Spec

\* Whatever passes overlap, the debit of an open takes an account below zero only
\* if another pass has taken something from the account since its balance was
\* read: the row lock covers the rest (cap_open_debits_against_running_balance,
\* apply_balance_delta).
THEOREM OpensNeverOverdraw == Spec => OpenNeverOverdraws
<1> DEFINE A == \A p \in Posters \ undercut :
                  WriteBalance(p) /\ Row(poster[p]) \in Opens /\ NextDelta(p).delta < 0
                    /\ poster[p].scope \in {"lifecycle", "chain_lifecycle"}
                  => bal'[AccountOf(Event(p))][NextDelta(p).mint] >= 0
<1>1. Placed /\ Locks /\ Affordable /\ [Next]_vars => [A]_vars
  <2> SUFFICES ASSUME Placed, Locks, Affordable, NEW p \in Posters \ undercut,
                      WriteBalance(p), Row(poster[p]) \in Opens, NextDelta(p).delta < 0,
                      poster[p].scope \in {"lifecycle", "chain_lifecycle"}
               PROVE  bal'[AccountOf(Event(p))][NextDelta(p).mint] >= 0
    OBVIOUS
  <2>1. poster[p].pc = "write" /\ poster[p].pc \in {"apply", "write"}
    BY BookingFacts
  <2>2. Min(poster[p].left) \in poster[p].left
    BY <2>1, NextDeltaType
  <2>3. /\ AccOf(poster[p]) = AccountOf(Event(p)) /\ MintOf(poster[p]) = NextDelta(p).mint
        /\ poster[p].batch[Min(poster[p].left)] = NextDelta(p)
    BY RecordTerms
  <2>4. Covered(poster[p], bal) /\ Spends(poster[p])
    BY <2>1 DEF Affordable, Spends
  <2>5. /\ Amount(bal[AccountOf(Event(p))][NextDelta(p).mint]) + NextDelta(p).delta >= 0
        /\ poster[p].old # NoRow
    BY <2>1, <2>2, <2>3, <2>4 DEF Covered
  <2>6. bal[AccountOf(Event(p))][NextDelta(p).mint] = poster[p].old
    BY <2>1, <2>3, <2>5 DEF Locks, Held, Holds
  <2>7. bal'[AccountOf(Event(p))][NextDelta(p).mint] = Amount(poster[p].old) + NextDelta(p).delta
    BY BookingAdds
  <2> QED
    BY <2>5, <2>6, <2>7
<1>2. OpenNeverOverdraws <=> [][A]_vars
  BY DEF OpenNeverOverdraws
<1> HIDE DEF A
<1> QED
  BY <1>1, <1>2, PlacedInvariant, LocksInvariant, AffordableInvariant, PTL DEF Spec

\* What the ids of a row contribute is an integer.
LEMMA RowTotalType ==
  ASSUME Placed, NEW a, NEW m \in Mints, NEW r \in Rows
  PROVE  /\ \A s \in Scopes : Share(a, m, <<s, r>>) \in Int
         /\ RowTotal(a, m, r) \in Int
<1>1. ASSUME NEW s \in Scopes PROVE Share(a, m, <<s, r>>) \in Int
  <2>1. <<s, r>> \in EventIds
    BY DEF EventIds
  <2>2. posting[<<s, r>>][m] \in [entries : Nat, total : Int]
    BY <2>1 DEF Placed
  <2> QED
    BY <2>2 DEF Share
<1>2. /\ Share(a, m, <<"lifecycle", r>>) \in Int /\ Share(a, m, <<"tx_fee", r>>) \in Int
      /\ Share(a, m, <<"chain_lifecycle", r>>) \in Int /\ Share(a, m, <<"journal", r>>) \in Int
  BY <1>1 DEF Scopes
<1> QED
  BY <1>1, <1>2 DEF RowTotal

\* A booking adds its delta to the total of its row, in its account and mint.
LEMMA BookingRowTotal ==
  ASSUME Placed, NEW p \in Posters, WriteBalance(p), NEW a, NEW m \in Mints, NEW r \in Rows
  PROVE  RowTotal(a, m, r)' =
           IF a = AccountOf(Event(p)) /\ m = NextDelta(p).mint /\ r = Row(poster[p])
           THEN RowTotal(a, m, r) + NextDelta(p).delta ELSE RowTotal(a, m, r)
<1> DEFINE hit(s) == a = AccountOf(Event(p)) /\ m = NextDelta(p).mint /\ Event(p) = <<s, r>>
           d == NextDelta(p).delta
<1>1. poster[p].pc \in {"apply", "write"}
  BY BookingFacts
<1>2. /\ Event(p) \in EventIds /\ Event(p) = <<Event(p)[1], Event(p)[2]>>
      /\ Event(p)[1] \in Scopes /\ Event(p)[2] = Row(poster[p]) /\ d \in Int
  BY <1>1, EventOfPass, EventTypes, NextDeltaType
<1>3. ASSUME NEW s \in Scopes
      PROVE  Share(a, m, <<s, r>>)' =
               IF hit(s) THEN Share(a, m, <<s, r>>) + d ELSE Share(a, m, <<s, r>>)
  <2>1. <<s, r>> \in EventIds
    BY DEF EventIds
  <2>2. CASE hit(s)
    <3>1. posting'[<<s, r>>][m].total = posting[<<s, r>>][m].total + d
      BY <2>1, <2>2, BookingChanges
    <3> QED
      BY <2>2, <3>1 DEF Share
  <2>3. CASE ~hit(s)
    <3>1. CASE AccountOf(<<s, r>>) # a
      BY <2>3, <3>1 DEF Share
    <3>2. CASE AccountOf(<<s, r>>) = a
      <4>1. ~(<<s, r>> = Event(p) /\ m = NextDelta(p).mint)
        BY <2>3, <3>2
      <4>2. posting'[<<s, r>>][m] = posting[<<s, r>>][m]
        BY <2>1, <4>1, BookingChanges
      <4> QED
        BY <2>3, <4>2 DEF Share
    <3> QED
      BY <3>1, <3>2
  <2> QED
    BY <2>2, <2>3
<1>4. \A s \in Scopes : Share(a, m, <<s, r>>) \in Int
  BY RowTotalType
<1>5. CASE a = AccountOf(Event(p)) /\ m = NextDelta(p).mint /\ r = Row(poster[p])
  <2>1. PICK t \in Scopes : Event(p) = <<t, r>>
    BY <1>2, <1>5
  <2>2. \A s \in Scopes : hit(s) <=> s = t
    BY <1>5, <2>1
  <2> HIDE DEF hit
  <2>3. \A s \in Scopes : Share(a, m, <<s, r>>)' = IF s = t THEN Share(a, m, <<s, r>>) + d
                                                   ELSE Share(a, m, <<s, r>>)
    BY <1>3, <2>2
  <2>4. /\ "lifecycle" \in Scopes /\ "tx_fee" \in Scopes /\ "chain_lifecycle" \in Scopes
        /\ "journal" \in Scopes
        /\ t = "lifecycle" \/ t = "tx_fee" \/ t = "chain_lifecycle" \/ t = "journal"
    BY DEF Scopes
  <2>5. RowTotal(a, m, r)' = RowTotal(a, m, r) + d
    <3> HIDE DEF d
    <3>1. d \in Int
      BY <1>2
    <3>2. CASE t = "lifecycle"
      BY <1>4, <2>3, <2>4, <3>1, <3>2 DEF RowTotal
    <3>3. CASE t = "tx_fee"
      BY <1>4, <2>3, <2>4, <3>1, <3>3 DEF RowTotal
    <3>4. CASE t = "chain_lifecycle"
      BY <1>4, <2>3, <2>4, <3>1, <3>4 DEF RowTotal
    <3>5. CASE t = "journal"
      BY <1>4, <2>3, <2>4, <3>1, <3>5 DEF RowTotal
    <3> QED
      BY <2>4, <3>2, <3>3, <3>4, <3>5
  <2> QED
    BY <1>5, <2>5
<1>6. CASE ~(a = AccountOf(Event(p)) /\ m = NextDelta(p).mint /\ r = Row(poster[p]))
  <2>1. \A s \in Scopes : ~hit(s)
    BY <1>2, <1>6
  <2>2. \A s \in Scopes : Share(a, m, <<s, r>>)' = Share(a, m, <<s, r>>)
    BY <1>3, <2>1
  <2>3. /\ "lifecycle" \in Scopes /\ "tx_fee" \in Scopes /\ "chain_lifecycle" \in Scopes
        /\ "journal" \in Scopes
    BY DEF Scopes
  <2>4. RowTotal(a, m, r)' = RowTotal(a, m, r)
    BY <2>2, <2>3 DEF RowTotal
  <2> QED
    BY <1>6, <2>4
<1> QED
  BY <1>5, <1>6

\* Without balances and postings both sides of the equation are zero.
LEMMA BalancedInit == Init => BalanceIsSumOfPostings
<1> SUFFICES ASSUME Init, NEW a \in Accounts, NEW m \in Mints
             PROVE  Amount(bal[a][m]) = SumTo([r \in Rows |-> RowTotal(a, m, r)], N)
  BY DEF BalanceIsSumOfPostings
<1>1. Amount(bal[a][m]) = 0
  BY DEF Init, Amount
<1>2. ASSUME NEW r \in Rows PROVE RowTotal(a, m, r) = 0
  <2>1. \A s \in Scopes : posting[<<s, r>>][m].total = 0
    BY DEF Init, EventIds
  <2>2. \A s \in Scopes : Share(a, m, <<s, r>>) = 0
    BY <2>1 DEF Share
  <2> QED
    BY <2>2 DEF RowTotal, Scopes
<1> DEFINE F == [r \in Rows |-> RowTotal(a, m, r)]
<1>3. N \in Nat /\ \A i \in 1..N : F[i] = 0
  BY <1>2, ConstantsAssumption DEF Rows
<1> HIDE DEF F
<1>4. SumTo(F, N) = 0
  BY <1>3, SumOfZeros
<1> QED
  BY <1>1, <1>4 DEF F

\* A booking that has found the row adds to it, and so does one that has found
\* none where there still is none; the insert onto a new row is remembered.
LEMMA BookingAddsToRow ==
  ASSUME Placed, Locks, NEW p \in Posters, WriteBalance(p), Key(p) \notin overwritten'
  PROVE  poster[p].old = bal[AccountOf(Event(p))][NextDelta(p).mint]
<1>1. poster[p].pc = "write"
  BY BookingFacts
<1>2. CASE poster[p].old = NoRow
  BY <1>2 DEF WriteBalance
<1>3. CASE poster[p].old # NoRow
  BY <1>1, <1>3, RecordTerms DEF Locks, Held, Holds
<1> QED
  BY <1>2, <1>3

\* Every booking adds the same delta to a balance and to a posting.
LEMMA BalancedStep ==
  Placed /\ Locks /\ BalanceIsSumOfPostings /\ [Next]_vars => BalanceIsSumOfPostings'
<1> SUFFICES ASSUME Placed, Locks, BalanceIsSumOfPostings, [Next]_vars
             PROVE  BalanceIsSumOfPostings'
  OBVIOUS
<1>1. CASE UNCHANGED <<bal, posting, overwritten>>
  BY <1>1 DEF BalanceIsSumOfPostings, RowTotal, Share
<1>2. ASSUME NEW p \in Posters, WriteBalance(p), NEW a \in Accounts, NEW m \in Mints,
             <<a, m>> \notin overwritten'
      PROVE  Amount(bal'[a][m]) = SumTo([r \in Rows |-> RowTotal(a, m, r)'], N)
  <2> DEFINE F == [r \in Rows |-> RowTotal(a, m, r)]
             G == [r \in Rows |-> RowTotal(a, m, r)']
             d == NextDelta(p).delta
             here == a = AccountOf(Event(p)) /\ m = NextDelta(p).mint
             row == Row(poster[p])
  <2>1. poster[p].pc \in {"apply", "write"}
    BY <1>2, BookingFacts
  <2>2. d \in Int /\ row \in 1..N /\ N \in Nat
    BY <2>1, EventOfPass, NextDeltaType, ConstantsAssumption DEF Rows
  <2>3. \A i \in 1..N : F[i] \in Int
    BY RowTotalType DEF Rows
  <2>4. \A i \in 1..N : G[i] = IF here /\ i = row THEN F[i] + d ELSE F[i]
    BY <1>2, BookingRowTotal DEF Rows
  <2>5. Amount(bal[a][m]) = SumTo(F, N) /\ Amount(bal[a][m]) \in Int
    <3>1. bal[a][m] \in Int \cup {NoRow}
      BY DEF Placed
    <3>2. <<a, m>> \notin overwritten
      BY <1>2 DEF WriteBalance
    <3> QED
      BY <3>1, <3>2, AmountType DEF BalanceIsSumOfPostings
  <2>6. bal'[a][m] = IF here THEN Amount(bal[a][m]) + d ELSE bal[a][m]
    <3>1. here => Key(p) \notin overwritten'
      BY <1>2 DEF Key
    <3>2. here => poster[p].old = bal[a][m]
      BY <1>2, <3>1, BookingAddsToRow
    <3> QED
      BY <1>2, <3>2, BookingAdds
  <2>7. G = [r \in Rows |-> RowTotal(a, m, r)']
    OBVIOUS
  <2>8. F \in [Rows -> Int] /\ DOMAIN G = Rows
    BY <2>3 DEF Rows
  <2>9. CASE here
    <3> HIDE DEF F, G, d, here, row
    <3>1. \A i \in 1..N : G[i] = IF i = row THEN F[i] + d ELSE F[i]
      BY <2>4, <2>9
    <3>2. SumTo(G, N) = SumTo(F, N) + d
      BY <2>2, <2>3, <3>1, SumChange
    <3>3. Amount(bal'[a][m]) = Amount(bal[a][m]) + d
      BY <2>2, <2>5, <2>6, <2>9, ConstantsAssumption DEF Amount
    <3> QED
      BY <2>5, <2>7, <3>2, <3>3
  <2>10. CASE ~here
    <3>1. G = F
      <4> HIDE DEF d, here, row
      <4>1. \A i \in Rows : RowTotal(a, m, i)' = RowTotal(a, m, i)
        BY <2>4, <2>10 DEF Rows
      <4> QED
        BY <4>1
    <3> HIDE DEF F, G, d, here, row
    <3> QED
      BY <2>5, <2>6, <2>7, <2>10, <3>1
  <2> QED
    BY <2>9, <2>10
<1>3. ASSUME NEW p \in Posters, ReadRunning(p) \/ SelectBalance(p)
      PROVE  UNCHANGED <<bal, posting, overwritten>>
  BY <1>3 DEF ReadRunning, SelectBalance, tables, races
<1> QED
  BY <1>1, <1>2, <1>3, OtherSteps DEF BalanceIsSumOfPostings

\* Whatever passes overlap, and wherever errors and restarts cut them off, the
\* cached balance of every account and mint is the total of its posting entries,
\* unless the insert of its first row came when another had made one.
THEOREM BalancesAreSums == Spec => []BalanceIsSumOfPostings
BY BalancedInit, BalancedStep, PlacedInvariant, LocksInvariant, PTL DEF Spec
=============================================================================
