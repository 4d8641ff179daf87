-------------------------- MODULE WalletCapsProofs --------------------------
(***************************************************************************)
(* The spend caps of WalletGl: while nothing disturbs the passes, the caps *)
(* of a session and of the chain are its inventory.                        *)
(***************************************************************************)
EXTENDS WalletGlProofs

-----------------------------------------------------------------------------
(* Running balances.                                                       *)

\* What AggregateSums computes: the balances after each of the first n rows.
RunsTo(s, rows, n, f) ==
  f = [k \in 0..n |-> IF k = 0 THEN [m \in Mints |-> NoRow]
                      ELSE IF k \in rows
                           THEN ApplyCapped(f[k - 1], EventId(s, k), Deltas[k])
                           ELSE f[k - 1]]

\* The running balances exist.
LEMMA RunsExist ==
  ASSUME NEW s, NEW rows, NEW n \in Nat
  PROVE  \E f : RunsTo(s, rows, n, f)
<1> DEFINE Missing == {k \in Nat : ~\E f : RunsTo(s, rows, k, f)}
<1>1. SUFFICES ASSUME Missing # {} PROVE FALSE
  OBVIOUS
<1>2. PICK k \in Missing : \A j \in Missing : k <= j
  BY <1>1, NatMin
<1>3. CASE k = 0
  <2>1. RunsTo(s, rows, 0, [j \in 0..0 |-> [m \in Mints |-> NoRow]])
    BY DEF RunsTo
  <2> QED
    BY <1>2, <1>3, <2>1
<1>4. CASE k # 0
  <2>1. k - 1 \in Nat /\ k - 1 \notin Missing
    BY <1>2, <1>4
  <2>2. PICK f : RunsTo(s, rows, k - 1, f)
    BY <2>1
  <2> DEFINE step(g, j) == IF j \in rows THEN ApplyCapped(g, EventId(s, j), Deltas[j]) ELSE g
             t == [j \in 0..k |-> IF j = k THEN step(f[k - 1], k) ELSE f[j]]
             none == [m \in Mints |-> NoRow]
  <2>3. \A j \in 0..(k - 1) : f[j] = IF j = 0 THEN none ELSE step(f[j - 1], j)
    BY <2>2 DEF RunsTo
  <2>4. RunsTo(s, rows, k, t) <=> t = [j \in 0..k |-> IF j = 0 THEN none ELSE step(t[j - 1], j)]
    BY DEF RunsTo
  <2> HIDE DEF step, none
  <2>5. ASSUME NEW j \in 0..k PROVE t[j] = IF j = 0 THEN none ELSE step(t[j - 1], j)
    <3>1. CASE j = k
      BY <1>2, <1>4, <3>1
    <3>2. CASE j # k
      BY <1>2, <2>3, <3>2
    <3> QED
      BY <3>1, <3>2
  <2>6. t = [j \in 0..k |-> IF j = 0 THEN none ELSE step(t[j - 1], j)]
    BY <2>5
  <2> QED
    BY <1>2, <2>4, <2>6
<1> QED
  BY <1>3, <1>4

\* Up to the row where two sets of rows part, their running balances agree.
LEMMA RunsAgree ==
  ASSUME NEW s, NEW rows, NEW more, NEW n \in Nat, NEW f, NEW g,
         RunsTo(s, rows, n, f), RunsTo(s, more, n, g),
         NEW k \in 0..n, \A j \in 1..k : j \in rows <=> j \in more
  PROVE  f[k] = g[k]
<1> DEFINE Apart == {j \in Nat : j <= k /\ f[j] # g[j]}
<1>1. SUFFICES ASSUME Apart # {} PROVE FALSE
  OBVIOUS
<1>2. PICK j \in Apart : \A i \in Apart : j <= i
  BY <1>1, NatMin
<1> DEFINE step(h, i) == ApplyCapped(h, EventId(s, i), Deltas[i])
           none == [m \in Mints |-> NoRow]
<1>3. \A i \in 0..n :
        /\ f[i] = IF i = 0 THEN none ELSE IF i \in rows THEN step(f[i - 1], i) ELSE f[i - 1]
        /\ g[i] = IF i = 0 THEN none ELSE IF i \in more THEN step(g[i - 1], i) ELSE g[i - 1]
  BY DEF RunsTo
<1> HIDE DEF step, none
<1>4. j # 0
  BY <1>2, <1>3
<1>5. f[j - 1] = g[j - 1]
  BY <1>2, <1>4
<1>6. j \in rows <=> j \in more
  BY <1>2, <1>4
<1> QED
  BY <1>2, <1>3, <1>4, <1>5, <1>6

\* After the last row of the set the running balances do not change.
LEMMA RunsStop ==
  ASSUME NEW s, NEW rows, NEW n \in Nat, NEW f, RunsTo(s, rows, n, f),
         NEW k \in 0..n, \A j \in 1..n : j > k => j \notin rows
  PROVE  f[n] = f[k]
<1> DEFINE Apart == {j \in Nat : k <= j /\ j <= n /\ f[j] # f[k]}
<1>1. SUFFICES ASSUME Apart # {} PROVE FALSE
  OBVIOUS
<1>2. PICK j \in Apart : \A i \in Apart : j <= i
  BY <1>1, NatMin
<1>3. j # k /\ j > k
  BY <1>2
<1>4. j \notin rows
  BY <1>2, <1>3
<1>5. f[j] = f[j - 1]
  BY <1>2, <1>3, <1>4 DEF RunsTo
<1>6. f[j - 1] = f[k]
  BY <1>2, <1>3
<1> QED
  BY <1>2, <1>5, <1>6

\* AggregateSums is the last of the running balances.
LEMMA AggregateIs ==
  ASSUME NEW s, NEW rows
  PROVE  \E f : RunsTo(s, rows, N, f) /\ AggregateSums(s, rows) = f[N]
<1> DEFINE c == CHOOSE f : RunsTo(s, rows, N, f)
<1>1. RunsTo(s, rows, N, c)
  BY RunsExist, ConstantsAssumption
<1>2. AggregateSums(s, rows) = c[N]
  BY DEF AggregateSums, RunsTo
<1> QED
  BY <1>1, <1>2

\* No rows, no balances; one row more is applied last.
LEMMA AggregateSteps ==
  ASSUME NEW s
  PROVE  /\ AggregateSums(s, {}) = [m \in Mints |-> NoRow]
         /\ \A k \in Rows : \A rows \in SUBSET (1..(k - 1)) :
              AggregateSums(s, rows \cup {k}) =
                ApplyCapped(AggregateSums(s, rows), EventId(s, k), Deltas[k])
<1>0. N \in Nat
  BY ConstantsAssumption
<1>1. AggregateSums(s, {}) = [m \in Mints |-> NoRow]
  <2>1. PICK f : RunsTo(s, {}, N, f) /\ AggregateSums(s, {}) = f[N]
    BY AggregateIs
  <2>2. f[N] = f[0]
    BY <1>0, <2>1, RunsStop
  <2>3. f[0] = [m \in Mints |-> NoRow]
    BY <1>0, <2>1 DEF RunsTo
  <2> QED
    BY <2>1, <2>2, <2>3
<1>2. ASSUME NEW k \in Rows, NEW rows \in SUBSET (1..(k - 1))
      PROVE  AggregateSums(s, rows \cup {k}) =
               ApplyCapped(AggregateSums(s, rows), EventId(s, k), Deltas[k])
  <2>0. k \in 1..N /\ k \in 0..N /\ k - 1 \in 0..N
    BY <1>0 DEF Rows
  <2>1. PICK f : RunsTo(s, rows, N, f) /\ AggregateSums(s, rows) = f[N]
    BY AggregateIs
  <2>2. PICK g : RunsTo(s, rows \cup {k}, N, g) /\ AggregateSums(s, rows \cup {k}) = g[N]
    BY AggregateIs
  <2>3. f[N] = f[k - 1]
    <3>1. \A j \in 1..N : j > k - 1 => j \notin rows
      BY <2>0
    <3> QED
      BY <1>0, <2>0, <2>1, <3>1, RunsStop
  <2>4. g[N] = g[k]
    <3>1. \A j \in 1..N : j > k => j \notin rows \cup {k}
      BY <2>0
    <3> QED
      BY <1>0, <2>0, <2>2, <3>1, RunsStop
  <2>5. g[k - 1] = f[k - 1]
    <3>1. \A j \in 1..(k - 1) : j \in rows \cup {k} <=> j \in rows
      BY <2>0
    <3> QED
      BY <1>0, <2>0, <2>1, <2>2, <3>1, RunsAgree
  <2>6. g[k] = ApplyCapped(g[k - 1], EventId(s, k), Deltas[k])
    BY <1>0, <2>0, <2>2 DEF RunsTo
  <2> QED
    BY <2>1, <2>2, <2>3, <2>4, <2>5, <2>6
<1> QED
  BY <1>1, <1>2

-----------------------------------------------------------------------------
(* Spend caps.  Without a fault, a capped debit, a journal posting or an    *)
(* overlap the passes post the rows in the order of the file: the rows      *)
(* posted in a scope are always a prefix of the file, and one row more      *)
(* while a pass is at it.                                                   *)

\* The two scopes whose balances bound an open, and the accounts they post to.
CapScopes == {"lifecycle", "chain_lifecycle"}

AccountsOf(s) == IF s = "lifecycle" THEN Sessions ELSE {CHAIN}

\* The capped running balance of an account over the first k rows.
SumsTo(s, a, k) == AggregateSums(s, InAccount(a, 1..k))

\* The plain sum of the deltas of an account in the first k rows.
InventoryTo(a, m, k) ==
  SumTo([r \in Rows |-> IF r \in InAccount(a, 1..k) THEN TotalOf(Deltas[r], m) ELSE 0], N)

\* No debit in the first k rows was capped.
Exact(s, a, k) ==
  /\ SumsTo(s, a, k) \in [Mints -> Int \cup {NoRow}]
  /\ \A m \in Mints : Amount(SumsTo(s, a, k)[m]) = InventoryTo(a, m, k)

\* The total of the deltas of a mint that are not left to be booked.
PartTotal(posts, left, m) ==
  SumTo([i \in DOMAIN posts |-> IF posts[i].mint = m /\ i \notin left
                                THEN posts[i].delta ELSE 0], Len(posts))

\* The balances once all but the deltas in left are booked.
Booked(base, posts, left) ==
  [m \in Mints |-> IF \E i \in NonZero(posts) \ left : posts[i].mint = m
                   THEN Amount(base[m]) + PartTotal(posts, left, m) ELSE base[m]]

\* The first k rows have entries, if they have anything to book.
BookedTo(s, k, post) ==
  \A r \in Rows : r <= k /\ NonZero(Deltas[r]) # {} =>
    \E m \in Mints : post[<<s, r>>][m].entries > 0

\* No row after the first k has entries.
NoneAfter(s, k, post) == \A r \in Rows : r > k => NoEntries(<<s, r>>, post)

\* Exactly the first k rows are booked in a scope.
DoneTo(s, k, b, post) ==
  /\ \A a \in AccountsOf(s) : Exact(s, a, k) /\ b[a] = SumsTo(s, a, k)
  /\ BookedTo(s, k, post)
  /\ NoneAfter(s, k, post)

\* The first rows are booked and the row of a pass is booked in part.
PartDone(s, q, b, post) ==
  LET k == Row(q)
      e == EventId(s, k)
      base == SumsTo(s, AccountOf(e), k - 1)
  IN  /\ \A a \in AccountsOf(s) :
           /\ Exact(s, a, k - 1)
           /\ a # AccountOf(e) => b[a] = SumsTo(s, a, k - 1)
      /\ CapOpenDebits(e, base, Deltas[k]) = Deltas[k]
      /\ q.batch = Deltas[k]
      /\ q.left \subseteq NonZero(Deltas[k])
      /\ b[AccountOf(e)] = Booked(base, Deltas[k], q.left)
      /\ BookedTo(s, k - 1, post)
      /\ NoneAfter(s, k, post)

\* The rows before a pass: the rest of the file, or rows that are stored.
OnItsWay(q, k) ==
  /\ q.pass # "journal"
  /\ q.pass = "ingest" => \E f \in Rows : q.todo = Row(q)..f
  /\ q.pass # "ingest" => q.todo \subseteq 1..k
  /\ q.pc = "upsert" => q.scope = "lifecycle"

\* A pass over the first k rows, which are booked: it has nothing to book but
\* fees; or it is about to store the next row.
Replays(q, k) ==
  q.pc # "idle" =>
    /\ Row(q) \in 1..k \/ (q.pc = "upsert" /\ Row(q) = k + 1)
    /\ q.pc \in {"apply", "write"} => q.scope = "tx_fee"
    /\ q.pc = "read" /\ q.scope # "tx_fee" => NonZero(Deltas[Row(q)]) = {}

\* A pass at a row it has just stored, the last of the first k.
Extends(q, k, b, post) ==
  /\ q.pass = "ingest" /\ Row(q) = k
  /\ \/ /\ q.scope = "lifecycle" /\ q.pc \in {"check", "read"}
        /\ DoneTo("lifecycle", k - 1, b, post) /\ DoneTo("chain_lifecycle", k - 1, b, post)
     \/ /\ q.scope = "lifecycle" /\ q.pc \in {"apply", "write"}
        /\ PartDone("lifecycle", q, b, post) /\ DoneTo("chain_lifecycle", k - 1, b, post)
     \/ /\ q.scope = "tx_fee" /\ q.pc \in {"check", "read", "apply", "write"}
        /\ DoneTo("lifecycle", k, b, post) /\ DoneTo("chain_lifecycle", k - 1, b, post)
     \/ /\ q.scope = "chain_lifecycle" /\ q.pc \in {"check", "read"}
        /\ DoneTo("lifecycle", k, b, post) /\ DoneTo("chain_lifecycle", k - 1, b, post)
     \/ /\ q.scope = "chain_lifecycle" /\ q.pc \in {"apply", "write"}
        /\ DoneTo("lifecycle", k, b, post) /\ PartDone("chain_lifecycle", q, b, post)
     \/ /\ q.pc = "link"
        /\ DoneTo("lifecycle", k, b, post) /\ DoneTo("chain_lifecycle", k, b, post)

\* Where a pass is when the first k rows are stored.
Tracks(q, k, ln, b, post) ==
  /\ OnItsWay(q, k)
  /\ \/ /\ ln = 1..k
        /\ DoneTo("lifecycle", k, b, post) /\ DoneTo("chain_lifecycle", k, b, post)
        /\ Replays(q, k)
     \/ /\ k >= 1 /\ ln = 1..(k - 1)
        /\ Extends(q, k, b, post)

\* What a pass has found is still so.
Found(q, b) == q.pc = "write" => q.old = b[AccOf(q)][MintOf(q)]

\* The stored rows are a prefix of the file, one pass is where it can be, and the
\* others are at rest.
InOrder ==
  ~tainted => \E k \in 0..N, p \in Posters :
    /\ pslr = 1..k
    /\ Tracks(poster[p], k, linked, bal, posting)
    /\ Found(poster[p], bal)
    /\ \A r \in Posters \ {p} : At(r, "idle")

-----------------------------------------------------------------------------
(* Booking the deltas of a row one by one.                                 *)

\* The deltas of a row, and a mint's part in each.
LEMMA PostsTypes ==
  ASSUME NEW posts \in Seq(Delta)
  PROVE  /\ Len(posts) \in Nat /\ DOMAIN posts = 1..Len(posts)
         /\ \A i \in DOMAIN posts : /\ posts[i].mint \in Mints /\ posts[i].delta \in Int
                                    /\ i \in Nat
         /\ NonZero(posts) \subseteq DOMAIN posts
<1>1. \A i \in DOMAIN posts : posts[i] \in Delta
  OBVIOUS
<1>2. Len(posts) \in Nat /\ DOMAIN posts = 1..Len(posts)
  OBVIOUS
<1> QED
  BY <1>1, <1>2 DEF Delta, NonZero

\* Totals are integers.
LEMMA PartTotalType ==
  ASSUME NEW posts \in Seq(Delta), NEW left, NEW m
  PROVE  PartTotal(posts, left, m) \in Int
<1> DEFINE F == [i \in DOMAIN posts |-> IF posts[i].mint = m /\ i \notin left
                                        THEN posts[i].delta ELSE 0]
<1>1. Len(posts) \in Nat /\ \A i \in 1..Len(posts) : F[i] \in Int
  BY PostsTypes
<1> HIDE DEF F
<1>2. SumTo(F, Len(posts)) \in Int
  BY <1>1, SumType
<1> QED
  BY <1>2 DEF PartTotal, F

\* Deltas of a mint that are zero or left to be booked add up to nothing.
LEMMA PartTotalZero ==
  ASSUME NEW posts \in Seq(Delta), NEW left, NEW m,
         \A i \in NonZero(posts) \ left : posts[i].mint # m
  PROVE  PartTotal(posts, left, m) = 0
<1> DEFINE F == [i \in DOMAIN posts |-> IF posts[i].mint = m /\ i \notin left
                                        THEN posts[i].delta ELSE 0]
<1>1. Len(posts) \in Nat /\ \A i \in 1..Len(posts) : F[i] = 0
  BY PostsTypes DEF NonZero
<1> HIDE DEF F
<1>2. SumTo(F, Len(posts)) = 0
  BY <1>1, SumOfZeros
<1> QED
  BY <1>2 DEF PartTotal, F

\* Booking one delta more.
LEMMA PartTotalStep ==
  ASSUME NEW posts \in Seq(Delta), NEW left, NEW i \in left, i \in DOMAIN posts, NEW m
  PROVE  PartTotal(posts, left \ {i}, m) =
           PartTotal(posts, left, m) + IF posts[i].mint = m THEN posts[i].delta ELSE 0
<1> DEFINE F == [j \in DOMAIN posts |-> IF posts[j].mint = m /\ j \notin left
                                        THEN posts[j].delta ELSE 0]
           G == [j \in DOMAIN posts |-> IF posts[j].mint = m /\ j \notin left \ {i}
                                        THEN posts[j].delta ELSE 0]
           d == IF posts[i].mint = m THEN posts[i].delta ELSE 0
<1>1. /\ Len(posts) \in Nat /\ i \in 1..Len(posts) /\ d \in Int
      /\ \A j \in 1..Len(posts) : F[j] \in Int
      /\ \A j \in 1..Len(posts) : G[j] = IF j = i THEN F[j] + d ELSE F[j]
  <2>1. /\ DOMAIN posts = 1..Len(posts) /\ Len(posts) \in Nat
        /\ \A j \in DOMAIN posts : posts[j].delta \in Int
    BY PostsTypes
  <2>2. d \in Int
    BY <2>1
  <2>3. ASSUME NEW j \in DOMAIN posts
        PROVE  F[j] \in Int /\ G[j] = IF j = i THEN F[j] + d ELSE F[j]
    BY <2>1
  <2> QED
    BY <2>1, <2>2, <2>3
<1> HIDE DEF F, G, d
<1>2. SumTo(G, Len(posts)) = SumTo(F, Len(posts)) + d
  BY <1>1, SumChange
<1> QED
  BY <1>2 DEF PartTotal, F, G, d

\* With nothing booked the balances are what they were, with everything booked
\* they are the running balances after the row.
LEMMA BookedSteps ==
  ASSUME NEW base \in [Mints -> Int \cup {NoRow}], NEW posts \in Seq(Delta)
  PROVE  /\ Booked(base, posts, NonZero(posts)) = base
         /\ \A e : CapOpenDebits(e, base, posts) = posts =>
              Booked(base, posts, {}) = ApplyCapped(base, e, posts)
         /\ Booked(base, posts, {}) \in [Mints -> Int \cup {NoRow}]
         /\ \A m \in Mints :
              Amount(Booked(base, posts, {})[m]) = Amount(base[m]) + TotalOf(posts, m)
<1>0. \A m \in Mints : Amount(base[m]) \in Int
  BY AmountType
<1>1. Booked(base, posts, NonZero(posts)) = base
  BY DEF Booked
<1>2. \A m : PartTotal(posts, {}, m) = TotalOf(posts, m)
  BY DEF PartTotal, TotalOf
<1>3. ASSUME NEW e, CapOpenDebits(e, base, posts) = posts
      PROVE  Booked(base, posts, {}) = ApplyCapped(base, e, posts)
  <2>1. ApplyCapped(base, e, posts) =
          [m \in Mints |-> IF \E i \in NonZero(posts) : posts[i].mint = m
                           THEN Amount(base[m]) + TotalOf(posts, m) ELSE base[m]]
    BY <1>3 DEF ApplyCapped
  <2>2. NonZero(posts) \ {} = NonZero(posts)
    OBVIOUS
  <2> QED
    BY <1>2, <2>1, <2>2 DEF Booked
<1>5. Booked(base, posts, {}) \in [Mints -> Int \cup {NoRow}]
  <2>1. \A m \in Mints : Amount(base[m]) + PartTotal(posts, {}, m) \in Int
    BY <1>0, PartTotalType
  <2> QED
    BY <2>1 DEF Booked
<1>6. ASSUME NEW m \in Mints
      PROVE  Amount(Booked(base, posts, {})[m]) = Amount(base[m]) + TotalOf(posts, m)
  <2> DEFINE some == \E j \in NonZero(posts) \ {} : posts[j].mint = m
             all == PartTotal(posts, {}, m)
  <2>1. Booked(base, posts, {})[m] = IF some THEN Amount(base[m]) + all ELSE base[m]
    BY DEF Booked
  <2>2. all \in Int /\ all = TotalOf(posts, m)
    BY <1>2, PartTotalType
  <2>3. ~some => all = 0
    BY PartTotalZero
  <2> HIDE DEF some, all
  <2>4. Amount(Amount(base[m]) + all) = Amount(base[m]) + all
    BY <1>0, <2>2, ConstantsAssumption DEF Amount
  <2> QED
    BY <1>0, <2>1, <2>2, <2>3, <2>4
<1> QED
  BY <1>1, <1>3, <1>5, <1>6

\* A balance with a delta added, where there may be no row yet.
Plus(x, d) == Amount(x) + d

\* Deltas left to be booked.
Pending(left, posts) == left \subseteq NonZero(posts)

\* Each delta is added in turn.
LEMMA BookedOneMore ==
  ASSUME NEW base \in [Mints -> Int \cup {NoRow}], NEW posts \in Seq(Delta),
         NEW left, Pending(left, posts), NEW i, i \in left,
         NEW rest, rest = left \ {i}, NEW m \in Mints
  PROVE  Booked(base, posts, rest)[m] =
           IF m = posts[i].mint
           THEN Plus(Booked(base, posts, left)[m], posts[i].delta)
           ELSE Booked(base, posts, left)[m]
<1> USE DEF Plus, Pending
<1>0. \A r \in Mints : Amount(base[r]) \in Int
  BY AmountType
<1> DEFINE some(lf) == \E j \in NonZero(posts) \ lf : posts[j].mint = m
           before == PartTotal(posts, left, m)
           after == PartTotal(posts, rest, m)
<1>1. /\ Booked(base, posts, left)[m] = IF some(left) THEN Amount(base[m]) + before ELSE base[m]
      /\ Booked(base, posts, rest)[m] =
           IF some(rest) THEN Amount(base[m]) + after ELSE base[m]
  BY DEF Booked
<1>2. i \in DOMAIN posts /\ posts[i].delta \in Int
  BY PostsTypes
<1>3. before \in Int /\ after \in Int
  BY PartTotalType
<1>4. after = before + IF posts[i].mint = m THEN posts[i].delta ELSE 0
  BY <1>2, PartTotalStep
<1>5. ~some(left) => before = 0
  BY PartTotalZero
<1>6. CASE m = posts[i].mint
  <2>1. some(rest)
    BY <1>6
  <2> HIDE DEF some, before, after
  <2>2. CASE some(left)
    <3>1. Amount(Amount(base[m]) + before) = Amount(base[m]) + before
      BY <1>0, <1>3, ConstantsAssumption DEF Amount
    <3> QED
      BY <1>0, <1>1, <1>2, <1>3, <1>4, <1>6, <2>1, <2>2, <3>1
  <2>3. CASE ~some(left)
    BY <1>0, <1>1, <1>2, <1>3, <1>4, <1>5, <1>6, <2>1, <2>3
  <2> QED
    BY <2>2, <2>3
<1>7. CASE m # posts[i].mint
  <2>1. some(rest) <=> some(left)
    BY <1>7
  <2> HIDE DEF some, before, after
  <2> QED
    BY <1>1, <1>3, <1>4, <1>7, <2>1
<1> QED
  BY <1>6, <1>7

-----------------------------------------------------------------------------
(* One row more.                                                           *)

\* The account a row is posted to in a scope.
LEMMA ScopeAccounts ==
  ASSUME NEW s \in CapScopes, NEW k \in Rows
  PROVE  /\ EventId(s, k) = <<s, k>> /\ <<s, k>> \in EventIds
         /\ AccountOf(<<s, k>>) \in AccountsOf(s)
         /\ PostingsOf(<<s, k>>) = Deltas[k] /\ Deltas[k] \in Seq(Delta)
         /\ \A a \in AccountsOf(s) : /\ a \in Accounts
                                     /\ (a = CHAIN \/ Session[k] = a) <=> a = AccountOf(<<s, k>>)
<1>1. CHAIN \notin Sessions /\ Session[k] \in Sessions /\ Deltas[k] \in Seq(Delta)
  BY ConstantsAssumption
<1>2. EventId(s, k) = <<s, k>> /\ <<s, k>> \in EventIds
  BY DEF EventId, EventIds, CapScopes, Scopes
<1>3. CASE s = "lifecycle"
  <2>1. AccountOf(<<s, k>>) = Session[k] /\ PostingsOf(<<s, k>>) = Deltas[k]
    BY <1>3 DEF AccountOf, PostingsOf
  <2>2. AccountsOf(s) = Sessions
    BY <1>3 DEF AccountsOf
  <2> QED
    BY <1>1, <1>2, <2>1, <2>2 DEF Accounts
<1>4. CASE s = "chain_lifecycle"
  <2>1. AccountOf(<<s, k>>) = CHAIN /\ PostingsOf(<<s, k>>) = Deltas[k]
    BY <1>4 DEF AccountOf, PostingsOf
  <2>2. AccountsOf(s) = {CHAIN}
    BY <1>4 DEF AccountsOf
  <2> QED
    BY <1>1, <1>2, <2>1, <2>2 DEF Accounts
<1> QED
  BY <1>3, <1>4 DEF CapScopes

\* The rows of an account among the first k.
LEMMA InAccountSteps ==
  ASSUME NEW a, NEW k \in Rows
  PROVE  /\ InAccount(a, 1..(k - 1)) \in SUBSET (1..(k - 1))
         /\ InAccount(a, 1..k) = IF a = CHAIN \/ Session[k] = a
                                 THEN InAccount(a, 1..(k - 1)) \cup {k}
                                 ELSE InAccount(a, 1..(k - 1))
         /\ k \notin InAccount(a, 1..(k - 1))
         /\ InAccount(a, 1..0) = {}
<1>1. k \in Nat /\ k >= 1
  BY ConstantsAssumption DEF Rows
<1>2. 1..k = 1..(k - 1) \cup {k} /\ k \notin 1..(k - 1) /\ 1..0 = {}
  BY <1>1
<1> QED
  BY <1>2 DEF InAccount

\* The plain sum of the deltas, with a row of the account and without.
LEMMA InventorySteps ==
  ASSUME NEW a, NEW m, NEW k \in Rows
  PROVE  InventoryTo(a, m, k) =
           InventoryTo(a, m, k - 1) + IF a = CHAIN \/ Session[k] = a
                                      THEN TotalOf(Deltas[k], m) ELSE 0
<1> DEFINE F == [r \in Rows |-> IF r \in InAccount(a, 1..(k - 1)) THEN TotalOf(Deltas[r], m) ELSE 0]
           G == [r \in Rows |-> IF r \in InAccount(a, 1..k) THEN TotalOf(Deltas[r], m) ELSE 0]
           d == IF a = CHAIN \/ Session[k] = a THEN TotalOf(Deltas[k], m) ELSE 0
<1>1. \A r \in Rows : TotalOf(Deltas[r], m) \in Int
  <2> TAKE r \in Rows
  <2>1. Deltas[r] \in Seq(Delta)
    BY ConstantsAssumption
  <2>2. PartTotal(Deltas[r], {}, m) \in Int
    BY <2>1, PartTotalType
  <2>3. PartTotal(Deltas[r], {}, m) = TotalOf(Deltas[r], m)
    BY DEF PartTotal, TotalOf
  <2> QED
    BY <2>2, <2>3
<1>2. N \in Nat /\ k \in 1..N /\ d \in Int
  BY <1>1, ConstantsAssumption DEF Rows
<1>3. \A r \in 1..N : F[r] \in Int
  BY <1>1 DEF Rows
<1>4. ASSUME NEW r \in 1..N PROVE G[r] = IF r = k THEN F[r] + d ELSE F[r]
  <2>1. r \in Rows /\ TotalOf(Deltas[r], m) \in Int
    BY <1>1 DEF Rows
  <2>2. CASE r = k
    <3>1. F[r] = 0
      BY <2>1, <2>2, InAccountSteps
    <3>2. k \in InAccount(a, 1..k) <=> (a = CHAIN \/ Session[k] = a)
      BY InAccountSteps
    <3>3. G[r] = d
      BY <2>1, <2>2, <3>2
    <3> HIDE DEF F, G, d
    <3> QED
      BY <1>2, <2>2, <3>1, <3>3
  <2>3. CASE r # k
    <3>1. \/ InAccount(a, 1..k) = InAccount(a, 1..(k - 1))
          \/ InAccount(a, 1..k) = InAccount(a, 1..(k - 1)) \cup {k}
      BY InAccountSteps
    <3>2. r \in InAccount(a, 1..k) <=> r \in InAccount(a, 1..(k - 1))
      BY <2>3, <3>1
    <3> QED
      BY <2>1, <2>3, <3>2
  <2> QED
    BY <2>2, <2>3
<1> HIDE DEF F, G, d
<1>5. SumTo(G, N) = SumTo(F, N) + d
  BY <1>2, <1>3, <1>4, SumChange
<1> QED
  BY <1>5 DEF InventoryTo, F, G, d

\* A row that is not capped keeps the running balances of its account exact; the
\* running balances of other accounts do not change.
LEMMA ExactStep ==
  ASSUME NEW s \in CapScopes, NEW k \in Rows, NEW a \in AccountsOf(s), Exact(s, a, k - 1),
         a = AccountOf(<<s, k>>) =>
           CapOpenDebits(<<s, k>>, SumsTo(s, a, k - 1), Deltas[k]) = Deltas[k]
  PROVE  /\ Exact(s, a, k)
         /\ SumsTo(s, a, k) = IF a = AccountOf(<<s, k>>)
                              THEN Booked(SumsTo(s, a, k - 1), Deltas[k], {})
                              ELSE SumsTo(s, a, k - 1)
<1> DEFINE base == SumsTo(s, a, k - 1)
           in == a = CHAIN \/ Session[k] = a
<1>1. base \in [Mints -> Int \cup {NoRow}] /\ Deltas[k] \in Seq(Delta)
  BY ScopeAccounts DEF Exact
<1>2. in <=> a = AccountOf(<<s, k>>)
  BY ScopeAccounts
<1>3. \A m \in Mints : Amount(base[m]) = InventoryTo(a, m, k - 1) /\ Amount(base[m]) \in Int
  BY <1>1, AmountType DEF Exact
<1>4. \A m : InventoryTo(a, m, k) = InventoryTo(a, m, k - 1)
                                      + IF in THEN TotalOf(Deltas[k], m) ELSE 0
  BY InventorySteps
<1>5. CASE in
  <2>1. SumsTo(s, a, k) = ApplyCapped(base, <<s, k>>, Deltas[k])
    <3>1. EventId(s, k) = <<s, k>>
      BY ScopeAccounts
    <3>2. InAccount(a, 1..k) = InAccount(a, 1..(k - 1)) \cup {k}
      BY <1>5, InAccountSteps
    <3>3. InAccount(a, 1..(k - 1)) \in SUBSET (1..(k - 1))
      BY InAccountSteps
    <3> QED
      BY <3>1, <3>2, <3>3, AggregateSteps DEF SumsTo
  <2> HIDE DEF base
  <2>2. CapOpenDebits(<<s, k>>, base, Deltas[k]) = Deltas[k]
    BY <1>2, <1>5 DEF base
  <2>3. SumsTo(s, a, k) = Booked(base, Deltas[k], {})
    BY <1>1, <2>1, <2>2, BookedSteps
  <2>4. /\ Booked(base, Deltas[k], {}) \in [Mints -> Int \cup {NoRow}]
        /\ \A m \in Mints :
             Amount(Booked(base, Deltas[k], {})[m]) = Amount(base[m]) + TotalOf(Deltas[k], m)
    BY <1>1, BookedSteps
  <2>5. Exact(s, a, k)
    BY <1>3, <1>4, <1>5, <2>3, <2>4 DEF Exact
  <2> QED
    BY <1>2, <1>5, <2>3, <2>5 DEF base
<1>6. CASE ~in
  <2>1. SumsTo(s, a, k) = base
    BY <1>6, InAccountSteps DEF SumsTo
  <2>2. \A m \in Mints : InventoryTo(a, m, k) = InventoryTo(a, m, k - 1)
    BY <1>3, <1>4, <1>6
  <2>3. Exact(s, a, k)
    BY <1>1, <1>3, <2>1, <2>2 DEF Exact
  <2> QED
    BY <1>2, <1>6, <2>1, <2>3
<1> QED
  BY <1>5, <1>6

\* Before the first row.
LEMMA ExactAtZero ==
  ASSUME NEW s, NEW a
  PROVE  Exact(s, a, 0) /\ SumsTo(s, a, 0) = [m \in Mints |-> NoRow]
<1>1. InAccount(a, 1..0) = {}
  BY DEF InAccount
<1>2. SumsTo(s, a, 0) = [m \in Mints |-> NoRow]
  BY <1>1, AggregateSteps DEF SumsTo
<1>3. ASSUME NEW m \in Mints PROVE InventoryTo(a, m, 0) = 0
  <2> DEFINE F == [r \in Rows |-> IF r \in InAccount(a, 1..0) THEN TotalOf(Deltas[r], m) ELSE 0]
  <2>1. N \in Nat /\ \A i \in 1..N : F[i] = 0
    BY <1>1, ConstantsAssumption DEF Rows
  <2> HIDE DEF F
  <2>2. SumTo(F, N) = 0
    BY <2>1, SumOfZeros
  <2> QED
    BY <2>2 DEF InventoryTo, F
<1>4. Exact(s, a, 0)
  BY <1>2, <1>3 DEF Exact, Amount
<1> QED
  BY <1>2, <1>4

\* Steps that leave a scope's accounts and entries alone.
LEMMA DoneKept ==
  ASSUME NEW s, NEW k, NEW b, NEW post, NEW c, NEW after, DoneTo(s, k, b, post),
         \A a \in AccountsOf(s) : c[a] = b[a],
         \A r \in Rows, m \in Mints : after[<<s, r>>][m] = post[<<s, r>>][m]
  PROVE  DoneTo(s, k, c, after)
<1>1. \A a \in AccountsOf(s) : Exact(s, a, k) /\ c[a] = SumsTo(s, a, k)
  BY DEF DoneTo
<1>2. BookedTo(s, k, after)
  BY DEF DoneTo, BookedTo
<1>3. NoneAfter(s, k, after)
  BY DEF DoneTo, NoneAfter, NoEntries
<1> QED
  BY <1>1, <1>2, <1>3 DEF DoneTo

\* A row with nothing to book is done as soon as it is stored.
LEMMA NothingToBook ==
  ASSUME NEW s \in CapScopes, NEW k \in Rows, NEW b, NEW post, DoneTo(s, k - 1, b, post),
         NonZero(Deltas[k]) = {}
  PROVE  /\ \A run : CapOpenDebits(<<s, k>>, run, Deltas[k]) = Deltas[k]
         /\ DoneTo(s, k, b, post)
<1>0. Deltas[k] \in Seq(Delta) /\ \A r \in Rows : r \in Int
  BY ConstantsAssumption DEF Rows
<1>1. ASSUME NEW run PROVE CapOpenDebits(<<s, k>>, run, Deltas[k]) = Deltas[k]
  <2>1. \A i \in DOMAIN Deltas[k] : Deltas[k][i].delta >= 0
    BY DEF NonZero
  <2>2. Deltas[k] = [i \in DOMAIN Deltas[k] |-> Deltas[k][i]]
    BY <1>0
  <2> QED
    BY <2>1, <2>2 DEF CapOpenDebits
<1>2. ASSUME NEW a \in AccountsOf(s) PROVE Exact(s, a, k) /\ b[a] = SumsTo(s, a, k)
  <2>1. Exact(s, a, k - 1) /\ b[a] = SumsTo(s, a, k - 1)
    BY DEF DoneTo
  <2>2. SumsTo(s, a, k - 1) \in [Mints -> Int \cup {NoRow}]
    BY <2>1 DEF Exact
  <2>3. Booked(SumsTo(s, a, k - 1), Deltas[k], {}) = SumsTo(s, a, k - 1)
    BY <1>0, <2>2, BookedSteps
  <2> QED
    BY <1>1, <2>1, <2>3, ExactStep
<1>3. BookedTo(s, k, post)
  <2> SUFFICES ASSUME NEW r \in Rows, r <= k, NonZero(Deltas[r]) # {}
               PROVE  \E m \in Mints : post[<<s, r>>][m].entries > 0
    BY DEF BookedTo
  <2>1. r <= k - 1
    BY <1>0
  <2> QED
    BY <2>1 DEF DoneTo, BookedTo
<1>4. NoneAfter(s, k, post)
  <2> SUFFICES ASSUME NEW r \in Rows, r > k PROVE NoEntries(<<s, r>>, post)
    BY DEF NoneAfter
  <2>1. r > k - 1
    BY <1>0
  <2> QED
    BY <2>1 DEF DoneTo, NoneAfter
<1> QED
  BY <1>1, <1>2, <1>3, <1>4 DEF DoneTo

\* The pass that has read the balances and found nothing to cap begins to book.
LEMMA PartStarts ==
  ASSUME NEW s \in CapScopes, NEW q, Row(q) \in Rows, NEW b, NEW post,
         DoneTo(s, Row(q) - 1, b, post),
         q.batch = Deltas[Row(q)], q.left = NonZero(Deltas[Row(q)]),
         CapOpenDebits(<<s, Row(q)>>, b[AccountOf(<<s, Row(q)>>)], Deltas[Row(q)])
           = Deltas[Row(q)]
  PROVE  PartDone(s, q, b, post)
<1> DEFINE k == Row(q)
           a0 == AccountOf(<<s, k>>)
           base == SumsTo(s, a0, k - 1)
<1>0. Deltas[k] \in Seq(Delta) /\ \A r \in Rows : r \in Int
  BY ConstantsAssumption DEF Rows
<1>1. a0 \in AccountsOf(s) /\ EventId(s, k) = <<s, k>>
  BY ScopeAccounts
<1>2. base \in [Mints -> Int \cup {NoRow}] /\ b[a0] = base
  BY <1>1 DEF DoneTo, Exact
<1>3. b[a0] = Booked(base, Deltas[k], q.left)
  <2> HIDE DEF base, a0
  <2> QED
    BY <1>0, <1>2, BookedSteps
<1>4. NoneAfter(s, k, post)
  <2> SUFFICES ASSUME NEW r \in Rows, r > k PROVE NoEntries(<<s, r>>, post)
    BY DEF NoneAfter
  <2>1. r > k - 1
    BY <1>0
  <2> QED
    BY <2>1 DEF DoneTo, NoneAfter
<1>5. \A a \in AccountsOf(s) : Exact(s, a, k - 1) /\ b[a] = SumsTo(s, a, k - 1)
  BY DEF DoneTo
<1>6. BookedTo(s, k - 1, post)
  BY DEF DoneTo
<1>7. CapOpenDebits(<<s, k>>, base, Deltas[k]) = Deltas[k]
  BY <1>2
<1> QED
  BY <1>1, <1>3, <1>4, <1>5, <1>6, <1>7 DEF PartDone

\* The balances c are b with the delta d added to one account.
Adds(b, c, acct, d) ==
  \A a \in Accounts, m \in Mints :
    c[a][m] = IF a = acct /\ m = d.mint THEN Plus(b[a][m], d.delta) ELSE b[a][m]

\* In a scope, the entries of other rows than k stay.
Keeps(s, k, post, after) ==
  \A r \in Rows, m \in Mints : r # k => after[<<s, r>>][m] = post[<<s, r>>][m]

\* The type of the balances.
Balances == [Accounts -> [Mints -> Int \cup {NoRow}]]

\* A booking of a row that is booked in part: one delta more, or the whole row.
LEMMA PartBooks ==
  ASSUME NEW s \in CapScopes, NEW q, Row(q) \in Rows, NEW b, NEW post, PartDone(s, q, b, post),
         NEW c, NEW after, b \in Balances, c \in Balances,
         NEW i \in q.left, NEW rest, rest = q.left \ {i},
         Adds(b, c, AccountOf(<<s, Row(q)>>), q.batch[i]),
         Keeps(s, Row(q), post, after)
  PROVE  /\ \A n : Row(n) = Row(q) /\ n.batch = q.batch /\ n.left = rest
                     => PartDone(s, n, c, after)
         /\ q.left = {i} /\ (\E m \in Mints : after[<<s, Row(q)>>][m].entries > 0)
              => DoneTo(s, Row(q), c, after)
<1> USE DEF Adds, Keeps, Balances
<1> DEFINE k == Row(q)
           a0 == AccountOf(<<s, k>>)
           base == SumsTo(s, a0, k - 1)
<1>0. Deltas[k] \in Seq(Delta) /\ \A r \in Rows : r \in Int
  BY ConstantsAssumption DEF Rows
<1>1. a0 \in AccountsOf(s) /\ EventId(s, k) = <<s, k>> /\ \A a \in AccountsOf(s) : a \in Accounts
  BY ScopeAccounts
<1>2. /\ \A a \in AccountsOf(s) : /\ Exact(s, a, k - 1)
                                  /\ a # a0 => b[a] = SumsTo(s, a, k - 1)
      /\ CapOpenDebits(<<s, k>>, base, Deltas[k]) = Deltas[k]
      /\ q.batch = Deltas[k]
      /\ q.left \in SUBSET NonZero(Deltas[k])
      /\ b[a0] = Booked(base, Deltas[k], q.left)
      /\ BookedTo(s, k - 1, post)
      /\ NoneAfter(s, k, post)
  BY <1>1 DEF PartDone
<1>3. base \in [Mints -> Int \cup {NoRow}]
  BY <1>1, <1>2 DEF Exact
<1>4. \A a \in AccountsOf(s) : a # a0 => c[a] = SumsTo(s, a, k - 1)
  <2> SUFFICES ASSUME NEW a \in AccountsOf(s), a # a0 PROVE c[a] = b[a]
    BY <1>2
  <2>1. c[a] \in [Mints -> Int \cup {NoRow}] /\ b[a] \in [Mints -> Int \cup {NoRow}]
    BY <1>1
  <2>2. \A m \in Mints : c[a][m] = b[a][m]
    BY <1>1
  <2> QED
    BY <2>1, <2>2
<1>5. c[a0] = Booked(base, Deltas[k], q.left \ {i})
  <2> DEFINE posts == Deltas[k]
             left == q.left
             fewer == left \ {i}
             new == Booked(base, posts, fewer)
             x == c[a0]
             old == b[a0]
  <2>1. Pending(left, posts) /\ i \in left /\ posts \in Seq(Delta) /\ fewer = left \ {i}
    BY <1>0, <1>2 DEF Pending
  <2>2. q.batch = posts /\ a0 \in Accounts
    BY <1>1, <1>2
  <2>3. \A m \in Mints : x[m] = IF m = posts[i].mint THEN Plus(old[m], posts[i].delta) ELSE old[m]
    BY <2>2
  <2>4. x \in [Mints -> Int \cup {NoRow}] /\ new = [m \in Mints |-> new[m]]
    BY <2>2 DEF Booked
  <2>5. old = Booked(base, posts, left)
    BY <1>2
  <2> HIDE DEF base, posts, left, fewer, x, old, k, a0
  <2>6. \A m \in Mints : new[m] = IF m = posts[i].mint THEN Plus(old[m], posts[i].delta)
                                  ELSE old[m]
    BY <1>3, <2>1, <2>5, BookedOneMore
  <2> HIDE DEF new
  <2>7. x = new
    BY <2>3, <2>4, <2>6
  <2> QED
    BY <2>7 DEF x, new, posts, left, fewer
<1>6. BookedTo(s, k - 1, after)
  <2> SUFFICES ASSUME NEW r \in Rows, r <= k - 1, NonZero(Deltas[r]) # {}
               PROVE  \E m \in Mints : after[<<s, r>>][m].entries > 0
    BY DEF BookedTo
  <2>1. r # k
    BY <1>0
  <2>2. \E m \in Mints : post[<<s, r>>][m].entries > 0
    BY <1>2 DEF BookedTo
  <2> QED
    BY <2>1, <2>2
<1>7. NoneAfter(s, k, after)
  <2> SUFFICES ASSUME NEW r \in Rows, r > k PROVE NoEntries(<<s, r>>, after)
    BY DEF NoneAfter
  <2>1. r # k
    BY <1>0
  <2>2. NoEntries(<<s, r>>, post)
    BY <1>2 DEF NoneAfter
  <2> QED
    BY <2>1, <2>2 DEF NoEntries
<1>8. ASSUME NEW n, Row(n) = Row(q), n.batch = q.batch, n.left = rest
      PROVE  PartDone(s, n, c, after)
  BY <1>1, <1>2, <1>4, <1>5, <1>6, <1>7, <1>8 DEF PartDone
<1>9. ASSUME q.left = {i}, \E m \in Mints : after[<<s, k>>][m].entries > 0
      PROVE  DoneTo(s, k, c, after)
  <2>1. q.left \ {i} = {}
    BY <1>9
  <2>2. ASSUME NEW a \in AccountsOf(s) PROVE Exact(s, a, k) /\ c[a] = SumsTo(s, a, k)
    <3>1. /\ Exact(s, a, k)
          /\ SumsTo(s, a, k) = IF a = AccountOf(<<s, k>>)
                               THEN Booked(SumsTo(s, a, k - 1), Deltas[k], {})
                               ELSE SumsTo(s, a, k - 1)
      <4>1. Exact(s, a, k - 1)
        BY <1>2
      <4>2. a = AccountOf(<<s, k>>) =>
              CapOpenDebits(<<s, k>>, SumsTo(s, a, k - 1), Deltas[k]) = Deltas[k]
        BY <1>2
      <4> HIDE DEF k
      <4>3. k \in Rows
        BY DEF k
      <4> QED
        BY <4>1, <4>2, <4>3, ExactStep
    <3> QED
      BY <1>4, <1>5, <2>1, <3>1
  <2>3. BookedTo(s, k, after)
    <3> SUFFICES ASSUME NEW r \in Rows, r <= k, NonZero(Deltas[r]) # {}
                 PROVE  \E m \in Mints : after[<<s, r>>][m].entries > 0
      BY DEF BookedTo
    <3>1. CASE r = k
      BY <1>9, <3>1
    <3>2. CASE r # k
      <4>1. r <= k - 1
        BY <1>0, <3>2
      <4> QED
        BY <1>6, <4>1 DEF BookedTo
    <3> QED
      BY <3>1, <3>2
  <2> QED
    BY <1>7, <2>2, <2>3 DEF DoneTo
<1> QED
  BY <1>8, <1>9

-----------------------------------------------------------------------------
(* Going on in order.                                                      *)

\* A step that keeps to the rows of the pass.
LEMMA SameWay ==
  ASSUME NEW q, NEW n, NEW k, OnItsWay(q, k), n.pass = q.pass, n.todo = q.todo, n.pc # "upsert"
  PROVE  OnItsWay(n, k) /\ Row(n) = Row(q)
BY DEF OnItsWay, Row

\* The next row of a pass that is among the stored rows.
LEMMA NextRowReplays ==
  ASSUME NEW q \in PosterType, NEW k \in 0..N, OnItsWay(q, k), q.todo # {}, Row(q) \in 1..k
  PROVE  OnItsWay(NextRow(q), k) /\ Replays(NextRow(q), k)
<1> DEFINE r == Row(q)
           T == q.todo \ {r}
           n == NextRow(q)
<1>0. N \in Nat /\ k \in Nat /\ r \in q.todo /\ r \in Rows /\ r \in Nat /\ T \in SUBSET Rows
  <2>1. r \in q.todo /\ r \in Rows
    BY RowOfPass
  <2>2. q.todo \in SUBSET Rows
    BY DEF PosterType
  <2> QED
    BY <2>1, <2>2, ConstantsAssumption DEF Rows
<1>1. CASE T = {}
  <2>1. n = Idle
    BY <1>1 DEF NextRow, StartRow
  <2>2. Idle.pc = "idle" /\ Idle.pass = "none" /\ Idle.todo = {}
    BY DEF Idle
  <2> QED
    BY <2>1, <2>2 DEF OnItsWay, Replays
<1>2. CASE T # {}
  <2>1. /\ n.pass = q.pass /\ n.todo = T /\ n.scope = FirstScope(q.pass)
        /\ n.pc = IF q.pass = "ingest" THEN "upsert" ELSE "check"
    BY <1>2 DEF NextRow, StartRow
  <2> HIDE DEF n
  <2>2. T \in SUBSET Nat
    BY <1>0, ConstantsAssumption DEF Rows
  <2>3. Row(n) \in T /\ \A j \in T : Row(n) <= j
    BY <1>2, <2>1, <2>2, MinIsLeast DEF Row
  <2>4. CASE q.pass = "ingest"
    <3>1. PICK f \in Rows : q.todo = r..f
      BY <2>4 DEF OnItsWay
    <3>2. f \in Nat
      BY <1>0 DEF Rows
    <3>3. T = (r + 1)..f
      BY <1>0, <3>1, <3>2
    <3>4. r + 1 \in T
      BY <1>0, <1>2, <3>2, <3>3
    <3>5. Row(n) = r + 1
      BY <1>0, <2>3, <3>2, <3>3, <3>4
    <3>6. n.pass = "ingest" /\ n.pc = "upsert" /\ n.scope = "lifecycle" /\ n.todo = Row(n)..f
      BY <2>1, <2>4, <3>3, <3>5 DEF FirstScope
    <3>7. Row(n) \in 1..k \/ Row(n) = k + 1
      BY <1>0, <3>5
    <3> QED
      BY <3>6, <3>7 DEF OnItsWay, Replays, n
  <2>5. CASE q.pass # "ingest"
    <3>1. T \subseteq 1..k /\ q.pass # "journal"
      BY <2>5 DEF OnItsWay
    <3>2. Row(n) \in 1..k
      BY <2>3, <3>1
    <3> QED
      BY <2>1, <2>5, <3>1, <3>2 DEF OnItsWay, Replays, n
  <2> QED
    BY <2>4, <2>5
<1> QED
  BY <1>1, <1>2

\* What the next scope of a row looks like.
LEMMA NextScopeShape ==
  ASSUME NEW q \in PosterType, NEW n, n = NextScope(q)
  PROVE  /\ ScopeAfter(q) # "none" => /\ n.pc = "check" /\ n.scope = ScopeAfter(q)
                                      /\ n.pass = q.pass /\ n.todo = q.todo
         /\ ScopeAfter(q) = "none" /\ q.pass = "ingest" =>
              n.pc = "link" /\ n.scope = "none" /\ n.pass = q.pass /\ n.todo = q.todo
         /\ ScopeAfter(q) = "none" /\ q.pass # "ingest" => n = NextRow(q)
BY DEF NextScope, Moved, PosterType

\* The next scope of a row that is booked.
LEMMA NextScopeReplays ==
  ASSUME NEW q \in PosterType, NEW k \in 0..N, OnItsWay(q, k), q.todo # {}, Row(q) \in 1..k
  PROVE  OnItsWay(NextScope(q), k) /\ Replays(NextScope(q), k)
<1> DEFINE n == NextScope(q)
<1>1. CASE ScopeAfter(q) = "none" /\ q.pass # "ingest"
  BY <1>1, NextScopeShape, NextRowReplays
<1>2. CASE ~(ScopeAfter(q) = "none" /\ q.pass # "ingest")
  <2>1. n.pc \in {"check", "link"} /\ n.pass = q.pass /\ n.todo = q.todo
    BY <1>2, NextScopeShape
  <2> HIDE DEF n
  <2>2. OnItsWay(n, k) /\ Row(n) = Row(q)
    BY <2>1, SameWay
  <2>3. Replays(n, k)
    BY <2>1, <2>2 DEF Replays
  <2> QED
    BY <2>2, <2>3 DEF n
<1> QED
  BY <1>1, <1>2

\* The next scope of the row that was stored last.
LEMMA NextScopeExtends ==
  ASSUME NEW q \in PosterType, NEW k, OnItsWay(q, k), q.pass = "ingest", Row(q) = k,
         NEW b, NEW post, DoneTo("lifecycle", k, b, post),
         \/ q.scope \in {"lifecycle", "tx_fee"} /\ DoneTo("chain_lifecycle", k - 1, b, post)
         \/ q.scope = "chain_lifecycle" /\ DoneTo("chain_lifecycle", k, b, post)
  PROVE  OnItsWay(NextScope(q), k) /\ Extends(NextScope(q), k, b, post)
<1> DEFINE n == NextScope(q)
<1>1. /\ q.scope = "lifecycle" => ScopeAfter(q) = "tx_fee"
      /\ q.scope = "tx_fee" => ScopeAfter(q) = "chain_lifecycle"
      /\ q.scope = "chain_lifecycle" => ScopeAfter(q) = "none"
  BY DEF ScopeAfter
<1>2. /\ n.pass = "ingest" /\ n.todo = q.todo /\ n.pc # "upsert"
      /\ q.scope = "lifecycle" => n.pc = "check" /\ n.scope = "tx_fee"
      /\ q.scope = "tx_fee" => n.pc = "check" /\ n.scope = "chain_lifecycle"
      /\ q.scope = "chain_lifecycle" => n.pc = "link"
  BY <1>1, NextScopeShape
<1> HIDE DEF n
<1>3. OnItsWay(n, k) /\ Row(n) = k
  BY <1>2, SameWay
<1>4. Extends(n, k, b, post)
  BY <1>2, <1>3 DEF Extends
<1> QED
  BY <1>3, <1>4 DEF n

\* The state after a step of the poster that is under way.
Stays(p) == \E k \in 0..N : pslr' = 1..k /\ Tracks(poster'[p], k, linked', bal', posting')

\* The pass is among the rows that are booked.
LEMMA StaysReplaying ==
  ASSUME NEW p, NEW k \in 0..N, pslr' = 1..k, NEW n, poster'[p] = n, linked' = 1..k,
         OnItsWay(n, k), Replays(n, k),
         DoneTo("lifecycle", k, bal', posting'), DoneTo("chain_lifecycle", k, bal', posting')
  PROVE  Stays(p)
<1>1. Tracks(n, k, linked', bal', posting')
  BY DEF Tracks
<1> QED
  BY <1>1 DEF Stays

\* The pass is at the row stored last.
LEMMA StaysExtending ==
  ASSUME NEW p, NEW k \in 0..N, k >= 1, pslr' = 1..k, NEW n, poster'[p] = n,
         linked' = 1..(k - 1), OnItsWay(n, k), Extends(n, k, bal', posting')
  PROVE  Stays(p)
<1>1. Tracks(n, k, linked', bal', posting')
  BY DEF Tracks
<1> QED
  BY <1>1 DEF Stays

\* What is known of a pass under way: it is among the stored rows, with the
\* scopes of all of them booked, or at the row stored last.
LEMMA PlaceOfPass ==
  ASSUME Placed, NEW p \in Posters, NEW k \in 0..N, Tracks(poster[p], k, linked, bal, posting),
         poster[p].pc # "idle"
  PROVE  LET q == poster[p]
         IN  /\ q \in PosterType /\ q.todo # {} /\ Row(q) \in Rows /\ Row(q) \in q.todo
             /\ OnItsWay(q, k) /\ k \in Int /\ (k >= 1 => k \in Rows)
             /\ q.pc \in {"upsert", "check", "read", "apply", "write"} =>
                  q.scope \in {"lifecycle", "tx_fee", "chain_lifecycle"}
             /\ \/ /\ linked = 1..k /\ Replays(q, k)
                   /\ DoneTo("lifecycle", k, bal, posting)
                   /\ DoneTo("chain_lifecycle", k, bal, posting)
                \/ /\ k >= 1 /\ linked = 1..(k - 1) /\ Extends(q, k, bal, posting)
<1> DEFINE q == poster[p]
<1>1. q \in PosterType /\ Fits(q, filed, pslr)
  BY DEF Placed
<1>2. q.todo # {}
  BY <1>1 DEF Fits
<1>3. Row(q) \in Rows /\ Row(q) \in q.todo
  BY <1>1, <1>2, RowOfPass
<1>4. OnItsWay(q, k)
  BY DEF Tracks
<1>5. q.pc \in {"upsert", "check", "read", "apply", "write"} =>
        q.scope \in {"lifecycle", "tx_fee", "chain_lifecycle"}
  BY <1>1, <1>4 DEF Fits, OnItsWay, PassScopes
<1>6. k \in Int /\ (k >= 1 => k \in Rows)
  BY ConstantsAssumption DEF Rows
<1> HIDE DEF q
<1>7. \/ /\ linked = 1..k /\ Replays(q, k)
         /\ DoneTo("lifecycle", k, bal, posting)
         /\ DoneTo("chain_lifecycle", k, bal, posting)
      \/ /\ k >= 1 /\ linked = 1..(k - 1) /\ Extends(q, k, bal, posting)
  BY DEF Tracks, q
<1> QED
  BY <1>1, <1>2, <1>3, <1>4, <1>5, <1>6, <1>7 DEF q

\* A pass starts when no other is under way.
LEMMA StartStays ==
  ASSUME Placed, NEW p \in Posters, NEW k \in 0..N, pslr = 1..k, linked = 1..k,
         DoneTo("lifecycle", k, bal, posting), DoneTo("chain_lifecycle", k, bal, posting),
         StartIngest(p) \/ StartBackfill(p) \/ StartChainBackfill(p)
  PROVE  Stays(p)
<1> USE DEF tables
<1>0. poster \in [Posters -> PosterType] /\ filed \in 0..N /\ N \in Nat /\ k \in Nat
        /\ Fits(poster[p], filed, pslr)
  BY ConstantsAssumption DEF Placed
<1> DEFINE From(pass, todo) ==
        /\ Start(p, pass, todo)
        /\ pass = "ingest" => todo = 1..filed
        /\ pass = "backfill" => \E s \in Sessions : todo = InAccount(s, pslr)
        /\ pass = "chain_backfill" => todo = linked
<1>a. PICK pass \in {"ingest", "backfill", "chain_backfill"} : \E todo : From(pass, todo)
  BY DEF StartIngest, StartBackfill, StartChainBackfill
<1>b. PICK todo : From(pass, todo)
  BY <1>a
<1>1. /\ Start(p, pass, todo)
      /\ pass = "ingest" => todo = 1..filed
      /\ pass = "backfill" => \E s \in Sessions : todo = InAccount(s, pslr)
      /\ pass = "chain_backfill" => todo = linked
  BY <1>b
<1> DEFINE n == StartRow(pass, todo)
<1>2. /\ poster[p].pc = "idle" /\ todo # {} /\ poster'[p] = n
      /\ UNCHANGED <<pslr, linked, bal, posting>>
  BY <1>0, <1>1 DEF Start, At, Become
<1>4. /\ n.pass = pass /\ n.todo = todo /\ n.scope = FirstScope(pass)
      /\ n.pc = IF pass = "ingest" THEN "upsert" ELSE "check"
  BY <1>2 DEF StartRow
<1> HIDE DEF n
<1>5. OnItsWay(n, k) /\ Replays(n, k)
  <2>1. CASE pass = "ingest"
    <3>1. todo = 1..filed /\ filed \in Rows /\ filed \in Nat /\ todo \in SUBSET Nat
      BY <1>0, <1>1, <1>2, <2>1 DEF Rows
    <3>2. Row(n) \in todo /\ \A j \in todo : Row(n) <= j
      BY <1>2, <1>4, <3>1, MinIsLeast DEF Row
    <3>3. Row(n) = 1
      BY <3>1, <3>2
    <3>4. n.pass = "ingest" /\ n.pc = "upsert" /\ n.scope = "lifecycle" /\ n.todo = Row(n)..filed
      BY <1>4, <2>1, <3>1, <3>3 DEF FirstScope
    <3>5. Row(n) \in 1..k \/ Row(n) = k + 1
      BY <1>0, <3>3
    <3> QED
      BY <3>1, <3>4, <3>5 DEF OnItsWay, Replays
  <2>2. CASE pass # "ingest"
    <3>1. todo \subseteq 1..k
      BY <1>1, <2>2 DEF InAccount
    <3>2. todo \in SUBSET Nat
      BY <1>0, <3>1
    <3>3. Row(n) \in todo
      BY <1>2, <1>4, <3>2, MinIsLeast DEF Row
    <3>4. n.pc = "check" /\ n.pass \notin {"ingest", "journal"} /\ n.todo \subseteq 1..k
            /\ Row(n) \in 1..k
      BY <1>1, <1>4, <2>2, <3>1, <3>3
    <3> QED
      BY <3>4 DEF OnItsWay, Replays
  <2> QED
    BY <2>1, <2>2
<1>6. /\ pslr' = 1..k /\ linked' = 1..k /\ DoneTo("lifecycle", k, bal', posting')
      /\ DoneTo("chain_lifecycle", k, bal', posting')
  BY <1>2
<1> QED
  BY <1>2, <1>5, <1>6, StaysReplaying

\* A row is stored: an old one again, or the next one.
LEMMA UpsertStays ==
  ASSUME Placed, NEW p \in Posters, NEW k \in 0..N, pslr = 1..k,
         Tracks(poster[p], k, linked, bal, posting), Upsert(p)
  PROVE  Stays(p)
<1> DEFINE q == poster[p]
           n == [q EXCEPT !.pc = "check"]
<1>1. /\ q.pc = "upsert" /\ pslr' = pslr \cup {Row(q)} /\ Become(p, n)
      /\ UNCHANGED <<linked, bal, posting>>
  BY DEF Upsert, At
<1>2. /\ q \in PosterType /\ q.todo # {} /\ Row(q) \in Rows /\ OnItsWay(q, k) /\ k \in Int
      /\ \/ /\ linked = 1..k /\ Replays(q, k)
            /\ DoneTo("lifecycle", k, bal, posting)
            /\ DoneTo("chain_lifecycle", k, bal, posting)
         \/ Extends(q, k, bal, posting)
  BY <1>1, PlaceOfPass
<1>3. ~Extends(q, k, bal, posting)
  BY <1>1 DEF Extends
<1>4. q.scope = "lifecycle" /\ q.pass = "ingest"
  BY <1>1, <1>2 DEF OnItsWay, Placed, Fits
<1>5. /\ n.pc = "check" /\ n.scope = "lifecycle" /\ n.pass = "ingest" /\ n.todo = q.todo
      /\ poster'[p] = n
  BY <1>1, <1>2, <1>4 DEF PosterType, Become, Placed
<1> HIDE DEF n
<1>6. Row(n) = Row(q)
  BY <1>5 DEF Row
<1>7. CASE Row(q) \in 1..k
  <2>1. OnItsWay(n, k)
    BY <1>2, <1>4, <1>5, SameWay
  <2>2. Replays(n, k)
    BY <1>5, <1>6, <1>7 DEF Replays
  <2>3. /\ pslr' = 1..k /\ linked' = 1..k /\ DoneTo("lifecycle", k, bal', posting')
        /\ DoneTo("chain_lifecycle", k, bal', posting')
    BY <1>1, <1>2, <1>3, <1>7
  <2> QED
    BY <1>5, <2>1, <2>2, <2>3, StaysReplaying
<1>8. CASE Row(q) = k + 1
  <2> DEFINE j == k + 1
  <2>1. j \in 0..N /\ j >= 1 /\ j - 1 = k
    BY <1>2, <1>8, ConstantsAssumption DEF Rows
  <2>2. pslr' = 1..j /\ linked' = 1..(j - 1)
    BY <1>1, <1>2, <1>3, <1>8
  <2>3. DoneTo("lifecycle", j - 1, bal', posting') /\ DoneTo("chain_lifecycle", j - 1, bal', posting')
    BY <1>1, <1>2, <1>3, <2>1
  <2>4. Row(n) = j
    BY <1>6, <1>8
  <2> HIDE DEF j
  <2>5. OnItsWay(n, j)
    <3>1. \E f \in Rows : n.todo = Row(n)..f
      BY <1>2, <1>4, <1>5, <1>6 DEF OnItsWay
    <3> QED
      BY <1>5, <3>1 DEF OnItsWay
  <2>6. Extends(n, j, bal', posting')
    BY <1>5, <2>3, <2>4 DEF Extends
  <2> QED
    BY <1>5, <2>1, <2>2, <2>5, <2>6, StaysExtending
<1> QED
  BY <1>1, <1>2, <1>3, <1>7, <1>8 DEF Replays

\* The chain column of a row is filled in, and the pass takes its next row.
LEMMA LinkStays ==
  ASSUME Placed, NEW p \in Posters, NEW k \in 0..N, pslr = 1..k,
         Tracks(poster[p], k, linked, bal, posting), LinkChain(p)
  PROVE  Stays(p)
<1> DEFINE q == poster[p]
           n == NextRow(q)
<1>1. /\ q.pc = "link" /\ linked' = linked \cup {Row(q)} /\ Become(p, n)
      /\ UNCHANGED <<pslr, bal, posting>>
  BY DEF LinkChain, At
<1>2. /\ q \in PosterType /\ q.todo # {} /\ Row(q) \in Rows /\ OnItsWay(q, k) /\ k \in Int
      /\ \/ /\ linked = 1..k /\ Replays(q, k)
            /\ DoneTo("lifecycle", k, bal, posting)
            /\ DoneTo("chain_lifecycle", k, bal, posting)
         \/ k >= 1 /\ linked = 1..(k - 1) /\ Extends(q, k, bal, posting)
  BY <1>1, PlaceOfPass
<1>3. /\ Row(q) \in 1..k /\ linked' = 1..k
      /\ DoneTo("lifecycle", k, bal, posting) /\ DoneTo("chain_lifecycle", k, bal, posting)
  <2>1. CASE linked = 1..k /\ Replays(q, k) /\ DoneTo("lifecycle", k, bal, posting)
               /\ DoneTo("chain_lifecycle", k, bal, posting)
    <3>1. Row(q) \in 1..k
      BY <1>1, <2>1 DEF Replays
    <3> QED
      BY <1>1, <2>1, <3>1
  <2>2. CASE k >= 1 /\ linked = 1..(k - 1) /\ Extends(q, k, bal, posting)
    <3>1. /\ Row(q) = k
          /\ DoneTo("lifecycle", k, bal, posting) /\ DoneTo("chain_lifecycle", k, bal, posting)
      BY <1>1, <2>2 DEF Extends
    <3>2. 1..(k - 1) \cup {k} = 1..k
      BY <1>2, <2>2
    <3> QED
      BY <1>1, <1>2, <2>2, <3>1, <3>2
  <2> QED
    BY <1>2, <2>1, <2>2
<1>4. poster'[p] = n
  BY <1>1 DEF Become, Placed
<1>5. OnItsWay(n, k) /\ Replays(n, k)
  BY <1>2, <1>3, NextRowReplays
<1>6. pslr' = 1..k /\ DoneTo("lifecycle", k, bal', posting')
        /\ DoneTo("chain_lifecycle", k, bal', posting')
  BY <1>1, <1>3
<1> HIDE DEF n
<1> QED
  BY <1>3, <1>4, <1>5, <1>6, StaysReplaying

\* The event of a pass in a scope that bounds opens.
LEMMA CapEvent ==
  ASSUME NEW p, NEW k \in Rows, Row(poster[p]) = k, poster[p].scope \in CapScopes
  PROVE  /\ Event(p) = <<poster[p].scope, k>> /\ Event(p) \in EventIds
         /\ PostingsOf(Event(p)) = Deltas[k] /\ LookupId(Event(p)) = Event(p)
<1>1. Event(p) = <<poster[p].scope, k>>
  BY DEF Event, EventId
<1>2. <<poster[p].scope, k>> \in EventIds /\ PostingsOf(<<poster[p].scope, k>>) = Deltas[k]
  BY ScopeAccounts
<1>3. LookupId(<<poster[p].scope, k>>) = <<poster[p].scope, k>>
  BY DEF LookupId, CapScopes
<1> QED
  BY <1>1, <1>2, <1>3

\* The last row of the file prefix is done in its scope: go on to the next scope.
LEMMA ScopeDone ==
  ASSUME Placed, NEW p \in Posters, NEW k \in 0..N, k >= 1, pslr' = 1..k, linked' = 1..(k - 1),
         poster[p].pass = "ingest", Row(poster[p]) = k, OnItsWay(poster[p], k),
         Become(p, NextScope(poster[p])), DoneTo("lifecycle", k, bal', posting'),
         \/ /\ poster[p].scope \in {"lifecycle", "tx_fee"}
            /\ DoneTo("chain_lifecycle", k - 1, bal', posting')
         \/ /\ poster[p].scope = "chain_lifecycle"
            /\ DoneTo("chain_lifecycle", k, bal', posting')
  PROVE  Stays(p)
<1> DEFINE n == NextScope(poster[p])
<1>1. poster[p] \in PosterType /\ poster'[p] = n
  BY DEF Placed, Become
<1>2. OnItsWay(n, k) /\ Extends(n, k, bal', posting')
  BY <1>1, NextScopeExtends
<1> HIDE DEF n
<1> QED
  BY <1>1, <1>2, StaysExtending

\* A posted event is passed over; an event that is not posted is new.
LEMMA CheckStays ==
  ASSUME Placed, NEW p \in Posters, NEW k \in 0..N, pslr = 1..k,
         Tracks(poster[p], k, linked, bal, posting), CheckApplied(p)
  PROVE  Stays(p)
<1> USE DEF tables
<1> DEFINE q == poster[p]
           n == [q EXCEPT !.pc = "read"]
           skip == PostingsOf(Event(p)) = <<>> \/ AlreadyApplied(LookupId(Event(p)))
<1>1. /\ q.pc = "check" /\ UNCHANGED <<pslr, linked, bal, posting>>
      /\ \/ skip /\ Become(p, NextScope(q))
         \/ ~skip /\ Become(p, n)
  BY DEF CheckApplied, At, Settle
<1>2. /\ q \in PosterType /\ q.todo # {} /\ Row(q) \in Rows /\ OnItsWay(q, k) /\ k \in Int
      /\ q.scope \in {"lifecycle", "tx_fee", "chain_lifecycle"} /\ (k >= 1 => k \in Rows)
      /\ \/ /\ linked = 1..k /\ Replays(q, k)
            /\ DoneTo("lifecycle", k, bal, posting)
            /\ DoneTo("chain_lifecycle", k, bal, posting)
         \/ k >= 1 /\ linked = 1..(k - 1) /\ Extends(q, k, bal, posting)
  BY <1>1, PlaceOfPass
<1>3. /\ n.pc = "read" /\ n.scope = q.scope /\ n.pass = q.pass /\ n.todo = q.todo
      /\ Become(p, n) => poster'[p] = n
      /\ Become(p, NextScope(q)) => poster'[p] = NextScope(q)
  BY <1>2 DEF PosterType, Become, Placed
<1> HIDE DEF n, skip
<1>4. OnItsWay(n, k) /\ Row(n) = Row(q)
  BY <1>2, <1>3, SameWay
<1>5. CASE linked = 1..k /\ Replays(q, k) /\ DoneTo("lifecycle", k, bal, posting)
             /\ DoneTo("chain_lifecycle", k, bal, posting)
  <2>1. Row(q) \in 1..k
    BY <1>1, <1>5 DEF Replays
  <2>2. /\ pslr' = 1..k /\ linked' = 1..k /\ DoneTo("lifecycle", k, bal', posting')
        /\ DoneTo("chain_lifecycle", k, bal', posting')
    BY <1>1, <1>5
  <2>3. CASE Become(p, NextScope(q))
    <3>1. OnItsWay(NextScope(q), k) /\ Replays(NextScope(q), k)
      BY <1>2, <2>1, NextScopeReplays
    <3> QED
      BY <1>3, <2>2, <2>3, <3>1, StaysReplaying
  <2>4. CASE ~skip /\ Become(p, n)
    <3>1. q.scope # "tx_fee" => NonZero(Deltas[Row(q)]) = {}
      <4> SUFFICES ASSUME q.scope # "tx_fee", NonZero(Deltas[Row(q)]) # {} PROVE FALSE
        OBVIOUS
      <4>1. q.scope \in CapScopes /\ Row(q) <= k
        BY <1>2, <2>1 DEF CapScopes
      <4>2. Event(p) = <<q.scope, Row(q)>> /\ LookupId(Event(p)) = Event(p)
        BY <1>2, <4>1, CapEvent
      <4>3. BookedTo(q.scope, k, posting)
        BY <1>5, <4>1 DEF CapScopes, DoneTo
      <4>4. \E m \in Mints : posting[<<q.scope, Row(q)>>][m].entries > 0
        BY <1>2, <4>1, <4>3 DEF BookedTo
      <4> QED
        BY <2>4, <4>2, <4>4 DEF skip, AlreadyApplied
    <3>2. Replays(n, k)
      BY <1>3, <1>4, <2>1, <3>1 DEF Replays
    <3> QED
      BY <1>3, <1>4, <2>2, <2>4, <3>2, StaysReplaying
  <2> QED
    BY <1>1, <2>3, <2>4
<1>6. CASE k >= 1 /\ linked = 1..(k - 1) /\ Extends(q, k, bal, posting)
  <2>1. /\ pslr' = 1..k /\ linked' = 1..(k - 1) /\ k \in Rows /\ UNCHANGED <<bal, posting>>
        /\ q.pass = "ingest" /\ Row(q) = k
    BY <1>1, <1>2, <1>6 DEF Extends
  <2>2. /\ DoneTo("chain_lifecycle", k - 1, bal, posting)
        /\ q.scope = "lifecycle" => DoneTo("lifecycle", k - 1, bal, posting)
        /\ q.scope # "lifecycle" => DoneTo("lifecycle", k, bal, posting)
    BY <1>1, <1>6 DEF Extends
  <2>3. CASE ~skip /\ Become(p, n)
    <3>1. Extends(n, k, bal', posting')
      BY <1>2, <1>3, <1>4, <2>1, <2>2 DEF Extends
    <3> QED
      BY <1>3, <1>4, <1>6, <2>1, <2>3, <3>1, StaysExtending
  <2>4. CASE skip /\ Become(p, NextScope(q))
    <3>1. ASSUME q.scope \in CapScopes, DoneTo(q.scope, k - 1, bal, posting)
          PROVE  DoneTo(q.scope, k, bal, posting)
      <4>1. /\ Event(p) = <<q.scope, k>> /\ LookupId(Event(p)) = Event(p)
            /\ PostingsOf(Event(p)) = Deltas[k]
        BY <2>1, <3>1, CapEvent
      <4>2. ~AlreadyApplied(<<q.scope, k>>)
        <5>1. k > k - 1
          BY <1>2
        <5>2. NoEntries(<<q.scope, k>>, posting)
          BY <2>1, <3>1, <5>1 DEF DoneTo, NoneAfter
        <5> QED
          BY <5>2 DEF NoEntries, AlreadyApplied
      <4>3. Deltas[k] = <<>>
        BY <2>4, <4>1, <4>2 DEF skip
      <4>4. NonZero(Deltas[k]) = {}
        BY <4>3 DEF NonZero
      <4> QED
        BY <2>1, <3>1, <4>4, NothingToBook
    <3>2. CASE q.scope = "lifecycle"
      <4>1. DoneTo("lifecycle", k, bal', posting') /\ DoneTo("chain_lifecycle", k - 1, bal', posting')
        BY <2>1, <2>2, <3>1, <3>2 DEF CapScopes
      <4> QED
        BY <1>2, <1>6, <2>1, <2>4, <3>2, <4>1, ScopeDone
    <3>3. CASE q.scope = "tx_fee"
      <4>1. DoneTo("lifecycle", k, bal', posting') /\ DoneTo("chain_lifecycle", k - 1, bal', posting')
        BY <2>1, <2>2, <3>3
      <4> QED
        BY <1>2, <1>6, <2>1, <2>4, <3>3, <4>1, ScopeDone
    <3>4. CASE q.scope = "chain_lifecycle"
      <4>1. DoneTo("lifecycle", k, bal', posting') /\ DoneTo("chain_lifecycle", k, bal', posting')
        BY <2>1, <2>2, <3>1, <3>4 DEF CapScopes
      <4> QED
        BY <1>2, <1>6, <2>1, <2>4, <3>4, <4>1, ScopeDone
    <3> QED
      BY <1>2, <3>2, <3>3, <3>4
  <2> QED
    BY <1>1, <2>3, <2>4
<1> QED
  BY <1>2, <1>5, <1>6

\* The balances are read; with nothing capped the batch is the deltas of the row.
LEMMA ReadStays ==
  ASSUME Placed, NEW p \in Posters, NEW k \in 0..N, pslr = 1..k,
         Tracks(poster[p], k, linked, bal, posting), ReadRunning(p), ~tainted'
  PROVE  Stays(p)
<1> USE DEF tables
<1> DEFINE q == poster[p]
           e == Event(p)
           posts == PostingsOf(e)
           n == [q EXCEPT !.pc = "apply", !.batch = posts, !.left = NonZero(posts)]
<1>1. /\ q.pc = "read" /\ UNCHANGED <<pslr, linked, bal, posting>>
      /\ CapOpenDebits(e, bal[AccountOf(e)], posts) = posts
      /\ \/ NonZero(posts) = {} /\ Become(p, NextScope(q))
         \/ NonZero(posts) # {} /\ Become(p, n)
  BY DEF ReadRunning, At, Settle
<1>2. /\ q \in PosterType /\ q.todo # {} /\ Row(q) \in Rows /\ OnItsWay(q, k) /\ k \in Int
      /\ q.scope \in {"lifecycle", "tx_fee", "chain_lifecycle"} /\ (k >= 1 => k \in Rows)
      /\ \/ /\ linked = 1..k /\ Replays(q, k)
            /\ DoneTo("lifecycle", k, bal, posting)
            /\ DoneTo("chain_lifecycle", k, bal, posting)
         \/ k >= 1 /\ linked = 1..(k - 1) /\ Extends(q, k, bal, posting)
  BY <1>1, PlaceOfPass
<1> HIDE DEF posts
<1>3. /\ n.pc = "apply" /\ n.scope = q.scope /\ n.pass = q.pass /\ n.todo = q.todo
      /\ n.batch = posts /\ n.left = NonZero(posts)
      /\ Become(p, n) => poster'[p] = n
      /\ Become(p, NextScope(q)) => poster'[p] = NextScope(q)
  BY <1>2 DEF PosterType, Become, Placed
<1> HIDE DEF n
<1>4. OnItsWay(n, k) /\ Row(n) = Row(q)
  BY <1>2, <1>3, SameWay
<1>5. CASE linked = 1..k /\ Replays(q, k) /\ DoneTo("lifecycle", k, bal, posting)
             /\ DoneTo("chain_lifecycle", k, bal, posting)
  <2>1. Row(q) \in 1..k
    BY <1>1, <1>5 DEF Replays
  <2>2. /\ pslr' = 1..k /\ linked' = 1..k /\ DoneTo("lifecycle", k, bal', posting')
        /\ DoneTo("chain_lifecycle", k, bal', posting')
    BY <1>1, <1>5
  <2>3. CASE Become(p, NextScope(q))
    <3>1. OnItsWay(NextScope(q), k) /\ Replays(NextScope(q), k)
      BY <1>2, <2>1, NextScopeReplays
    <3> QED
      BY <1>3, <2>2, <2>3, <3>1, StaysReplaying
  <2>4. CASE NonZero(posts) # {} /\ Become(p, n)
    <3>1. q.scope = "tx_fee"
      <4> SUFFICES ASSUME q.scope # "tx_fee" PROVE FALSE
        OBVIOUS
      <4>1. q.scope \in CapScopes
        BY <1>2 DEF CapScopes
      <4>2. posts = Deltas[Row(q)]
        BY <1>2, <4>1, CapEvent DEF posts
      <4>3. NonZero(Deltas[Row(q)]) = {}
        BY <1>1, <1>5 DEF Replays
      <4> QED
        BY <2>4, <4>2, <4>3
    <3>2. Replays(n, k)
      BY <1>3, <1>4, <2>1, <3>1 DEF Replays
    <3> QED
      BY <1>3, <1>4, <2>2, <2>4, <3>2, StaysReplaying
  <2> QED
    BY <1>1, <2>3, <2>4
<1>6. CASE k >= 1 /\ linked = 1..(k - 1) /\ Extends(q, k, bal, posting)
  <2>1. /\ pslr' = 1..k /\ linked' = 1..(k - 1) /\ k \in Rows /\ UNCHANGED <<bal, posting>>
        /\ q.pass = "ingest" /\ Row(q) = k
    BY <1>1, <1>2, <1>6 DEF Extends
  <2>2. /\ DoneTo("chain_lifecycle", k - 1, bal, posting)
        /\ q.scope = "lifecycle" => DoneTo("lifecycle", k - 1, bal, posting)
        /\ q.scope # "lifecycle" => DoneTo("lifecycle", k, bal, posting)
    BY <1>1, <1>6 DEF Extends
  <2>3. q.scope \in CapScopes => e = <<q.scope, k>> /\ posts = Deltas[k]
    BY <2>1, CapEvent DEF posts
  <2>4. CASE NonZero(posts) # {} /\ Become(p, n)
    <3>1. ASSUME q.scope \in CapScopes, DoneTo(q.scope, k - 1, bal, posting)
          PROVE  PartDone(q.scope, n, bal, posting)
      <4>1. Row(n) = k /\ n.batch = Deltas[k] /\ n.left = NonZero(Deltas[k])
        BY <1>3, <1>4, <2>1, <2>3, <3>1
      <4>2. CapOpenDebits(<<q.scope, k>>, bal[AccountOf(<<q.scope, k>>)], Deltas[k]) = Deltas[k]
        BY <1>1, <2>3, <3>1
      <4> QED
        BY <2>1, <3>1, <4>1, <4>2, PartStarts
    <3>2. Extends(n, k, bal', posting')
      <4>1. CASE q.scope = "lifecycle"
        BY <1>3, <1>4, <2>1, <2>2, <3>1, <4>1 DEF Extends, CapScopes
      <4>2. CASE q.scope = "tx_fee"
        BY <1>3, <1>4, <2>1, <2>2, <4>2 DEF Extends
      <4>3. CASE q.scope = "chain_lifecycle"
        BY <1>3, <1>4, <2>1, <2>2, <3>1, <4>3 DEF Extends, CapScopes
      <4> QED
        BY <1>2, <4>1, <4>2, <4>3
    <3> QED
      BY <1>3, <1>4, <1>6, <2>1, <2>4, <3>2, StaysExtending
  <2>5. CASE NonZero(posts) = {} /\ Become(p, NextScope(q))
    <3>1. ASSUME q.scope \in CapScopes, DoneTo(q.scope, k - 1, bal, posting)
          PROVE  DoneTo(q.scope, k, bal, posting)
      <4>1. NonZero(Deltas[k]) = {}
        BY <2>3, <2>5, <3>1
      <4> QED
        BY <2>1, <3>1, <4>1, NothingToBook
    <3>2. CASE q.scope = "lifecycle"
      <4>1. DoneTo("lifecycle", k, bal', posting') /\ DoneTo("chain_lifecycle", k - 1, bal', posting')
        BY <2>1, <2>2, <3>1, <3>2 DEF CapScopes
      <4> QED
        BY <1>2, <1>6, <2>1, <2>5, <3>2, <4>1, ScopeDone
    <3>3. CASE q.scope = "tx_fee"
      <4>1. DoneTo("lifecycle", k, bal', posting') /\ DoneTo("chain_lifecycle", k - 1, bal', posting')
        BY <2>1, <2>2, <3>3
      <4> QED
        BY <1>2, <1>6, <2>1, <2>5, <3>3, <4>1, ScopeDone
    <3>4. CASE q.scope = "chain_lifecycle"
      <4>1. DoneTo("lifecycle", k, bal', posting') /\ DoneTo("chain_lifecycle", k, bal', posting')
        BY <2>1, <2>2, <3>1, <3>4 DEF CapScopes
      <4> QED
        BY <1>2, <1>6, <2>1, <2>5, <3>4, <4>1, ScopeDone
    <3> QED
      BY <1>2, <3>2, <3>3, <3>4
  <2> QED
    BY <1>1, <2>4, <2>5
<1> QED
  BY <1>2, <1>5, <1>6

\* The balance row is looked for: nothing is booked yet.
LEMMA SelectStays ==
  ASSUME Placed, NEW p \in Posters, NEW k \in 0..N, pslr = 1..k,
         Tracks(poster[p], k, linked, bal, posting), SelectBalance(p)
  PROVE  Stays(p)
<1> USE DEF tables
<1> DEFINE q == poster[p]
           n == [q EXCEPT !.pc = "write", !.old = bal[AccountOf(Event(p))][NextDelta(p).mint]]
<1>1. q.pc = "apply" /\ Become(p, n) /\ UNCHANGED <<pslr, linked, bal, posting>>
  BY DEF SelectBalance, At
<1>2. /\ q \in PosterType /\ OnItsWay(q, k)
      /\ \/ /\ linked = 1..k /\ Replays(q, k)
            /\ DoneTo("lifecycle", k, bal, posting)
            /\ DoneTo("chain_lifecycle", k, bal, posting)
         \/ k >= 1 /\ linked = 1..(k - 1) /\ Extends(q, k, bal, posting)
  BY <1>1, PlaceOfPass
<1>3. /\ n.pc = "write" /\ n.scope = q.scope /\ n.pass = q.pass /\ n.todo = q.todo
      /\ n.batch = q.batch /\ n.left = q.left /\ poster'[p] = n
  BY <1>1, <1>2 DEF PosterType, Become, Placed
<1> HIDE DEF n
<1>4. OnItsWay(n, k) /\ Row(n) = Row(q)
  BY <1>2, <1>3, SameWay
<1>5. CASE linked = 1..k /\ Replays(q, k) /\ DoneTo("lifecycle", k, bal, posting)
             /\ DoneTo("chain_lifecycle", k, bal, posting)
  <2>1. Replays(n, k)
    BY <1>1, <1>3, <1>4, <1>5 DEF Replays
  <2>2. /\ pslr' = 1..k /\ linked' = 1..k /\ DoneTo("lifecycle", k, bal', posting')
        /\ DoneTo("chain_lifecycle", k, bal', posting')
    BY <1>1, <1>5
  <2> QED
    BY <1>3, <1>4, <2>1, <2>2, StaysReplaying
<1>6. CASE k >= 1 /\ linked = 1..(k - 1) /\ Extends(q, k, bal, posting)
  <2>1. \A s : PartDone(s, q, bal, posting) => PartDone(s, n, bal, posting)
    BY <1>3, <1>4 DEF PartDone
  <2>2. Extends(n, k, bal, posting)
    BY <1>1, <1>3, <1>4, <1>6, <2>1 DEF Extends
  <2>3. Extends(n, k, bal', posting') /\ pslr' = 1..k /\ linked' = 1..(k - 1)
    BY <1>1, <1>6, <2>2
  <2> QED
    BY <1>3, <1>4, <1>6, <2>3, StaysExtending
<1> QED
  BY <1>2, <1>5, <1>6

\* A booking adds to the balance it has found.
LEMMA FoundAdds ==
  ASSUME Placed, NEW p \in Posters, Found(poster[p], bal), WriteBalance(p)
  PROVE  /\ Event(p) \in EventIds
         /\ \A a \in Accounts, m \in Mints :
              bal'[a][m] = IF a = AccountOf(Event(p)) /\ m = NextDelta(p).mint
                           THEN Amount(bal[a][m]) + NextDelta(p).delta ELSE bal[a][m]
<1>1. poster[p].pc = "write"
  BY BookingFacts
<1>2. poster[p].old = bal[AccountOf(Event(p))][NextDelta(p).mint]
  BY <1>1, RecordTerms DEF Found
<1>3. Event(p) \in EventIds
  BY BookingAdds
<1>4. ASSUME NEW a \in Accounts, NEW m \in Mints
      PROVE  bal'[a][m] = IF a = AccountOf(Event(p)) /\ m = NextDelta(p).mint
                          THEN Amount(bal[a][m]) + NextDelta(p).delta ELSE bal[a][m]
  <2>1. bal'[a][m] = IF a = AccountOf(Event(p)) /\ m = NextDelta(p).mint
                     THEN Amount(poster[p].old) + NextDelta(p).delta ELSE bal[a][m]
    BY BookingAdds
  <2> QED
    BY <1>2, <2>1
<1> QED
  BY <1>3, <1>4

\* What a booking does to the tables: it adds to one balance of the account of
\* its event, and makes one entry under its id.
LEMMA BookingSteps ==
  ASSUME Placed, NEW p \in Posters, Found(poster[p], bal), WriteBalance(p), NEW i, i = Min(poster[p].left)
  PROVE  /\ poster[p].pc \in {"apply", "write"} /\ i \in poster[p].left
         /\ UNCHANGED <<pslr, linked>>
         /\ Event(p) \in EventIds /\ poster[p].batch[i].mint \in Mints
         /\ bal \in [Accounts -> [Mints -> Int \cup {NoRow}]]
         /\ bal' \in [Accounts -> [Mints -> Int \cup {NoRow}]]
         /\ \A a \in Accounts, m \in Mints :
              bal'[a][m] = IF a = AccountOf(Event(p)) /\ m = poster[p].batch[i].mint
                           THEN Plus(bal[a][m], poster[p].batch[i].delta) ELSE bal[a][m]
         /\ \A e \in EventIds, m \in Mints : e # Event(p) => posting'[e][m] = posting[e][m]
         /\ posting'[Event(p)][poster[p].batch[i].mint].entries > 0
         /\ \/ poster[p].left = {i} /\ Become(p, NextScope(poster[p]))
            \/ Become(p, [poster[p] EXCEPT !.pc = "apply", !.left = poster[p].left \ {i},
                                           !.old = NoRow])
<1> DEFINE q == poster[p]
           old == q.old
<1>1. old \in Int \cup {NoRow} /\ Commit(p, old)
  BY BookingFacts
<1>2. q.pc = "write" /\ q.pc \in {"apply", "write"} /\ UNCHANGED <<pslr, linked>>
  BY BookingFacts
<1>3. NextDelta(p) = q.batch[i] /\ NextDelta(p).mint \in Mints /\ NextDelta(p).delta \in Int
  BY <1>2, NextDeltaType DEF NextDelta
<1>4. i \in q.left
  BY <1>2, NextDeltaType
<1>5. /\ bal' \in [Accounts -> [Mints -> Int \cup {NoRow}]]
      /\ \/ q.left \ {i} = {} /\ Become(p, NextScope(q))
         \/ Become(p, [q EXCEPT !.pc = "apply", !.left = q.left \ {i}, !.old = NoRow])
  BY <1>1, <1>2, CommitFacts
<1>6. /\ Event(p) \in EventIds
      /\ \A a \in Accounts, m \in Mints :
           bal'[a][m] = IF a = AccountOf(Event(p)) /\ m = q.batch[i].mint
                        THEN Plus(bal[a][m], q.batch[i].delta) ELSE bal[a][m]
  BY <1>3, FoundAdds DEF Plus
<1>7. \A e \in EventIds, m \in Mints : e # Event(p) => posting'[e][m] = posting[e][m]
  BY BookingChanges
<1>8. posting'[Event(p)][q.batch[i].mint].entries > 0
  <2>1. posting'[Event(p)][q.batch[i].mint].entries
          = posting[Event(p)][q.batch[i].mint].entries + 1
    BY <1>3, <1>6, BookingChanges
  <2>2. posting[Event(p)][q.batch[i].mint].entries \in Nat
    BY <1>3, <1>6 DEF Placed
  <2> QED
    BY <2>1, <2>2
<1>9. bal \in [Accounts -> [Mints -> Int \cup {NoRow}]]
  BY DEF Placed
<1>10. q.left \ {i} = {} => q.left = {i}
  BY <1>4
<1> QED
  BY <1>2, <1>3, <1>4, <1>5, <1>6, <1>7, <1>8, <1>9, <1>10

\* A booking leaves alone what is done in the scopes it does not post to.
LEMMA OtherScopesKept ==
  ASSUME Placed, NEW p \in Posters, Found(poster[p], bal), WriteBalance(p), NEW s \in CapScopes, NEW k,
         poster[p].scope # s, poster[p].scope \in {"lifecycle", "tx_fee", "chain_lifecycle"},
         DoneTo(s, k, bal, posting)
  PROVE  DoneTo(s, k, bal', posting')
<1> DEFINE q == poster[p]
           i == Min(q.left)
<1>1. /\ q.pc \in {"apply", "write"} /\ Event(p) \in EventIds
      /\ bal \in [Accounts -> [Mints -> Int \cup {NoRow}]]
      /\ bal' \in [Accounts -> [Mints -> Int \cup {NoRow}]]
      /\ \A a \in Accounts, m \in Mints : a # AccountOf(Event(p)) => bal'[a][m] = bal[a][m]
      /\ \A e \in EventIds, m \in Mints : e # Event(p) => posting'[e][m] = posting[e][m]
  BY BookingSteps
<1>2. Event(p)[1] = q.scope /\ Row(q) \in Rows /\ Event(p) = <<q.scope, Row(q)>>
  BY <1>1, EventOfPass DEF Event, EventId
<1>3. \A a \in AccountsOf(s) : a \in Accounts /\ a # AccountOf(Event(p))
  BY <1>2, ConstantsAssumption
     DEF AccountsOf, Accounts, AccountOf, CapScopes, CHAIN, TX_FEE
<1>4. ASSUME NEW a \in AccountsOf(s) PROVE bal'[a] = bal[a]
  <2>1. bal'[a] \in [Mints -> Int \cup {NoRow}] /\ bal[a] \in [Mints -> Int \cup {NoRow}]
    BY <1>1, <1>3
  <2>2. \A m \in Mints : bal'[a][m] = bal[a][m]
    BY <1>1, <1>3
  <2> QED
    BY <2>1, <2>2
<1>5. ASSUME NEW r \in Rows, NEW m \in Mints PROVE posting'[<<s, r>>][m] = posting[<<s, r>>][m]
  <2>1. <<s, r>> \in EventIds /\ <<s, r>> # Event(p)
    BY <1>2 DEF EventIds, CapScopes, Scopes
  <2> QED
    BY <1>1, <2>1
<1> QED
  BY <1>4, <1>5, DoneKept

\* A booking of the row that was stored last: a delta more of it, or the rest.
LEMMA PartSteps ==
  ASSUME Placed, NEW p \in Posters, Found(poster[p], bal), WriteBalance(p), NEW i, i = Min(poster[p].left),
         poster[p].scope \in CapScopes, PartDone(poster[p].scope, poster[p], bal, posting)
  PROVE  /\ \A n : /\ Row(n) = Row(poster[p]) /\ n.batch = poster[p].batch
                   /\ n.left = poster[p].left \ {i}
                   => PartDone(poster[p].scope, n, bal', posting')
         /\ poster[p].left = {i} =>
              DoneTo(poster[p].scope, Row(poster[p]), bal', posting')
<1> DEFINE q == poster[p]
           s == q.scope
<1>0. /\ q.pc \in {"apply", "write"} /\ i \in q.left /\ Event(p) \in EventIds
      /\ q.batch[i].mint \in Mints
      /\ bal \in [Accounts -> [Mints -> Int \cup {NoRow}]]
      /\ bal' \in [Accounts -> [Mints -> Int \cup {NoRow}]]
      /\ posting'[Event(p)][q.batch[i].mint].entries > 0
  BY BookingSteps
<1>1. \A e \in EventIds, m \in Mints : e # Event(p) => posting'[e][m] = posting[e][m]
  BY BookingSteps
<1>2. Row(q) \in Rows /\ Event(p) = <<s, Row(q)>>
  BY <1>0, EventOfPass DEF Event, EventId
<1>3. ASSUME NEW r \in Rows, NEW m \in Mints, r # Row(q)
      PROVE  posting'[<<s, r>>][m] = posting[<<s, r>>][m]
  <2>1. <<s, r>> \in EventIds /\ <<s, r>> # Event(p)
    BY <1>2, <1>3 DEF EventIds, CapScopes, Scopes
  <2> QED
    BY <1>1, <2>1
<1>4. \E m \in Mints : posting'[<<s, Row(q)>>][m].entries > 0
  BY <1>0, <1>2
<1>5. ASSUME NEW a \in Accounts, NEW m \in Mints
      PROVE  bal'[a][m] = IF a = AccountOf(<<s, Row(q)>>) /\ m = q.batch[i].mint
                          THEN Plus(bal[a][m], q.batch[i].delta) ELSE bal[a][m]
  <2>1. bal'[a][m] = IF a = AccountOf(Event(p)) /\ m = NextDelta(p).mint
                     THEN Amount(bal[a][m]) + NextDelta(p).delta ELSE bal[a][m]
    BY FoundAdds
  <2>2. NextDelta(p) = q.batch[i]
    BY DEF NextDelta
  <2> QED
    BY <1>2, <2>1, <2>2 DEF Plus
<1>6. s \in CapScopes /\ PartDone(s, q, bal, posting)
  OBVIOUS
<1> DEFINE b == bal
           c == bal'
           post == posting
           after == posting'
           rest == q.left \ {i}
<1>7. b \in Balances /\ c \in Balances
  BY <1>0 DEF Balances
<1>8. PartDone(s, q, b, post)
  BY <1>6
<1>9. Adds(b, c, AccountOf(<<s, Row(q)>>), q.batch[i])
  BY <1>5 DEF Adds
<1>10. Keeps(s, Row(q), post, after)
  BY <1>3 DEF Keeps
<1>11. i \in q.left /\ Row(q) \in Rows /\ s \in CapScopes /\ rest = q.left \ {i}
  BY <1>0, <1>2
<1> HIDE DEF q, s, b, c, post, after, rest
<1>12. /\ \A n : Row(n) = Row(q) /\ n.batch = q.batch /\ n.left = rest
                   => PartDone(s, n, c, after)
       /\ q.left = {i} /\ (\E m \in Mints : after[<<s, Row(q)>>][m].entries > 0)
            => DoneTo(s, Row(q), c, after)
  BY <1>7, <1>8, <1>9, <1>10, <1>11, PartBooks
<1> QED
  BY <1>4, <1>12 DEF q, s, c, after, rest

\* A delta is booked.
LEMMA BooksStay ==
  ASSUME Placed, NEW p \in Posters, NEW k \in 0..N, pslr = 1..k,
         Tracks(poster[p], k, linked, bal, posting), Found(poster[p], bal), WriteBalance(p)
  PROVE  Stays(p)
<1> DEFINE q == poster[p]
           i == Min(q.left)
           n == [q EXCEPT !.pc = "apply", !.left = q.left \ {i}, !.old = NoRow]
<1>1. /\ q.pc \in {"apply", "write"} /\ UNCHANGED <<pslr, linked>>
      /\ \/ q.left = {i} /\ Become(p, NextScope(q))
         \/ Become(p, n)
  BY BookingSteps
<1>2. /\ q \in PosterType /\ q.todo # {} /\ Row(q) \in Rows /\ OnItsWay(q, k) /\ k \in Int
      /\ q.scope \in {"lifecycle", "tx_fee", "chain_lifecycle"} /\ (k >= 1 => k \in Rows)
      /\ \/ /\ linked = 1..k /\ Replays(q, k)
            /\ DoneTo("lifecycle", k, bal, posting)
            /\ DoneTo("chain_lifecycle", k, bal, posting)
         \/ k >= 1 /\ linked = 1..(k - 1) /\ Extends(q, k, bal, posting)
  BY <1>1, PlaceOfPass
<1> HIDE DEF i
<1>3. /\ n.pc = "apply" /\ n.scope = q.scope /\ n.pass = q.pass /\ n.todo = q.todo
      /\ n.batch = q.batch /\ n.left = q.left \ {i}
      /\ Become(p, n) => poster'[p] = n
      /\ Become(p, NextScope(q)) => poster'[p] = NextScope(q)
  BY <1>2 DEF PosterType, Become, Placed
<1> HIDE DEF n
<1>4. OnItsWay(n, k) /\ Row(n) = Row(q)
  BY <1>2, <1>3, SameWay
<1>5. \A s \in CapScopes : \A j : q.scope # s /\ DoneTo(s, j, bal, posting)
                                   => DoneTo(s, j, bal', posting')
  BY <1>2, OtherScopesKept
<1>6. CASE linked = 1..k /\ Replays(q, k) /\ DoneTo("lifecycle", k, bal, posting)
             /\ DoneTo("chain_lifecycle", k, bal, posting)
  <2>1. Row(q) \in 1..k /\ q.scope = "tx_fee"
    BY <1>1, <1>6 DEF Replays
  <2>2. /\ pslr' = 1..k /\ linked' = 1..k /\ DoneTo("lifecycle", k, bal', posting')
        /\ DoneTo("chain_lifecycle", k, bal', posting')
    BY <1>1, <1>5, <1>6, <2>1 DEF CapScopes
  <2>3. CASE Become(p, NextScope(q))
    <3>1. OnItsWay(NextScope(q), k) /\ Replays(NextScope(q), k)
      BY <1>2, <2>1, NextScopeReplays
    <3> QED
      BY <1>3, <2>2, <2>3, <3>1, StaysReplaying
  <2>4. CASE Become(p, n)
    <3>1. Replays(n, k)
      BY <1>3, <1>4, <2>1 DEF Replays
    <3> QED
      BY <1>3, <1>4, <2>2, <2>4, <3>1, StaysReplaying
  <2> QED
    BY <1>1, <2>3, <2>4
<1>7. CASE k >= 1 /\ linked = 1..(k - 1) /\ Extends(q, k, bal, posting)
  <2>1. /\ pslr' = 1..k /\ linked' = 1..(k - 1) /\ k \in Rows
        /\ q.pass = "ingest" /\ Row(q) = k
    BY <1>1, <1>2, <1>7 DEF Extends
  <2>2. q.scope \in CapScopes /\ PartDone(q.scope, q, bal, posting) =>
          /\ PartDone(q.scope, n, bal', posting')
          /\ q.left = {i} => DoneTo(q.scope, k, bal', posting')
    BY <1>3, <1>4, <2>1, PartSteps DEF i
  <2>3. CASE q.scope = "lifecycle"
    <3>1. PartDone("lifecycle", q, bal, posting) /\ DoneTo("chain_lifecycle", k - 1, bal, posting)
      BY <1>1, <1>7, <2>3 DEF Extends
    <3>2. /\ DoneTo("chain_lifecycle", k - 1, bal', posting')
          /\ PartDone("lifecycle", n, bal', posting')
          /\ q.left = {i} => DoneTo("lifecycle", k, bal', posting')
      BY <1>5, <2>2, <2>3, <3>1 DEF CapScopes
    <3>3. CASE Become(p, n)
      <4>1. Extends(n, k, bal', posting')
        BY <1>3, <1>4, <2>1, <2>3, <3>2 DEF Extends
      <4> QED
        BY <1>3, <1>4, <1>7, <2>1, <3>3, <4>1, StaysExtending
    <3>4. CASE q.left = {i} /\ Become(p, NextScope(q))
      BY <1>2, <1>7, <2>1, <2>3, <3>2, <3>4, ScopeDone
    <3> QED
      BY <1>1, <3>3, <3>4
  <2>4. CASE q.scope = "tx_fee"
    <3>1. DoneTo("lifecycle", k, bal, posting) /\ DoneTo("chain_lifecycle", k - 1, bal, posting)
      BY <1>1, <1>7, <2>4 DEF Extends
    <3>2. DoneTo("lifecycle", k, bal', posting') /\ DoneTo("chain_lifecycle", k - 1, bal', posting')
      BY <1>5, <2>4, <3>1 DEF CapScopes
    <3>3. CASE Become(p, n)
      <4>1. Extends(n, k, bal', posting')
        BY <1>3, <1>4, <2>1, <2>4, <3>2 DEF Extends
      <4> QED
        BY <1>3, <1>4, <1>7, <2>1, <3>3, <4>1, StaysExtending
    <3>4. CASE Become(p, NextScope(q))
      BY <1>2, <1>7, <2>1, <2>4, <3>2, <3>4, ScopeDone
    <3> QED
      BY <1>1, <3>3, <3>4
  <2>5. CASE q.scope = "chain_lifecycle"
    <3>1. PartDone("chain_lifecycle", q, bal, posting) /\ DoneTo("lifecycle", k, bal, posting)
      BY <1>1, <1>7, <2>5 DEF Extends
    <3>2. /\ DoneTo("lifecycle", k, bal', posting')
          /\ PartDone("chain_lifecycle", n, bal', posting')
          /\ q.left = {i} => DoneTo("chain_lifecycle", k, bal', posting')
      BY <1>5, <2>2, <2>5, <3>1 DEF CapScopes
    <3>3. CASE Become(p, n)
      <4>1. Extends(n, k, bal', posting')
        BY <1>3, <1>4, <2>1, <2>5, <3>2 DEF Extends
      <4> QED
        BY <1>3, <1>4, <1>7, <2>1, <3>3, <4>1, StaysExtending
    <3>4. CASE q.left = {i} /\ Become(p, NextScope(q))
      BY <1>2, <1>7, <2>1, <2>5, <3>2, <3>4, ScopeDone
    <3> QED
      BY <1>1, <3>3, <3>4
  <2> QED
    BY <1>2, <2>3, <2>4, <2>5
<1> QED
  BY <1>2, <1>6, <1>7

\* A look at the balance row is the only step into the transaction.
LEMMA FoundKept ==
  ASSUME Placed, NEW p \in Posters,
         \/ StartIngest(p) \/ StartBackfill(p) \/ StartChainBackfill(p)
         \/ Upsert(p) \/ CheckApplied(p) \/ ReadRunning(p) \/ SelectBalance(p)
         \/ WriteBalance(p) \/ LinkChain(p)
  PROVE  /\ Found(poster'[p], bal')
         /\ \A r \in Posters \ {p} : poster'[r] = poster[r]
<1> USE DEF tables
<1>0. poster \in [Posters -> PosterType] /\ poster[p] \in PosterType
  BY DEF Placed
<1>1. ASSUME NEW q, Become(p, q), q.pc # "write"
      PROVE  Found(poster'[p], bal') /\ \A r \in Posters \ {p} : poster'[r] = poster[r]
  BY <1>0, <1>1 DEF Become, Found
<1>2. \A q : NotBooking(q) => q.pc # "write"
  BY DEF NotBooking
<1>3. CASE StartIngest(p) \/ StartBackfill(p) \/ StartChainBackfill(p)
  <2>1. PICK pass, todo : Become(p, StartRow(pass, todo))
    BY <1>3 DEF StartIngest, StartBackfill, StartChainBackfill, Start
  <2>2. StartRow(pass, todo).pc # "write"
    BY DEF StartRow, Idle
  <2> QED
    BY <1>1, <2>1, <2>2
<1>4. ASSUME NEW pc \in {"check", "read"} PROVE [poster[p] EXCEPT !.pc = pc].pc # "write"
  BY <1>0 DEF PosterType
<1>5. CASE Upsert(p)
  BY <1>1, <1>4, <1>5 DEF Upsert
<1>6. CASE CheckApplied(p)
  <2>1. Become(p, NextScope(poster[p])) \/ Become(p, [poster[p] EXCEPT !.pc = "read"])
    BY <1>6 DEF CheckApplied, Settle
  <2> QED
    BY <1>0, <1>1, <1>2, <1>4, <2>1, NextNotBooking
<1>7. CASE ReadRunning(p)
  <2> DEFINE capped == CapOpenDebits(Event(p), bal[AccountOf(Event(p))], PostingsOf(Event(p)))
             n == [poster[p] EXCEPT !.pc = "apply", !.batch = capped, !.left = NonZero(capped)]
  <2>1. Become(p, NextScope(poster[p])) \/ Become(p, n)
    BY <1>7 DEF ReadRunning, Settle
  <2> HIDE DEF capped
  <2>2. n.pc # "write"
    BY <1>0 DEF PosterType
  <2> HIDE DEF n
  <2> QED
    BY <1>0, <1>1, <1>2, <2>1, <2>2, NextNotBooking
<1>8. CASE SelectBalance(p)
  <2> DEFINE found == bal[AccountOf(Event(p))][NextDelta(p).mint]
             n == [poster[p] EXCEPT !.pc = "write", !.old = found]
  <2>1. UNCHANGED bal /\ Become(p, n)
    BY <1>8 DEF SelectBalance
  <2>2. n.old = found /\ n.scope = poster[p].scope /\ n.todo = poster[p].todo
          /\ n.left = poster[p].left /\ n.batch = poster[p].batch
    BY <1>0 DEF PosterType
  <2>3. poster'[p] = n /\ \A r \in Posters \ {p} : poster'[r] = poster[r]
    BY <1>0, <2>1 DEF Become
  <2> HIDE DEF n
  <2>4. AccOf(n) = AccountOf(Event(p)) /\ MintOf(n) = NextDelta(p).mint
    BY <2>2 DEF AccOf, MintOf, EventOf, Row, Event, NextDelta
  <2>5. Found(n, bal')
    BY <2>1, <2>2, <2>4 DEF Found
  <2> QED
    BY <2>3, <2>5
<1>9. CASE WriteBalance(p)
  <2> DEFINE rest == poster[p].left \ {Min(poster[p].left)}
             n == [poster[p] EXCEPT !.pc = "apply", !.left = rest, !.old = NoRow]
  <2>1. Become(p, NextScope(poster[p])) \/ Become(p, n)
    BY <1>9, BookingAdds
  <2> HIDE DEF rest
  <2>2. n.pc # "write"
    BY <1>0 DEF PosterType
  <2> HIDE DEF n
  <2> QED
    BY <1>0, <1>1, <1>2, <2>1, <2>2, NextNotBooking
<1>10. CASE LinkChain(p)
  BY <1>0, <1>1, <1>2, <1>10, NextNotBooking DEF LinkChain
<1> QED
  BY <1>3, <1>5, <1>6, <1>7, <1>8, <1>9, <1>10

\* The rows are posted in the order of the file: as long as no pass starts while
\* another is under way, every step keeps the booked rows a prefix of the file,
\* with at most one row under way.
LEMMA InOrderStep == Placed /\ InOrder /\ [Next]_vars => InOrder'
<1> SUFFICES ASSUME Placed, InOrder, [Next]_vars, ~tainted' PROVE InOrder'
  BY DEF InOrder
<1> USE DEF tables
<1>1. ~tainted
  <2>1. CASE AppendRow \/ UNCHANGED vars
    BY <2>1 DEF AppendRow, vars
  <2>2. CASE Restart
    BY <2>2 DEF Restart, Fault
  <2>3. ASSUME NEW p \in Posters,
               \/ StartIngest(p) \/ StartBackfill(p) \/ StartChainBackfill(p)
               \/ Upsert(p) \/ CheckApplied(p) \/ SelectBalance(p) \/ LinkChain(p)
        PROVE  ~tainted
    BY <2>3 DEF StartIngest, StartBackfill, StartChainBackfill, Start, Upsert, CheckApplied,
                SelectBalance, LinkChain
  <2>4. ASSUME NEW p \in Posters, StartJournal(p) \/ DbError(p) PROVE FALSE
    BY <2>4 DEF StartJournal, Start, DbError, Fault
  <2>5. ASSUME NEW p \in Posters, ReadRunning(p) PROVE ~tainted
    BY <2>5 DEF ReadRunning
  <2>6. ASSUME NEW p \in Posters, WriteBalance(p) PROVE ~tainted
    BY <2>6, BookingFacts
  <2> QED
    BY <2>1, <2>2, <2>3, <2>4, <2>5, <2>6 DEF Next
<1>2. PICK k \in 0..N, u \in Posters :
        /\ pslr = 1..k
        /\ Tracks(poster[u], k, linked, bal, posting)
        /\ Found(poster[u], bal)
        /\ \A r \in Posters \ {u} : At(r, "idle")
  BY <1>1 DEF InOrder
<1>3. ASSUME NEW p \in Posters, Stays(p), Found(poster'[p], bal'),
             \A r \in Posters \ {p} : poster'[r] = poster[r] /\ At(r, "idle")
      PROVE  InOrder'
  <2>1. PICK j \in 0..N : pslr' = 1..j /\ Tracks(poster'[p], j, linked', bal', posting')
    BY <1>3 DEF Stays
  <2>2. \A r \in Posters \ {p} : poster'[r].pc = "idle"
    BY <1>3 DEF At
  <2> QED
    BY <1>3, <2>1, <2>2 DEF InOrder, At
<1>4. CASE AppendRow \/ UNCHANGED vars
  <2>1. UNCHANGED <<pslr, linked, bal, posting, poster>>
    BY <1>4 DEF AppendRow, vars
  <2>2. /\ pslr' = 1..k /\ Tracks(poster'[u], k, linked', bal', posting')
        /\ Found(poster'[u], bal') /\ \A r \in Posters \ {u} : poster'[r].pc = "idle"
    BY <1>2, <2>1 DEF At
  <2> QED
    BY <2>2 DEF InOrder, At
<1>5. CASE Restart
  BY <1>5 DEF Restart, Fault
<1>6. ASSUME NEW p \in Posters, StartIngest(p) \/ StartBackfill(p) \/ StartChainBackfill(p)
      PROVE  InOrder'
  <2>1. \A r \in Posters : At(r, "idle")
    BY <1>6 DEF StartIngest, StartBackfill, StartChainBackfill, Start
  <2>2. /\ linked = 1..k /\ DoneTo("lifecycle", k, bal, posting)
        /\ DoneTo("chain_lifecycle", k, bal, posting)
    <3>1. poster[u].pc = "idle" /\ Fits(poster[u], filed, pslr)
      BY <2>1 DEF At, Placed
    <3>2. ~Extends(poster[u], k, bal, posting)
      BY <3>1 DEF Extends, Fits
    <3> QED
      BY <1>2, <3>2 DEF Tracks
  <2>3. Stays(p)
    BY <1>2, <1>6, <2>2, StartStays
  <2>4. Found(poster'[p], bal') /\ \A r \in Posters \ {p} : poster'[r] = poster[r]
    BY <1>6, FoundKept
  <2> QED
    BY <1>3, <2>1, <2>3, <2>4
<1>7. ASSUME NEW p \in Posters, StartJournal(p) \/ DbError(p) PROVE InOrder'
  BY <1>7 DEF StartJournal, Start, DbError, Fault
<1>8. ASSUME NEW p \in Posters,
             \/ Upsert(p) \/ CheckApplied(p) \/ ReadRunning(p) \/ SelectBalance(p)
             \/ WriteBalance(p) \/ LinkChain(p)
      PROVE  InOrder'
  <2>1. p = u
    <3>1. ~At(p, "idle")
      BY <1>8, BookingFacts DEF Upsert, CheckApplied, ReadRunning, SelectBalance, LinkChain, At
    <3> QED
      BY <1>2, <3>1
  <2>2. /\ Tracks(poster[p], k, linked, bal, posting) /\ Found(poster[p], bal)
        /\ pslr = 1..k /\ \A r \in Posters \ {p} : At(r, "idle")
    BY <1>2, <2>1
  <2>3. Stays(p)
    BY <1>8, <2>2, UpsertStays, CheckStays, ReadStays, SelectStays, BooksStay, LinkStays
  <2>4. Found(poster'[p], bal') /\ \A r \in Posters \ {p} : poster'[r] = poster[r]
    BY <1>8, FoundKept
  <2> QED
    BY <1>3, <2>2, <2>3, <2>4
<1> QED
  BY <1>4, <1>5, <1>6, <1>7, <1>8 DEF Next

\* Nothing is stored and nothing is booked.
LEMMA InOrderInit == Init => InOrder
<1> SUFFICES ASSUME Init PROVE InOrder
  OBVIOUS
<1>1. \A r \in Rows : r \in Int /\ r > 0
  BY ConstantsAssumption DEF Rows
<1>2. ASSUME NEW s \in CapScopes PROVE DoneTo(s, 0, bal, posting)
  <2>1. ASSUME NEW a \in AccountsOf(s) PROVE Exact(s, a, 0) /\ bal[a] = SumsTo(s, a, 0)
    <3>1. a \in Accounts
      BY DEF AccountsOf, Accounts
    <3> QED
      BY <3>1, ExactAtZero DEF Init
  <2>2. BookedTo(s, 0, posting)
    BY <1>1 DEF BookedTo
  <2>3. NoneAfter(s, 0, posting)
    BY DEF Init, NoneAfter, NoEntries, EventIds, CapScopes, Scopes
  <2> QED
    BY <2>1, <2>2, <2>3 DEF DoneTo
<1>3. DoneTo("lifecycle", 0, bal, posting) /\ DoneTo("chain_lifecycle", 0, bal, posting)
  BY <1>2 DEF CapScopes
<1>4. OnItsWay(Idle, 0) /\ Replays(Idle, 0)
  BY DEF OnItsWay, Replays, Idle
<1>5. pslr = 1..0 /\ linked = 1..0 /\ 0 \in 0..N /\ \A p \in Posters : poster[p] = Idle
  BY ConstantsAssumption DEF Init
<1>6. \A p \in Posters : Tracks(poster[p], 0, linked, bal, posting)
  BY <1>3, <1>4, <1>5 DEF Tracks
<1>7. \A p \in Posters : Found(poster[p], bal) /\ At(p, "idle")
  BY <1>5 DEF Found, At, Idle
<1>8. PICK p \in Posters : TRUE
  BY ConstantsAssumption
<1> QED
  BY <1>5, <1>6, <1>7, <1>8 DEF InOrder

\* Without an overlap the rows are posted in the order of the file.
LEMMA InOrderInvariant == Spec => []InOrder
BY InOrderStep, InOrderInit, PlacedInvariant, PTL DEF Spec

\* Caps that agree are their own minimum.
LEMMA MergeOfEqualCaps ==
  ASSUME NEW g \in [Mints -> Nat]
  PROVE  MergeMinCaps(g, g) = g
<1>1. \A m \in Mints : g[m] \in Nat
  OBVIOUS
<1>2. ASSUME NEW m \in Mints
      PROVE  g[m] = CASE g[m] = 0 -> g[m] [] g[m] = 0 -> g[m] [] OTHER -> Least(g[m], g[m])
  BY <1>1 DEF Least
<1> QED
  BY <1>2 DEF MergeMinCaps

\* When the balances, the stored rows and the file give the same sums, so do the
\* caps, whichever of them are taken.
LEMMA CapsOfEqualSums ==
  ASSUME NEW a, NEW gate \in BOOLEAN, NEW sums \in [Mints -> Int \cup {NoRow}],
         bal[a] = sums, PslrSums(a) = sums, FileSums(a) = sums
  PROVE  ResolveMintCaps(gate, a) = CapsMap(sums)
<1> DEFINE g == CapsMap(sums)
<1>1. \A m \in Mints : Amount(sums[m]) \in Int
  BY AmountType
<1>2. g \in [Mints -> Nat]
  BY <1>1 DEF CapsMap, Positive
<1>3. MergeMinCaps(g, g) = g
  <2> HIDE DEF g
  <2> QED
    BY <1>2, MergeOfEqualCaps
<1> QED
  BY <1>3 DEF ResolveMintCaps

\* With any number of posters: once the passes have caught up with the file, and
\* no fault, capped debit, journal posting or overlap has disturbed them, the
\* spend caps of a session and of the chain are its inventory, with and without
\* the reconcile gate (resolve_session_mint_caps).
THEOREM CapsMatchInventory == Spec => []CapsAreInventory
<1>1. Placed /\ InOrder => CapsAreInventory
  <2> SUFFICES ASSUME Placed, InOrder, \A p \in Posters : At(p, "idle"), pslr = 1..filed, ~tainted,
                      NEW a \in Sessions \cup {CHAIN}, NEW gate \in BOOLEAN
               PROVE  ResolveMintCaps(gate, a) = [m \in Mints |-> Positive(Inventory(a, m))]
    BY DEF CapsAreInventory
  <2>2. PICK k \in 0..N, p \in Posters : pslr = 1..k /\ Tracks(poster[p], k, linked, bal, posting)
    BY DEF InOrder
  <2>3. /\ linked = 1..k /\ DoneTo("lifecycle", k, bal, posting)
        /\ DoneTo("chain_lifecycle", k, bal, posting)
    <3>1. poster[p].pc = "idle" /\ poster[p].pass = "none"
      BY DEF At, Placed, Fits
    <3>2. ~Extends(poster[p], k, bal, posting)
      BY <3>1 DEF Extends
    <3> QED
      BY <2>2, <3>2 DEF Tracks
  <2>4. k = filed
    BY <2>2, ConstantsAssumption DEF Placed
  <2> DEFINE s == ScopeOf(a)
             sums == SumsTo(s, a, filed)
  <2>5. a \in AccountsOf(s) /\ DoneTo(s, filed, bal, posting)
    BY <2>3, <2>4, ConstantsAssumption DEF ScopeOf, AccountsOf
  <2>6. Exact(s, a, filed) /\ bal[a] = sums
    BY <2>5 DEF DoneTo
  <2>7. PslrSums(a) = sums /\ FileSums(a) = sums
    BY <2>3, <2>4 DEF PslrSums, FileSums, SumsTo
  <2>8. /\ sums \in [Mints -> Int \cup {NoRow}]
        /\ \A m \in Mints : Amount(sums[m]) = Inventory(a, m)
    BY <2>6 DEF Exact, InventoryTo, Inventory
  <2> HIDE DEF sums
  <2>9. ResolveMintCaps(gate, a) = CapsMap(sums)
    BY <2>6, <2>7, <2>8, CapsOfEqualSums
  <2> QED
    BY <2>8, <2>9 DEF CapsMap
<1> QED
  BY <1>1, InOrderInvariant, PlacedInvariant, PTL
=============================================================================
