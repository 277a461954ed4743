---------------------------- MODULE WalletProofs ----------------------------
(***************************************************************************)
(* Facts about the wallet that the proofs of its users rest on, for any    *)
(* set of external ids: what an append leaves in the ledger, what it means *)
(* for a ledger that no external id is in it twice, and how a sum over a   *)
(* finite set, such as the held sum, moves.                                *)
(***************************************************************************)
EXTENDS Wallet, FiniteSets, FiniteSetsExt, FiniteSetTheorems, WellFoundedInduction, TLAPS

\* No external id is booked twice: the unique index of wallet_ledger.
UniqueKeys ==
    \A i, j \in 1..Len(ledger) :
        ledger[i].key = ledger[j].key /\ ledger[i].key # NoKey => i = j

-----------------------------------------------------------------------------

\* An append of a new key adds one row with that key; a replay adds nothing.
LEMMA AppendEffect ==
    ASSUME NEW K, ledger \in Seq(Entry(K)), NEW type \in EntryTypes,
           NEW amount \in Int, NEW k \in K, AppendEntry(type, amount, k)
    PROVE  /\ ledger' \in Seq(Entry(K))
           /\ \/ ledger' = ledger /\ Duplicate(k)
              \/ /\ ~Duplicate(k)
                 /\ Len(ledger') = Len(ledger) + 1
                 /\ \A i \in 1..Len(ledger) : ledger'[i] = ledger[i]
                 /\ ledger'[Len(ledger) + 1].key = k
<1>1. CASE Duplicate(k)
  BY <1>1 DEF AppendEntry
<1>2. CASE ~Duplicate(k)
  <2>1. GetBalance \in Int
    <3>1. CASE ledger = <<>>
      BY <3>1 DEF GetBalance
    <3>2. CASE ledger # <<>>
      <4>1. Len(ledger) \in 1..Len(ledger)
        BY <3>2
      <4>2. ledger[Len(ledger)] \in Entry(K)
        BY <4>1
      <4>3. QED
        BY <3>2, <4>2 DEF GetBalance, Entry
    <3>3. QED
      BY <3>1, <3>2
  <2>2. PICK row : /\ row = [type |-> type, amount |-> amount,
                             balanceAfter |-> GetBalance + amount, key |-> k]
                   /\ ledger' = Append(ledger, row)
    BY <1>2 DEF AppendEntry
  <2>3. row \in Entry(K) /\ row.key = k
    BY <2>1, <2>2 DEF Entry
  <2>4. QED
    BY <1>2, <2>2, <2>3
<1>3. QED
  BY <1>1, <1>2

\* An append loses nothing that is booked, books its key, and books no other.
LEMMA AppendBooks ==
    ASSUME NEW K, ledger \in Seq(Entry(K)), NEW type \in EntryTypes,
           NEW amount \in Int, NEW k \in K, AppendEntry(type, amount, k)
    PROVE  \A x : Booked(x)' <=> Booked(x) \/ (x = k /\ (Booked(k) \/ ~Duplicate(k)))
<1> SUFFICES ASSUME NEW x
             PROVE  Booked(x)' <=> Booked(x) \/ (x = k /\ (Booked(k) \/ ~Duplicate(k)))
  OBVIOUS
<1>1. Len(ledger) \in Nat
  OBVIOUS
<1>2. CASE ledger' = ledger /\ Duplicate(k)
  BY <1>2 DEF Booked, Duplicate
<1>3. CASE /\ ~Duplicate(k)
           /\ Len(ledger') = Len(ledger) + 1
           /\ \A i \in 1..Len(ledger) : ledger'[i] = ledger[i]
           /\ ledger'[Len(ledger) + 1].key = k
  <2>1. ASSUME Booked(x) PROVE Booked(x)'
    BY <1>1, <1>3, <2>1 DEF Booked
  <2>2. Booked(k)'
    BY <1>1, <1>3 DEF Booked
  <2>3. ASSUME Booked(x)', x # k PROVE Booked(x)
    <3>1. PICK i \in 1..(Len(ledger) + 1) : ledger'[i].key = x
      BY <1>3, <2>3 DEF Booked
    <3>2. i \in 1..Len(ledger)
      BY <1>1, <1>3, <2>3, <3>1
    <3>3. QED
      BY <1>3, <3>1, <3>2 DEF Booked
  <2>4. QED
    BY <1>3, <2>1, <2>2, <2>3
<1>4. QED
  BY <1>2, <1>3, AppendEffect

\* After an append with an external id, the id is booked.
LEMMA AppendIsBooked ==
    ASSUME NEW K, ledger \in Seq(Entry(K)), NEW type \in EntryTypes,
           NEW amount \in Int, NEW k \in K, AppendEntry(type, amount, k)
    PROVE  Booked(k)' /\ \A x : Booked(x) => Booked(x)'
BY AppendBooks DEF Duplicate

\* An append keeps every external id unique.
LEMMA AppendKeepsUnique ==
    ASSUME NEW K, ledger \in Seq(Entry(K)), NEW type \in EntryTypes,
           NEW amount \in Int, NEW k \in K, AppendEntry(type, amount, k), UniqueKeys
    PROVE  UniqueKeys'
<1>1. Len(ledger) \in Nat
  OBVIOUS
<1>2. CASE ledger' = ledger
  BY <1>2 DEF UniqueKeys
<1>3. CASE /\ ~Duplicate(k)
           /\ Len(ledger') = Len(ledger) + 1
           /\ \A i \in 1..Len(ledger) : ledger'[i] = ledger[i]
           /\ ledger'[Len(ledger) + 1].key = k
  <2> SUFFICES ASSUME NEW i \in 1..(Len(ledger) + 1), NEW j \in 1..(Len(ledger) + 1),
                      ledger'[i].key = ledger'[j].key, ledger'[i].key # NoKey
               PROVE  i = j
    BY <1>3 DEF UniqueKeys
  <2>1. \A n \in 1..Len(ledger) : ledger[n].key = k => k = NoKey
    BY <1>3 DEF Duplicate, Booked
  <2>2. CASE i \in 1..Len(ledger) /\ j \in 1..Len(ledger)
    BY <1>3, <2>2 DEF UniqueKeys
  <2>3. CASE i \in 1..Len(ledger) /\ j = Len(ledger) + 1
    BY <1>3, <2>1, <2>3
  <2>4. CASE i = Len(ledger) + 1 /\ j \in 1..Len(ledger)
    BY <1>3, <2>1, <2>4
  <2>5. CASE i = Len(ledger) + 1 /\ j = Len(ledger) + 1
    BY <2>5
  <2>6. QED
    BY <1>1, <2>2, <2>3, <2>4, <2>5
<1>4. QED
  BY <1>2, <1>3, AppendEffect

\* With unique external ids, an id counts at most one row.
LEMMA OneRow ==
    ASSUME NEW S, ledger \in Seq(S), UniqueKeys, NEW k, k # NoKey
    PROVE  Cardinality({i \in DOMAIN ledger : ledger[i].key = k}) <= 1
<1>. DEFINE R == {i \in DOMAIN ledger : ledger[i].key = k}
<1>1. \A i, j \in R : i = j
  BY DEF UniqueKeys
<1> SUFFICES Cardinality(R) <= 1
  OBVIOUS
<1> HIDE DEF R
<1>2. CASE R = {}
  BY <1>2, FS_EmptySet
<1>3. CASE R # {}
  <2>1. PICK i : R = {i}
    BY <1>1, <1>3
  <2>2. Cardinality(R) = 1
    BY <2>1, FS_Singleton
  <2>3. QED
    BY <2>2
<1>4. QED
  BY <1>2, <1>3

-----------------------------------------------------------------------------

\* No row of the ledger is below zero.
NeverOverdrawn ==
    \A i \in 1..Len(ledger) : ledger[i].balanceAfter >= 0

\* The balance is a number of cents, and what was not overdrawn is not below zero.
LEMMA BalanceTyped ==
    ASSUME NEW K, ledger \in Seq(Entry(K))
    PROVE  GetBalance \in Int /\ (NeverOverdrawn => GetBalance \in Nat)
<1>1. CASE ledger = <<>>
  BY <1>1 DEF GetBalance
<1>2. CASE ledger # <<>>
  <2>1. Len(ledger) \in 1..Len(ledger)
    BY <1>2
  <2>2. ledger[Len(ledger)] \in Entry(K)
    BY <2>1
  <2>3. QED
    BY <1>2, <2>1, <2>2 DEF GetBalance, Entry, NeverOverdrawn
<1>3. QED
  BY <1>1, <1>2

\* An append moves the balance by its amount, and never below zero.
LEMMA AppendBalance ==
    ASSUME NEW K, ledger \in Seq(Entry(K)), NEW type \in EntryTypes,
           NEW amount \in Int, NEW k \in K, AppendEntry(type, amount, k)
    PROVE  /\ \/ ledger' = ledger /\ Duplicate(k) /\ GetBalance' = GetBalance
              \/ ~Duplicate(k) /\ GetBalance' = GetBalance + amount /\ GetBalance' >= 0
           /\ NeverOverdrawn => NeverOverdrawn'
<1>1. CASE Duplicate(k)
  BY <1>1 DEF AppendEntry, GetBalance, NeverOverdrawn
<1>2. CASE ~Duplicate(k)
  <2>1. PICK row : /\ row = [type |-> type, amount |-> amount,
                             balanceAfter |-> GetBalance + amount, key |-> k]
                   /\ ledger' = Append(ledger, row)
                   /\ GetBalance + amount >= 0
    BY <1>2 DEF AppendEntry
  <2>2. GetBalance \in Int
    BY BalanceTyped
  <2>3. row \in Entry(K) /\ row.balanceAfter = GetBalance + amount
    BY <2>1, <2>2 DEF Entry
  <2>4. /\ Len(ledger) \in Nat /\ Len(ledger') = Len(ledger) + 1
        /\ ledger' # <<>> /\ ledger'[Len(ledger')] = row
        /\ \A i \in 1..Len(ledger) : ledger'[i] = ledger[i]
    BY <2>1, <2>3
  <2>5. GetBalance' = GetBalance + amount
    BY <2>3, <2>4 DEF GetBalance
  <2>6. NeverOverdrawn => NeverOverdrawn'
    <3> SUFFICES ASSUME NeverOverdrawn, NEW i \in 1..(Len(ledger) + 1)
                 PROVE  ledger'[i].balanceAfter >= 0
      BY <2>4 DEF NeverOverdrawn
    <3>1. CASE i \in 1..Len(ledger)
      BY <2>4, <3>1 DEF NeverOverdrawn
    <3>2. CASE i = Len(ledger) + 1
      BY <2>1, <2>3, <2>4, <3>2
    <3>3. QED
      BY <2>4, <3>1, <3>2
  <2>7. QED
    BY <1>2, <2>1, <2>5, <2>6
<1>3. QED
  BY <1>1, <1>2

-----------------------------------------------------------------------------

Pick(s) == CHOOSE x \in s : TRUE

\* g gives the sum of c over each subset of S, as MapThenSumSet adds it up.
Sums(g, c, S) ==
    g = [s \in SUBSET S |-> IF s = {} THEN 0 ELSE c[Pick(s)] + g[s \ {Pick(s)}]]

\* What the things in S that f describes are charged, added up.
ChargeSum(f, S) == MapThenSumSet(LAMBDA x : f[x].charge, S)

LEMMA PickIsIn ==
    ASSUME NEW s, s # {}
    PROVE  Pick(s) \in s
BY DEF Pick

\* What holds of a finite set whenever it holds of its proper subsets holds: a least
\* counterexample of those in Bad.
LEMMA LeastSet ==
    ASSUME NEW S, IsFiniteSet(S), NEW Bad, Bad \subseteq SUBSET S, Bad # {}
    PROVE  \E V \in Bad : \A U \in SUBSET V : U \in Bad => U = V
<1>1. Bad \subseteq FiniteSubsetsOf(S)
  BY FS_Subset DEF FiniteSubsetsOf
<1>2. PICK V \in Bad : \A U \in Bad : ~(<<U, V>> \in StrictSubsetOrdering(S))
  BY <1>1, WFMin, FS_StrictSubsetOrderingWellFounded
<1>3. ASSUME NEW U \in SUBSET V, U \in Bad PROVE U = V
  BY <1>2, <1>3 DEF StrictSubsetOrdering
<1>4. QED
  BY <1>2, <1>3

LEMMA SumsEmpty ==
    ASSUME NEW S, NEW g, NEW c, Sums(g, c, S)
    PROVE  g[{}] = 0
BY DEF Sums

LEMMA SumsStep ==
    ASSUME NEW S, NEW g, NEW c, Sums(g, c, S), NEW U \in SUBSET S, U # {}
    PROVE  g[U] = c[Pick(U)] + g[U \ {Pick(U)}]
BY DEF Sums

LEMMA SumsAgree ==
    ASSUME NEW S, NEW T, NEW g, NEW h, NEW c, NEW d, Sums(g, c, S), Sums(h, d, T),
           NEW U, U \subseteq S, U \subseteq T, IsFiniteSet(U), \A x \in U : c[x] = d[x]
    PROVE  g[U] = h[U]
<1> DEFINE Bad == {V \in SUBSET U : g[V] # h[V]}
<1> SUFFICES Bad = {}
  OBVIOUS
<1> SUFFICES ASSUME Bad # {} PROVE FALSE
  OBVIOUS
<1>1. PICK V \in Bad : \A W \in SUBSET V : W \in Bad => W = V
  <2>1. Bad \subseteq SUBSET U
    OBVIOUS
  <2> HIDE DEF Bad
  <2>2. QED
    BY <2>1, LeastSet
<1>2. V # {}
  BY SumsEmpty
<1>3. Pick(V) \in V
  BY <1>2, PickIsIn
<1>4. g[V \ {Pick(V)}] = h[V \ {Pick(V)}]
  BY <1>1, <1>3
<1>5. g[V] = c[Pick(V)] + g[V \ {Pick(V)}] /\ h[V] = d[Pick(V)] + h[V \ {Pick(V)}]
  BY <1>2, SumsStep
<1>6. QED
  BY <1>3, <1>4, <1>5

LEMMA SumsExist ==
    ASSUME NEW S, IsFiniteSet(S), NEW c
    PROVE  \E g : Sums(g, c, S)
<1> DEFINE Bad == {V \in SUBSET S : ~\E g : Sums(g, c, V)}
<1> SUFFICES Bad = {}
  OBVIOUS
<1> SUFFICES ASSUME Bad # {} PROVE FALSE
  OBVIOUS
<1>1. PICK V \in Bad : \A W \in SUBSET V : W \in Bad => W = V
  <2>1. Bad \subseteq SUBSET S
    OBVIOUS
  <2> HIDE DEF Bad
  <2>2. QED
    BY <2>1, LeastSet
<1> DEFINE G(s) == CHOOSE g : Sums(g, c, s)
           t == [s \in SUBSET V |-> IF s = {} THEN 0
                                    ELSE c[Pick(s)] + G(s \ {Pick(s)})[s \ {Pick(s)}]]
<1>2. \A W \in SUBSET V : W # V => Sums(G(W), c, W)
  BY <1>1
<1>3. ASSUME NEW s \in SUBSET V, s # V PROVE t[s] = G(s)[s]
  <2>1. CASE s = {}
    <3>1. Sums(G(s), c, s)
      BY <1>2, <1>3
    <3> HIDE DEF G
    <3>2. QED
      BY <2>1, <3>1, SumsEmpty
  <2>2. CASE s # {}
    <3>1. Pick(s) \in s
      BY <2>2, PickIsIn
    <3> DEFINE u == s \ {Pick(s)}
    <3>2. Sums(G(s), c, s) /\ Sums(G(u), c, u)
      BY <1>2, <1>3, <3>1
    <3>3. t[s] = c[Pick(s)] + G(u)[u]
      BY <2>2
    <3> HIDE DEF G
    <3>4. G(s)[s] = c[Pick(s)] + G(s)[u]
      BY <2>2, <3>2, SumsStep
    <3>5. G(s)[u] = G(u)[u]
      <4>1. u \subseteq s /\ u \subseteq u /\ IsFiniteSet(u)
        BY FS_Subset
      <4> HIDE DEF u
      <4>2. QED
        BY <3>2, <4>1, SumsAgree
    <3>6. QED
      BY <3>3, <3>4, <3>5
  <2>3. QED
    BY <2>1, <2>2
<1>4. Sums(t, c, V)
  <2>1. ASSUME NEW s \in SUBSET V, s # {} PROVE t[s] = c[Pick(s)] + t[s \ {Pick(s)}]
    <3>1. Pick(s) \in s
      BY <2>1, PickIsIn
    <3>2. t[s \ {Pick(s)}] = G(s \ {Pick(s)})[s \ {Pick(s)}]
      <4>1. s \ {Pick(s)} \in SUBSET V /\ s \ {Pick(s)} # V
        BY <3>1
      <4> HIDE DEF t, G
      <4>2. QED
        BY <4>1, <1>3
    <3> HIDE DEF G
    <3>3. QED
      BY <2>1, <3>2
  <2>2. t[{}] = 0 /\ DOMAIN t = SUBSET V /\ t = [s \in SUBSET V |-> t[s]]
    OBVIOUS
  <2> HIDE DEF t
  <2>3. [s \in SUBSET V |-> t[s]]
          = [s \in SUBSET V |-> IF s = {} THEN 0 ELSE c[Pick(s)] + t[s \ {Pick(s)}]]
    BY <2>1, <2>2
  <2>4. QED
    BY <2>2, <2>3 DEF Sums
<1>5. QED
  BY <1>1, <1>4

LEMMA SumsNat ==
    ASSUME NEW S, IsFiniteSet(S), NEW g, NEW c, Sums(g, c, S), \A x \in S : c[x] \in Nat
    PROVE  \A U \in SUBSET S : g[U] \in Nat
<1> DEFINE Bad == {V \in SUBSET S : g[V] \notin Nat}
<1> SUFFICES Bad = {}
  OBVIOUS
<1> SUFFICES ASSUME Bad # {} PROVE FALSE
  OBVIOUS
<1>1. PICK V \in Bad : \A W \in SUBSET V : W \in Bad => W = V
  <2>1. Bad \subseteq SUBSET S
    OBVIOUS
  <2> HIDE DEF Bad
  <2>2. QED
    BY <2>1, LeastSet
<1>2. V # {}
  BY SumsEmpty
<1>3. Pick(V) \in V
  BY <1>2, PickIsIn
<1>4. g[V \ {Pick(V)}] \in Nat
  BY <1>1, <1>3
<1>5. g[V] = c[Pick(V)] + g[V \ {Pick(V)}]
  BY <1>2, SumsStep
<1>6. QED
  BY <1>3, <1>4, <1>5

\* In whichever order it is added up.
LEMMA SumsSplit ==
    ASSUME NEW S, IsFiniteSet(S), NEW g, NEW c, Sums(g, c, S), \A x \in S : c[x] \in Nat
    PROVE  \A U \in SUBSET S : \A x \in U : g[U] = c[x] + g[U \ {x}]
<1> DEFINE Bad == {V \in SUBSET S : ~\A x \in V : g[V] = c[x] + g[V \ {x}]}
<1> SUFFICES Bad = {}
  OBVIOUS
<1> SUFFICES ASSUME Bad # {} PROVE FALSE
  OBVIOUS
<1>1. PICK V \in Bad : \A W \in SUBSET V : W \in Bad => W = V
  <2>1. Bad \subseteq SUBSET S
    OBVIOUS
  <2> HIDE DEF Bad
  <2>2. QED
    BY <2>1, LeastSet
<1>2. PICK x \in V : g[V] # c[x] + g[V \ {x}]
  OBVIOUS
<1>3. Pick(V) \in V
  BY <1>2, PickIsIn
<1> DEFINE y == Pick(V)
<1>4. g[V] = c[y] + g[V \ {y}]
  <2>1. V \in SUBSET S /\ V # {}
    BY <1>2
  <2> HIDE DEF Bad, y
  <2>2. g[V] = c[Pick(V)] + g[V \ {Pick(V)}]
    BY <2>1, SumsStep
  <2>3. QED
    BY <2>2 DEF y
<1> HIDE DEF y
<1>5. x # y /\ y \in V
  BY <1>2, <1>3, <1>4 DEF y
<1>6. g[V \ {y}] = c[x] + g[(V \ {y}) \ {x}]
  BY <1>1, <1>5
<1>7. g[V \ {x}] = c[y] + g[(V \ {x}) \ {y}]
  BY <1>1, <1>5
<1>8. (V \ {x}) \ {y} = (V \ {y}) \ {x}
  OBVIOUS
<1>9. g[(V \ {y}) \ {x}] \in Nat /\ c[x] \in Nat /\ c[y] \in Nat
  BY <1>5, SumsNat
<1>10. QED
  <2>1. g[V \ {x}] = c[y] + g[(V \ {y}) \ {x}]
    BY <1>7, <1>8
  <2>2. QED
    BY <1>2, <1>4, <1>6, <1>9, <2>1

LEMMA SumsApart ==
    ASSUME NEW S, IsFiniteSet(S), NEW g, NEW c, Sums(g, c, S), \A x \in S : c[x] \in Nat,
           NEW z \in S
    PROVE  g[S] = c[z] + g[S \ {z}]
<1>1. S \in SUBSET S
  OBVIOUS
<1>2. QED
  BY <1>1, SumsSplit

\* What MapThenSumSet computes is one of these sums.
LEMMA ChargeSumIsSum ==
    ASSUME NEW S, IsFiniteSet(S), NEW f
    PROVE  \E g : Sums(g, [x \in S |-> f[x].charge], S) /\ ChargeSum(f, S) = g[S]
<1> DEFINE c == [x \in S |-> f[x].charge]
           Q(g) == g = [s \in SUBSET S |-> IF s = {} THEN 0
                                           ELSE f[Pick(s)].charge + g[s \ {Pick(s)}]]
           h == CHOOSE g : Q(g)
<1>1. ChargeSum(f, S) = h[S]
  BY Zenon DEF ChargeSum, MapThenSumSet, MapThenFoldSet, Pick
<1>2. \A s \in SUBSET S : s # {} => c[Pick(s)] = f[Pick(s)].charge
  <2>1. \A s \in SUBSET S : s # {} => Pick(s) \in S
    BY PickIsIn
  <2>2. QED
    BY <2>1
<1>3. ASSUME NEW g
      PROVE  [s \in SUBSET S |-> IF s = {} THEN 0 ELSE f[Pick(s)].charge + g[s \ {Pick(s)}]]
           = [s \in SUBSET S |-> IF s = {} THEN 0 ELSE c[Pick(s)] + g[s \ {Pick(s)}]]
  <2> HIDE DEF c
  <2>1. QED
    BY <1>2
<1>4. PICK g : Sums(g, c, S)
  BY SumsExist
<1>5. Q(g)
  <2> HIDE DEF c
  <2>1. QED
    BY <1>3, <1>4 DEF Sums
<1>6. Q(h)
  <2> HIDE DEF Q
  <2>1. QED
    BY <1>5
<1>7. Sums(h, c, S)
  <2> HIDE DEF c, h
  <2>1. QED
    BY <1>3, <1>6 DEF Sums
<1>8. QED
  BY <1>1, <1>7

LEMMA ChargeSumEmpty ==
    ASSUME NEW f
    PROVE  ChargeSum(f, {}) = 0
BY ChargeSumIsSum, SumsEmpty, FS_EmptySet

LEMMA ChargeSumNat ==
    ASSUME NEW S, IsFiniteSet(S), NEW f, \A x \in S : f[x].charge \in Nat
    PROVE  ChargeSum(f, S) \in Nat
<1> DEFINE c == [x \in S |-> f[x].charge]
<1>1. PICK g : Sums(g, c, S) /\ ChargeSum(f, S) = g[S]
  BY ChargeSumIsSum
<1>2. \A x \in S : c[x] \in Nat
  OBVIOUS
<1> HIDE DEF c
<1>3. QED
  BY <1>1, <1>2, SumsNat

\* Things that are charged the same are charged the same in sum.
LEMMA ChargeSumAgree ==
    ASSUME NEW S, IsFiniteSet(S), NEW f, NEW h, \A x \in S : f[x].charge = h[x].charge
    PROVE  ChargeSum(f, S) = ChargeSum(h, S)
<1> DEFINE c == [x \in S |-> f[x].charge]
           d == [x \in S |-> h[x].charge]
<1>1. PICK g1 : Sums(g1, c, S) /\ ChargeSum(f, S) = g1[S]
  BY ChargeSumIsSum
<1>2. PICK g2 : Sums(g2, d, S) /\ ChargeSum(h, S) = g2[S]
  BY ChargeSumIsSum
<1>3. \A x \in S : c[x] = d[x]
  OBVIOUS
<1> HIDE DEF c, d
<1>4. QED
  BY <1>1, <1>2, <1>3, SumsAgree

\* One of them can be put apart.
LEMMA ChargeSumSplit ==
    ASSUME NEW S, IsFiniteSet(S), NEW f, \A x \in S : f[x].charge \in Nat, NEW x \in S
    PROVE  ChargeSum(f, S) = f[x].charge + ChargeSum(f, S \ {x})
<1> DEFINE T == S \ {x}
           c == [y \in S |-> f[y].charge]
           d == [y \in T |-> f[y].charge]
<1>1. PICK g1 : Sums(g1, c, S) /\ ChargeSum(f, S) = g1[S]
  BY ChargeSumIsSum
<1>2. PICK g2 : Sums(g2, d, T) /\ ChargeSum(f, T) = g2[T]
  BY ChargeSumIsSum, FS_Subset
<1>3. (\A y \in T : c[y] = d[y]) /\ (\A y \in S : c[y] \in Nat) /\ c[x] = f[x].charge
  OBVIOUS
<1>4. T \subseteq S /\ T \subseteq T /\ IsFiniteSet(T)
  BY FS_Subset
<1>5. g1[S] = c[x] + g1[T]
  <2> HIDE DEF c, d, T
  <2>1. Sums(g1, c, S) /\ \A y \in S : c[y] \in Nat
    BY <1>1, <1>3
  <2>2. S \in SUBSET S
    OBVIOUS
  <2>3. g1[S] = c[x] + g1[S \ {x}]
    BY <2>1, <2>2, SumsApart
  <2>4. QED
    BY <2>3 DEF T
<1> HIDE DEF c, d, T
<1>6. g1[T] = g2[T]
  BY <1>1, <1>2, <1>3, <1>4, SumsAgree
<1>7. QED
  BY <1>1, <1>2, <1>3, <1>5, <1>6 DEF T

=============================================================================
