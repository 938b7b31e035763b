-------------------------------- MODULE Sums --------------------------------
(***************************************************************************)
(* Totals of numbered rows.  The services keep money and seats as totals   *)
(* over rows (the lots of a wallet, the bookings of a ride); SumTo(f, n)   *)
(* is f[1] + ... + f[n].  It is a recursive function, not a RECURSIVE      *)
(* operator, so that its lemmas can be proved.  Induction on the number of  *)
(* rows is done by taking the least number of rows for which a claim fails.*)
(***************************************************************************)
EXTENDS Integers, FiniteSetsExt, FiniteSetTheorems, TLAPS

SumTo(f, n) ==
  LET partial[i \in 0..n] == IF i = 0 THEN 0 ELSE partial[i-1] + f[i]
  IN  partial[n]

\* The total of the numbered rows in S.
SumOver(S, f, n) == SumTo([i \in 1..n |-> IF i \in S THEN f[i] ELSE 0], n)

\* The total of a set of rows of the ledger.
AmountOf(rows) == MapThenSumSet(LAMBDA row : row.amount, rows)

-----------------------------------------------------------------------------
(* How a total changes with its rows.                                      *)

\* Every non-empty set of naturals has a least element.
LEMMA LeastNatural ==
  ASSUME NEW T, T \subseteq Nat, T # {}
  PROVE  \E x \in T : \A y \in T : x <= y
<1>1. PICK x \in T : \A y \in T : ~ (<<y, x>> \in OpToRel(<, Nat))
  BY NatLessThanWellFounded, WFMin
<1>2. \A y \in T : y < x => <<y, x>> \in OpToRel(<, Nat)
  <2>1. \A m, k \in Nat : m < k => <<m, k>> \in OpToRel(<, Nat)
    BY Zenon DEF OpToRel
  <2> QED BY <2>1
<1>3. \A y \in T : ~ (y < x)
  BY Zenon, <1>1, <1>2
<1>4. QED BY <1>3

\* The table of partial sums that the definition of SumTo unrolls.
PartialSums(s, f, n) ==
  s = [i \in 0..n |-> IF i = 0 THEN 0 ELSE s[i-1] + f[i]]

\* The recursive definition in SumTo has a solution for every number of rows.
LEMMA PartialSumsExist ==
  ASSUME NEW n \in Nat, NEW f
  PROVE  \E s : PartialSums(s, f, n)
<1> DEFINE Bad == {m \in Nat : ~ \E s : PartialSums(s, f, m)}
<1>1. SUFFICES ASSUME Bad # {} PROVE FALSE
  OBVIOUS
<1>2. PICK m \in Bad : \A y \in Bad : m <= y
  BY <1>1, LeastNatural
<1>3. CASE m = 0
  <2>1. PartialSums([i \in 0..0 |-> 0], f, 0)
    BY DEF PartialSums
  <2> QED BY <2>1, <1>3, <1>2
<1>4. CASE m # 0
  <2>1. m - 1 \in Nat /\ m - 1 \notin Bad
    BY <1>2, <1>4
  <2>2. PICK s : PartialSums(s, f, m-1)
    BY <2>1
  <2> DEFINE t == [i \in 0..m |-> IF i = m THEN s[m-1] + f[m] ELSE s[i]]
  <2>3. PartialSums(t, f, m)
    BY <2>1, <2>2 DEF PartialSums
  <2> QED BY <2>3, <1>2
<1> QED BY <1>3, <1>4

\* SumTo is the last entry of the table of partial sums.
LEMMA SumToTable ==
  ASSUME NEW n \in Nat, NEW f
  PROVE  \E s : PartialSums(s, f, n) /\ SumTo(f, n) = s[n]
<1> DEFINE s == CHOOSE g : g = [i \in 0..n |-> IF i = 0 THEN 0 ELSE g[i-1] + f[i]]
<1>1. \E g : g = [i \in 0..n |-> IF i = 0 THEN 0 ELSE g[i-1] + f[i]]
  BY PartialSumsExist DEF PartialSums
<1>2. PartialSums(s, f, n)
  BY <1>1 DEF PartialSums
<1>3. SumTo(f, n) = s[n]
  BY DEF SumTo
<1> QED BY <1>2, <1>3

\* A table for n rows agrees with a table for fewer rows on the common part.
LEMMA PartialSumsUnique ==
  ASSUME NEW n \in Nat, NEW m \in 0..n, NEW f, NEW g, NEW s, NEW t,
         PartialSums(s, f, n), PartialSums(t, g, m),
         \A i \in 1..m : f[i] = g[i]
  PROVE  \A i \in 0..m : s[i] = t[i]
<1> DEFINE Bad == {i \in 0..m : s[i] # t[i]}
<1>1. SUFFICES ASSUME Bad # {} PROVE FALSE
  OBVIOUS
<1>2. PICK i \in Bad : \A y \in Bad : i <= y
  <2>1. Bad \subseteq Nat
    OBVIOUS
  <2> HIDE DEF Bad
  <2> QED BY <1>1, <2>1, LeastNatural
<1>3. CASE i = 0
  BY <1>2, <1>3 DEF PartialSums
<1>4. CASE i # 0
  <2>1. i - 1 \in 0..m /\ i - 1 \notin Bad
    BY <1>2, <1>4
  <2>2. s[i] = s[i-1] + f[i] /\ t[i] = t[i-1] + g[i]
    BY <1>2, <1>4 DEF PartialSums
  <2> QED BY <1>2, <1>4, <2>1, <2>2
<1> QED BY <1>3, <1>4

\* No rows sum to zero, and one more row adds its value.
LEMMA SumToZero == ASSUME NEW f PROVE SumTo(f, 0) = 0
  BY SumToTable DEF PartialSums

\* One more row adds its value to the total.
LEMMA SumToStep ==
  ASSUME NEW n \in Nat \ {0}, NEW f
  PROVE  SumTo(f, n) = SumTo(f, n-1) + f[n]
<1>1. PICK s : PartialSums(s, f, n) /\ SumTo(f, n) = s[n]
  BY SumToTable
<1>2. PICK t : PartialSums(t, f, n-1) /\ SumTo(f, n-1) = t[n-1]
  BY SumToTable, n - 1 \in Nat
<1>3. s[n-1] = t[n-1]
  BY <1>1, <1>2, PartialSumsUnique, n - 1 \in 0..n
<1> QED BY <1>1, <1>2, <1>3 DEF PartialSums

\* Rows that are equal one by one have equal totals.
LEMMA SumToEqual ==
  ASSUME NEW n \in Nat, NEW f, NEW g, \A i \in 1..n : f[i] = g[i]
  PROVE  SumTo(f, n) = SumTo(g, n)
<1>1. PICK s : PartialSums(s, f, n) /\ SumTo(f, n) = s[n]
  BY SumToTable
<1>2. PICK t : PartialSums(t, g, n) /\ SumTo(g, n) = t[n]
  BY SumToTable
<1>3. n \in 0..n
  OBVIOUS
<1> QED BY <1>1, <1>2, <1>3, PartialSumsUnique

\* Rows of zeros add up to zero.
LEMMA SumToNone ==
  ASSUME NEW n \in Nat, NEW f, \A i \in 1..n : f[i] = 0
  PROVE  SumTo(f, n) = 0
<1>1. PICK s : PartialSums(s, f, n) /\ SumTo(f, n) = s[n]
  BY SumToTable
<1> DEFINE T == {m \in 0..n : s[m] # 0}
<1>2. SUFFICES ASSUME T # {} PROVE FALSE
  BY <1>1
<1>3. PICK m \in T : \A k \in T : m <= k
  <2>1. T \subseteq Nat
    OBVIOUS
  <2> HIDE DEF T
  <2> QED BY <1>2, <2>1, LeastNatural
<1>4. s[m] = IF m = 0 THEN 0 ELSE s[m-1] + f[m]
  BY <1>1 DEF PartialSums
<1>5. m # 0 /\ m - 1 \in 0..n /\ m - 1 \notin T
  BY <1>3, <1>4
<1> QED BY <1>3, <1>4, <1>5

\* A total of integers is an integer, and a total of naturals a natural that
\* bounds each of its rows.
LEMMA SumToInt ==
  ASSUME NEW n \in Nat, NEW f, \A i \in 1..n : f[i] \in Int
  PROVE  SumTo(f, n) \in Int
<1> DEFINE Bad == {m \in 0..n : SumTo(f, m) \notin Int}
<1>1. SUFFICES ASSUME Bad # {} PROVE FALSE
  OBVIOUS
<1>2. PICK m \in Bad : \A y \in Bad : m <= y
  <2>1. Bad \subseteq Nat
    OBVIOUS
  <2> HIDE DEF Bad
  <2> QED BY <1>1, <2>1, LeastNatural
<1>3. m # 0
  BY <1>2, SumToZero
<1>4. m - 1 \in 0..n /\ m - 1 \notin Bad
  BY <1>2, <1>3
<1>5. SumTo(f, m) = SumTo(f, m-1) + f[m]
  BY <1>2, <1>3, SumToStep
<1> QED BY <1>2, <1>3, <1>4, <1>5

\* Rows of zeros at the end add nothing.
LEMMA SumToPadded ==
  ASSUME NEW n \in Nat, NEW m \in 0..n, NEW f,
         \A i \in 1..m : f[i] \in Int, \A i \in m+1..n : f[i] = 0
  PROVE  SumTo(f, n) = SumTo(f, m)
<1> DEFINE Bad == {k \in m..n : SumTo(f, k) # SumTo(f, m)}
<1>1. SUFFICES ASSUME Bad # {} PROVE FALSE
  OBVIOUS
<1>2. PICK k \in Bad : \A y \in Bad : k <= y
  <2>1. Bad \subseteq Nat
    OBVIOUS
  <2> HIDE DEF Bad
  <2> QED BY <1>1, <2>1, LeastNatural
<1>3. k # m /\ k - 1 \in m..n /\ k - 1 \notin Bad /\ k \in Nat \ {0}
  BY <1>2
<1>4. SumTo(f, k) = SumTo(f, k-1) + f[k] /\ f[k] = 0
  BY <1>2, <1>3, SumToStep
<1>5. SumTo(f, k-1) = SumTo(f, m)
  BY <1>3
<1>6. SumTo(f, m) \in Int
  BY SumToInt
<1> QED BY <1>2, <1>4, <1>5, <1>6

\* A total of naturals is a natural.
LEMMA SumToNat ==
  ASSUME NEW n \in Nat, NEW f, \A i \in 1..n : f[i] \in Nat
  PROVE  SumTo(f, n) \in Nat
<1> DEFINE Bad == {m \in 0..n : SumTo(f, m) \notin Nat}
<1>1. SUFFICES ASSUME Bad # {} PROVE FALSE
  OBVIOUS
<1>2. PICK m \in Bad : \A y \in Bad : m <= y
  <2>1. Bad \subseteq Nat
    OBVIOUS
  <2> HIDE DEF Bad
  <2> QED BY <1>1, <2>1, LeastNatural
<1>3. m # 0
  BY <1>2, SumToZero
<1>4. m - 1 \in 0..n /\ m - 1 \notin Bad
  BY <1>2, <1>3
<1>5. SumTo(f, m) = SumTo(f, m-1) + f[m]
  BY <1>2, <1>3, SumToStep
<1> QED BY <1>2, <1>3, <1>4, <1>5

\* Totals of two tables add up row by row.
LEMMA SumToPlus ==
  ASSUME NEW n \in Nat, NEW f, NEW g, NEW h,
         \A i \in 1..n : f[i] \in Int /\ g[i] \in Int /\ h[i] = f[i] + g[i]
  PROVE  SumTo(h, n) = SumTo(f, n) + SumTo(g, n)
<1> DEFINE Bad == {m \in 0..n : SumTo(h, m) # SumTo(f, m) + SumTo(g, m)}
<1>1. SUFFICES ASSUME Bad # {} PROVE FALSE
  OBVIOUS
<1>2. PICK m \in Bad : \A y \in Bad : m <= y
  <2>1. Bad \subseteq Nat
    OBVIOUS
  <2> HIDE DEF Bad
  <2> QED BY <1>1, <2>1, LeastNatural
<1>3. m # 0
  BY <1>2, SumToZero
<1>4. m - 1 \in 0..n /\ m - 1 \notin Bad
  BY <1>2, <1>3
<1>5. /\ SumTo(h, m) = SumTo(h, m-1) + h[m]
      /\ SumTo(f, m) = SumTo(f, m-1) + f[m]
      /\ SumTo(g, m) = SumTo(g, m-1) + g[m]
  BY <1>2, <1>3, SumToStep
<1>6. SumTo(f, m-1) \in Int /\ SumTo(g, m-1) \in Int
  BY <1>2, <1>3, SumToInt, m - 1 \in Nat
<1> QED BY <1>2, <1>3, <1>4, <1>5, <1>6

\* A table added with sign x (1, 0 or -1) counts with that sign in the total.
LEMMA SumToSigned ==
  ASSUME NEW n \in Nat, NEW f, NEW g, NEW h, NEW x \in {-1, 0, 1},
         \A i \in 1..n : f[i] \in Int /\ g[i] \in Int /\ h[i] = f[i] + x * g[i]
  PROVE  SumTo(h, n) = SumTo(f, n) + x * SumTo(g, n)
<1>1. SumTo(f, n) \in Int /\ SumTo(g, n) \in Int
  BY SumToInt
<1>2. CASE x = 1
  <2>1. \A i \in 1..n : h[i] = f[i] + g[i]
    BY <1>2
  <2> QED BY <1>1, <1>2, <2>1, SumToPlus
<1>3. CASE x = 0
  <2>1. \A i \in 1..n : h[i] = f[i]
    BY <1>3
  <2> QED BY <1>1, <1>3, <2>1, SumToEqual
<1>4. CASE x = -1
  <2>1. \A i \in 1..n : h[i] \in Int /\ f[i] = h[i] + g[i]
    BY <1>4
  <2>2. SumTo(f, n) = SumTo(h, n) + SumTo(g, n)
    BY <2>1, SumToPlus
  <2>3. SumTo(h, n) \in Int
    BY <2>1, SumToInt
  <2> QED BY <1>1, <1>4, <2>2, <2>3
<1> QED BY <1>2, <1>3, <1>4

\* Changing one row changes the total by the change of that row.
LEMMA SumToUpdate ==
  ASSUME NEW n \in Nat, NEW k \in 1..n, NEW f, NEW g,
         \A i \in 1..n : f[i] \in Int /\ g[i] \in Int,
         \A i \in 1..n : i # k => g[i] = f[i]
  PROVE  SumTo(g, n) = SumTo(f, n) - f[k] + g[k]
<1> DEFINE Bad == {m \in k..n : SumTo(g, m) # SumTo(f, m) - f[k] + g[k]}
<1>1. SUFFICES ASSUME Bad # {} PROVE FALSE
  OBVIOUS
<1>2. PICK m \in Bad : \A y \in Bad : m <= y
  <2>1. Bad \subseteq Nat
    OBVIOUS
  <2> HIDE DEF Bad
  <2> QED BY <1>1, <2>1, LeastNatural
<1>3. /\ SumTo(f, m) = SumTo(f, m-1) + f[m]
      /\ SumTo(g, m) = SumTo(g, m-1) + g[m]
  BY <1>2, SumToStep
<1>4. SumTo(f, m-1) \in Int /\ SumTo(g, m-1) \in Int
  BY <1>2, SumToInt, m - 1 \in Nat
<1>5. CASE m = k
  <2>1. SumTo(g, k-1) = SumTo(f, k-1)
    BY SumToEqual, k - 1 \in Nat
  <2> QED BY <1>2, <1>3, <1>4, <1>5, <2>1
<1>6. CASE m # k
  <2>1. m - 1 \in k..n /\ m - 1 \notin Bad
    BY <1>2, <1>6
  <2> QED BY <1>2, <1>3, <1>4, <1>6, <2>1
<1> QED BY <1>5, <1>6

\* A total of naturals is at least each of its rows.
LEMMA SumToAtLeast ==
  ASSUME NEW n \in Nat, NEW k \in 1..n, NEW f, \A i \in 1..n : f[i] \in Nat
  PROVE  f[k] <= SumTo(f, n)
<1> DEFINE g == [i \in 1..n |-> IF i = k THEN 0 ELSE f[i]]
<1>1. SumTo(g, n) = SumTo(f, n) - f[k] + g[k]
  BY SumToUpdate
<1>2. SumTo(g, n) \in Nat /\ SumTo(f, n) \in Nat
  BY SumToNat
<1> QED BY <1>1, <1>2

-----------------------------------------------------------------------------
(* Totals over a set of the rows, each of them a natural number.           *)

\* A sum of naturals over chosen places is a natural.
LEMMA SumOverNat ==
  ASSUME NEW n \in Nat, NEW f, \A i \in 1..n : f[i] \in Nat, NEW S
  PROVE  SumOver(S, f, n) \in Nat
<1> DEFINE g == [i \in 1..n |-> IF i \in S THEN f[i] ELSE 0]
<1>1. \A i \in 1..n : g[i] \in Nat
  OBVIOUS
<1> HIDE DEF g
<1>2. SumTo(g, n) \in Nat
  BY <1>1, SumToNat
<1> QED BY <1>2 DEF SumOver, g

\* No rows, no total.
LEMMA SumOverNone ==
  ASSUME NEW n \in Nat, NEW f PROVE SumOver({}, f, n) = 0
<1> DEFINE g == [i \in 1..n |-> IF i \in {} THEN f[i] ELSE 0]
<1>1. \A i \in 1..n : g[i] = 0
  OBVIOUS
<1> HIDE DEF g
<1>2. SumTo(g, n) = 0
  BY <1>1, SumToNone
<1> QED BY <1>2 DEF SumOver, g

\* One more row adds its value.
LEMMA SumOverMore ==
  ASSUME NEW n \in Nat, NEW f, \A i \in 1..n : f[i] \in Nat, NEW S, NEW k \in 1..n, k \notin S
  PROVE  SumOver(S \cup {k}, f, n) = SumOver(S, f, n) + f[k]
<1> DEFINE g == [i \in 1..n |-> IF i \in S THEN f[i] ELSE 0]
           h == [i \in 1..n |-> IF i \in S \cup {k} THEN f[i] ELSE 0]
<1>1. /\ \A i \in 1..n : g[i] \in Int /\ h[i] \in Int
      /\ \A i \in 1..n : i # k => h[i] = g[i]
      /\ g[k] = 0 /\ h[k] = f[k] /\ f[k] \in Nat
  OBVIOUS
<1>2. SumTo(g, n) \in Nat
  BY SumOverNat DEF SumOver
<1> HIDE DEF g, h
<1>3. SumTo(h, n) = SumTo(g, n) - g[k] + h[k]
  BY <1>1, SumToUpdate
<1>4. SumTo(h, n) = SumTo(g, n) + f[k]
  BY <1>1, <1>2, <1>3
<1> QED BY <1>4 DEF SumOver, g, h

\* More rows have no smaller total.
LEMMA SumOverSubset ==
  ASSUME NEW n \in Nat, NEW f, \A i \in 1..n : f[i] \in Nat, NEW T, NEW S \in SUBSET T
  PROVE  SumOver(S, f, n) <= SumOver(T, f, n)
<1> DEFINE g == [i \in 1..n |-> IF i \in S THEN f[i] ELSE 0]
           d == [i \in 1..n |-> IF i \in T \ S THEN f[i] ELSE 0]
           h == [i \in 1..n |-> IF i \in T THEN f[i] ELSE 0]
<1>1. \A i \in 1..n : g[i] \in Int /\ d[i] \in Int /\ h[i] = g[i] + d[i]
  OBVIOUS
<1>2. SumTo(g, n) \in Nat /\ SumTo(d, n) \in Nat
  BY SumOverNat DEF SumOver
<1> HIDE DEF g, d, h
<1>3. SumTo(h, n) = SumTo(g, n) + SumTo(d, n)
  BY <1>1, SumToPlus
<1>4. SumTo(g, n) <= SumTo(h, n)
  BY <1>2, <1>3
<1> QED BY <1>4 DEF SumOver, g, h

-----------------------------------------------------------------------------
(* Totals of sets of rows.                                                 *)

Pick(s) == CHOOSE x \in s : TRUE

\* The table of the totals of subsets that the definition of AmountOf unrolls.
SubsetTotals(t, S) ==
  t = [s \in SUBSET S |-> IF s = {} THEN 0 ELSE Pick(s).amount + t[s \ {Pick(s)}]]

\* The total of a set is in its table.
LEMMA TotalInTable == ASSUME NEW S PROVE AmountOf(S) = (CHOOSE t : SubsetTotals(t, S))[S]
BY DEF AmountOf, MapThenSumSet, MapThenFoldSet, SubsetTotals, Pick

\* Finite sets with a fault have a least one.
LEMMA LeastSet ==
  ASSUME NEW S, IsFiniteSet(S), NEW B \in SUBSET (SUBSET S), B # {}
  PROVE  \E m \in B : \A v \in B : v \subseteq m => v = m
<1>1. B \subseteq FiniteSubsetsOf(S)
  BY FS_Subset DEF FiniteSubsetsOf
<1>2. PICK m \in B : \A v \in B : ~(<<v, m>> \in StrictSubsetOrdering(S))
  BY <1>1, FS_StrictSubsetOrderingWellFounded, WFMin
<1>3. \A v \in B : v \subseteq m /\ v # m => <<v, m>> \in StrictSubsetOrdering(S)
  BY DEF StrictSubsetOrdering
<1>4. \A v \in B : v \subseteq m => v = m
  <2> TAKE v \in B
  <2>1. ~(<<v, m>> \in StrictSubsetOrdering(S))
    BY <1>2
  <2> QED BY <1>3, <2>1
<1> QED BY <1>4

\* A non-empty set has the row that is picked from it.
LEMMA PickIn == ASSUME NEW s, s # {} PROVE Pick(s) \in s
BY DEF Pick

\* Two tables agree on the subsets both have.
LEMMA TablesAgree ==
  ASSUME NEW S, IsFiniteSet(S), NEW u \in SUBSET S, NEW t, SubsetTotals(t, S), NEW r,
         SubsetTotals(r, u)
  PROVE  \A v \in SUBSET u : t[v] = r[v]
<1> DEFINE B == {v \in SUBSET u : t[v] # r[v]}
<1>1. SUFFICES ASSUME B # {} PROVE FALSE
  OBVIOUS
<1>2. B \in SUBSET (SUBSET S)
  OBVIOUS
<1>3. PICK m \in B : \A v \in B : v \subseteq m => v = m
  <2> HIDE DEF B
  <2> QED BY <1>1, <1>2, LeastSet
<1>4. t[m] = IF m = {} THEN 0 ELSE Pick(m).amount + t[m \ {Pick(m)}]
  BY DEF SubsetTotals
<1>5. r[m] = IF m = {} THEN 0 ELSE Pick(m).amount + r[m \ {Pick(m)}]
  BY DEF SubsetTotals
<1>6. m # {} => t[m \ {Pick(m)}] = r[m \ {Pick(m)}]
  BY <1>3, PickIn
<1> QED BY <1>3, <1>4, <1>5, <1>6

\* The recursive definition in AmountOf has a solution for every finite set.
LEMMA TablesExist ==
  ASSUME NEW S, IsFiniteSet(S) PROVE \E t : SubsetTotals(t, S)
<1> DEFINE B == {u \in SUBSET S : ~ \E t : SubsetTotals(t, u)}
<1>1. SUFFICES ASSUME B # {} PROVE FALSE
  OBVIOUS
<1>2. PICK m \in B : \A v \in B : v \subseteq m => v = m
  <2> B \in SUBSET (SUBSET S)
    OBVIOUS
  <2> HIDE DEF B
  <2> QED BY <1>1, LeastSet
<1>3. m \in SUBSET S /\ IsFiniteSet(m)
  BY FS_Subset
<1>4. ASSUME NEW v \in SUBSET m, v # m
      PROVE  AmountOf(v) = IF v = {} THEN 0 ELSE Pick(v).amount + AmountOf(v \ {Pick(v)})
  <2> DEFINE t == CHOOSE t : SubsetTotals(t, v)
             w == v \ {Pick(v)}
             r == CHOOSE r : SubsetTotals(r, w)
  <2>1. v \in SUBSET S /\ IsFiniteSet(v) /\ SubsetTotals(t, v)
    BY <1>2, <1>3, <1>4, FS_Subset
  <2>2. AmountOf(v) = t[v] /\ AmountOf(w) = r[w]
    BY TotalInTable
  <2>3. CASE v = {}
    BY <2>1, <2>2, <2>3 DEF SubsetTotals
  <2>4. CASE v # {}
    <3>1. w \in SUBSET v /\ w \in SUBSET S /\ w # m
      BY <2>1, <2>4, PickIn, <1>4
    <3>2. SubsetTotals(r, w)
      BY <1>2, <3>1
    <3> HIDE DEF t, r
    <3>3. t[w] = r[w]
      BY <2>1, <3>1, <3>2, TablesAgree
    <3>4. t[v] = Pick(v).amount + t[w]
      BY <2>1, <2>4 DEF SubsetTotals
    <3> QED BY <2>2, <2>4, <3>3, <3>4
  <2> QED BY <2>3, <2>4
<1> DEFINE t == [v \in SUBSET m |->
                   IF v # m THEN AmountOf(v)
                   ELSE IF m = {} THEN 0 ELSE Pick(m).amount + AmountOf(m \ {Pick(m)})]
<1>5. ASSUME NEW v \in SUBSET m
      PROVE  t[v] = IF v = {} THEN 0 ELSE Pick(v).amount + t[v \ {Pick(v)}]
  <2>1. v # {} => v \ {Pick(v)} \in SUBSET m /\ v \ {Pick(v)} # m
    BY PickIn
  <2> QED BY <1>4, <2>1
<1>6. SubsetTotals(t, m)
  <2>1. t = [v \in SUBSET m |-> t[v]]
    OBVIOUS
  <2> HIDE DEF t
  <2> QED BY <1>5, <2>1 DEF SubsetTotals
<1> QED BY <1>2, <1>6

\* The total of a finite set is that of the rest and of the row picked first.
LEMMA TotalUnrolls ==
  ASSUME NEW S, IsFiniteSet(S)
  PROVE  AmountOf(S) = IF S = {} THEN 0 ELSE Pick(S).amount + AmountOf(S \ {Pick(S)})
<1> DEFINE w == S \ {Pick(S)}
           t == CHOOSE t : SubsetTotals(t, S)
           r == CHOOSE r : SubsetTotals(r, w)
<1>1. IsFiniteSet(w) /\ w \in SUBSET S
  BY FS_Subset
<1>2. SubsetTotals(t, S) /\ SubsetTotals(r, w)
  BY <1>1, TablesExist
<1>3. AmountOf(S) = t[S] /\ AmountOf(w) = r[w]
  BY TotalInTable
<1>4. S \in SUBSET S
  OBVIOUS
<1>5. t[S] = IF S = {} THEN 0 ELSE Pick(S).amount + t[w]
  BY <1>2, <1>4 DEF SubsetTotals
<1> HIDE DEF t, r
<1>6. t[w] = r[w]
  BY <1>1, <1>2, TablesAgree
<1> QED BY <1>3, <1>5, <1>6

\* Rows with whole amounts have a whole total.
LEMMA TotalInt ==
  ASSUME NEW S, IsFiniteSet(S), \A x \in S : x.amount \in Int PROVE AmountOf(S) \in Int
<1> DEFINE B == {u \in SUBSET S : AmountOf(u) \notin Int}
<1>1. SUFFICES ASSUME B # {} PROVE FALSE
  BY DEF B
<1>2. PICK m \in B : \A v \in B : v \subseteq m => v = m
  <2> B \in SUBSET (SUBSET S)
    OBVIOUS
  <2> HIDE DEF B
  <2> QED BY <1>1, LeastSet
<1>3. IsFiniteSet(m) /\ m \in SUBSET S
  BY FS_Subset
<1>4. m # {} => Pick(m) \in m /\ AmountOf(m \ {Pick(m)}) \in Int
  BY <1>2, PickIn
<1>5. AmountOf(m) \notin Int /\ (m # {} => Pick(m).amount \in Int)
  BY <1>2, <1>3, <1>4
<1>6. AmountOf(m) = IF m = {} THEN 0 ELSE Pick(m).amount + AmountOf(m \ {Pick(m)})
  BY <1>3, TotalUnrolls
<1> HIDE DEF B
<1> QED BY <1>4, <1>5, <1>6

\* Rows with natural amounts have a natural total.
LEMMA TotalNat ==
  ASSUME NEW S, IsFiniteSet(S), \A x \in S : x.amount \in Nat PROVE AmountOf(S) \in Nat
<1> DEFINE B == {u \in SUBSET S : AmountOf(u) \notin Nat}
<1>1. SUFFICES ASSUME B # {} PROVE FALSE
  BY DEF B
<1>2. PICK m \in B : \A v \in B : v \subseteq m => v = m
  <2> B \in SUBSET (SUBSET S)
    OBVIOUS
  <2> HIDE DEF B
  <2> QED BY <1>1, LeastSet
<1>3. IsFiniteSet(m) /\ m \in SUBSET S
  BY FS_Subset
<1>4. m # {} => Pick(m) \in m /\ AmountOf(m \ {Pick(m)}) \in Nat
  BY <1>2, PickIn
<1>5. AmountOf(m) \notin Nat /\ (m # {} => Pick(m).amount \in Nat)
  BY <1>2, <1>3, <1>4
<1>6. AmountOf(m) = IF m = {} THEN 0 ELSE Pick(m).amount + AmountOf(m \ {Pick(m)})
  BY <1>3, TotalUnrolls
<1> HIDE DEF B
<1> QED BY <1>4, <1>5, <1>6

\* No rows, no total.
LEMMA TotalNone == AmountOf({}) = 0
BY TotalUnrolls, FS_EmptySet

\* Any row may be taken out first.
LEMMA TotalLess ==
  ASSUME NEW S, IsFiniteSet(S), \A x \in S : x.amount \in Int, NEW x \in S
  PROVE  AmountOf(S) = AmountOf(S \ {x}) + x.amount
<1> DEFINE Fits(u) == \A y \in u : AmountOf(u) = AmountOf(u \ {y}) + y.amount
           B == {u \in SUBSET S : ~Fits(u)}
<1>1. SUFFICES ASSUME B # {} PROVE FALSE
  OBVIOUS
<1>2. PICK m \in B : \A v \in B : v \subseteq m => v = m
  <2> B \in SUBSET (SUBSET S)
    OBVIOUS
  <2> HIDE DEF B
  <2> QED BY <1>1, LeastSet
<1>3. m \in SUBSET S
  OBVIOUS
<1>4. \A v \in SUBSET m : v # m => Fits(v)
  BY <1>2
<1>5. PICK y \in m : AmountOf(m) # AmountOf(m \ {y}) + y.amount
  OBVIOUS
<1> HIDE DEF B
<1> DEFINE p == Pick(m)
<1>6. p \in m /\ AmountOf(m) = p.amount + AmountOf(m \ {p})
  BY <1>3, PickIn, TotalUnrolls, FS_Subset
<1>7. \A v \in SUBSET m : AmountOf(v) \in Int
  <2> SUFFICES ASSUME NEW v \in SUBSET m PROVE AmountOf(v) \in Int
    OBVIOUS
  <2>1. IsFiniteSet(v) /\ \A z \in v : z.amount \in Int
    BY <1>3, FS_Subset
  <2> QED BY <2>1, TotalInt
<1>8. p.amount \in Int /\ y.amount \in Int
  BY <1>3, <1>6
<1>9. p # y
  BY <1>5, <1>6, <1>7, <1>8
<1>10. AmountOf(m \ {p}) = AmountOf((m \ {p}) \ {y}) + y.amount
  <2>1. m \ {p} \in SUBSET m /\ m \ {p} # m /\ y \in m \ {p}
    BY <1>6, <1>9
  <2> QED BY <1>4, <2>1
<1>11. AmountOf(m \ {y}) = AmountOf((m \ {y}) \ {p}) + p.amount
  <2>1. m \ {y} \in SUBSET m /\ m \ {y} # m /\ p \in m \ {y}
    BY <1>6, <1>9
  <2> QED BY <1>4, <2>1
<1>12. (m \ {p}) \ {y} = (m \ {y}) \ {p} /\ AmountOf((m \ {p}) \ {y}) \in Int
  <2>1. (m \ {p}) \ {y} = (m \ {y}) \ {p}
    OBVIOUS
  <2> DEFINE q == (m \ {p}) \ {y}
  <2>2. q \in SUBSET m
    OBVIOUS
  <2> HIDE DEF q
  <2>3. AmountOf(q) \in Int
    BY <2>2, <1>7
  <2> QED BY <2>1, <2>3 DEF q
<1> DEFINE all == AmountOf(m)
           one == AmountOf(m \ {p})
           other == AmountOf(m \ {y})
           rest == AmountOf((m \ {p}) \ {y})
<1>13. /\ all # other + y.amount /\ all = p.amount + one
       /\ one = rest + y.amount /\ other = rest + p.amount /\ rest \in Int
  BY <1>5, <1>6, <1>10, <1>11, <1>12, Zenon
<1> HIDE DEF all, one, other, rest, p
<1> QED BY <1>8, <1>13

\* One more row.
LEMMA TotalMore ==
  ASSUME NEW S, IsFiniteSet(S), \A x \in S : x.amount \in Int, NEW x, x \notin S, x.amount \in Int
  PROVE  AmountOf(S \cup {x}) = AmountOf(S) + x.amount
<1>1. IsFiniteSet(S \cup {x})
  BY FS_AddElement
<1>2. (S \cup {x}) \ {x} = S
  OBVIOUS
<1>3. AmountOf(S \cup {x}) = AmountOf((S \cup {x}) \ {x}) + x.amount
  BY <1>1, TotalLess
<1> QED BY <1>2, <1>3

\* Two sets of rows without a common one add up.
LEMMA TotalUnion ==
  ASSUME NEW S, IsFiniteSet(S), \A x \in S : x.amount \in Int,
         NEW T, IsFiniteSet(T), \A x \in T : x.amount \in Int, S \cap T = {}
  PROVE  AmountOf(S \cup T) = AmountOf(S) + AmountOf(T)
<1> DEFINE B == {u \in SUBSET T : AmountOf(S \cup u) # AmountOf(S) + AmountOf(u)}
<1>1. SUFFICES ASSUME B # {} PROVE FALSE
  <2> T \in SUBSET T
    OBVIOUS
  <2> QED OBVIOUS
<1>2. PICK m \in B : \A v \in B : v \subseteq m => v = m
  <2> B \in SUBSET (SUBSET T)
    OBVIOUS
  <2> HIDE DEF B
  <2> QED BY <1>1, LeastSet
<1>3. m \in SUBSET T /\ IsFiniteSet(m) /\ AmountOf(S \cup m) # AmountOf(S) + AmountOf(m)
  BY FS_Subset
<1>4. AmountOf(S) \in Int
  BY TotalInt
<1>5. m # {}
  <2>1. S \cup {} = S /\ AmountOf(S) + 0 = AmountOf(S)
    BY <1>4
  <2>2. SUFFICES ASSUME m = {} PROVE FALSE
    OBVIOUS
  <2>3. AmountOf(S \cup {}) # AmountOf(S) + AmountOf({})
    BY <1>3, <2>2, Zenon
  <2> HIDE DEF B
  <2> QED BY <2>1, <2>3, TotalNone
<1>6. PICK x \in m : TRUE
  BY <1>5
<1> DEFINE w == m \ {x}
<1>7. w \in SUBSET T /\ w \subseteq m /\ w # m /\ IsFiniteSet(w)
  BY <1>3, <1>6, FS_Subset
<1>8. AmountOf(S \cup w) = AmountOf(S) + AmountOf(w)
  BY <1>2, <1>7
<1>9. /\ x \in T /\ x \notin S \cup w /\ x.amount \in Int /\ IsFiniteSet(S \cup w)
      /\ (S \cup w) \cup {x} = S \cup m /\ w \cup {x} = m
  BY <1>3, <1>6, <1>7, FS_Union
<1>10. AmountOf((S \cup w) \cup {x}) = AmountOf(S \cup w) + x.amount
  <2>1. \A y \in S \cup w : y.amount \in Int
    BY <1>7
  <2> HIDE DEF w
  <2> QED BY <1>9, <2>1, TotalMore
<1>11. AmountOf(w \cup {x}) = AmountOf(w) + x.amount /\ AmountOf(w) \in Int
  <2>1. \A y \in w : y.amount \in Int
    BY <1>7
  <2> HIDE DEF w
  <2> QED BY <1>7, <1>9, <2>1, TotalMore, TotalInt
<1>12. AmountOf(S \cup m) = AmountOf(S \cup w) + x.amount /\ AmountOf(m) = AmountOf(w) + x.amount
  BY <1>9, <1>10, <1>11, Zenon
<1> DEFINE all == AmountOf(S \cup m)
           most == AmountOf(S \cup w)
           part == AmountOf(m)
           less == AmountOf(w)
           rest == AmountOf(S)
<1>13. /\ all = most + x.amount /\ part = less + x.amount /\ most = rest + less
       /\ all # rest + part /\ less \in Int /\ rest \in Int /\ x.amount \in Int
  BY <1>3, <1>4, <1>8, <1>9, <1>11, <1>12, Zenon
<1> HIDE DEF all, most, part, less, rest
<1> QED BY <1>13

\* One row alone.
LEMMA TotalOne == ASSUME NEW x, x.amount \in Int PROVE AmountOf({x}) = x.amount
<1>1. IsFiniteSet({}) /\ {} \cup {x} = {x}
  BY FS_EmptySet
<1>2. AmountOf({} \cup {x}) = AmountOf({}) + x.amount
  BY <1>1, TotalMore
<1> QED BY <1>1, <1>2, TotalNone

\* One part more.
LEMMA OnePartMore ==
  ASSUME NEW n \in Nat, NEW q \in Nat PROVE q * (n + 1) = q * n + q /\ q * n \in Nat
OBVIOUS

\* Rows of one amount.
LEMMA TotalEqual ==
  ASSUME NEW p \in Nat, NEW S, IsFiniteSet(S), \A x \in S : x.amount = p
  PROVE  AmountOf(S) = p * Cardinality(S)
<1> DEFINE B == {u \in SUBSET S : AmountOf(u) # p * Cardinality(u)}
<1>1. SUFFICES ASSUME B # {} PROVE FALSE
  <2> S \in SUBSET S
    OBVIOUS
  <2> QED OBVIOUS
<1>2. PICK m \in B : \A v \in B : v \subseteq m => v = m
  <2> B \in SUBSET (SUBSET S)
    OBVIOUS
  <2> HIDE DEF B
  <2> QED BY <1>1, LeastSet
<1>3. m \in SUBSET S /\ IsFiniteSet(m) /\ AmountOf(m) # p * Cardinality(m)
  BY FS_Subset
<1>4. m # {}
  BY <1>3, TotalNone, FS_EmptySet
<1>5. PICK x \in m : TRUE
  BY <1>4
<1> DEFINE w == m \ {x}
<1>6. w \in SUBSET S /\ w \subseteq m /\ w # m /\ IsFiniteSet(w) /\ x \notin w /\ w \cup {x} = m
  BY <1>3, <1>5, FS_Subset
<1>7. AmountOf(w) = p * Cardinality(w)
  BY <1>2, <1>6
<1>8. Cardinality(m) = Cardinality(w) + 1 /\ Cardinality(w) \in Nat
  BY <1>6, FS_AddElement, FS_CardinalityType
<1>9. AmountOf(m) = AmountOf(w) + p
  <2>1. \A y \in w : y.amount \in Int
    BY <1>6
  <2>2. x.amount = p
    BY <1>3, <1>5
  <2> HIDE DEF w
  <2> QED BY <1>6, <2>1, <2>2, TotalMore
<1> HIDE DEF w
<1>10. p * Cardinality(m) = p * Cardinality(w) + p
  BY <1>8, OnePartMore
<1> QED BY <1>3, <1>7, <1>9, <1>10

-----------------------------------------------------------------------------
(* Sorted lists of the members of a finite set.                            *)

\* The members of S by s from first to last in the order R.
Sorts(s, S, R) ==
  /\ s \in [1..Cardinality(S) -> S]
  /\ \A i, j \in 1..Cardinality(S) : i < j => <<s[i], s[j]>> \in R

Orders(R, S) ==
  /\ \A x, y, z \in S : <<x, y>> \in R /\ <<y, z>> \in R => <<x, z>> \in R
  /\ \A x \in S : <<x, x>> \notin R
  /\ \A x, y \in S : x = y \/ <<x, y>> \in R \/ <<y, x>> \in R

\* A finite set that is ordered has a last member.
LEMMA LastExists ==
  ASSUME NEW R, NEW S, IsFiniteSet(S), Orders(R, S), S # {}
  PROVE  \E x \in S : \A y \in S \ {x} : <<y, x>> \in R
<1> DEFINE Has(T) == \E x \in T : \A y \in T \ {x} : <<y, x>> \in R
           Bad == {T \in SUBSET S : T # {} /\ ~Has(T)}
<1>1. SUFFICES ASSUME Bad # {} PROVE FALSE
  OBVIOUS
<1>2. PICK T \in Bad : \A U \in Bad : U \subseteq T => U = T
  <2>1. Bad \in SUBSET (SUBSET S)
    OBVIOUS
  <2> HIDE DEF Bad
  <2> QED BY <1>1, <2>1, LeastSet
<1>3. PICK x \in T : TRUE
  BY <1>2
<1>4. T \ {x} \notin Bad /\ T \ {x} \in SUBSET S
  BY <1>2, <1>3
<1>5. CASE T \ {x} = {}
  BY <1>2, <1>3, <1>5
<1>6. CASE T \ {x} # {}
  <2>1. PICK y \in T \ {x} : \A z \in (T \ {x}) \ {y} : <<z, y>> \in R
    BY <1>4, <1>6
  <2>2. x \in S /\ y \in S /\ x # y /\ \A z \in T : z \in S
    BY <1>2, <1>3, <2>1
  <2>3. CASE <<x, y>> \in R
    <3>1. \A z \in T \ {y} : <<z, y>> \in R
      BY <2>1, <2>3
    <3> QED BY <1>2, <2>1, <3>1
  <2>4. CASE <<y, x>> \in R
    <3>1. \A z \in T \ {x} : <<z, x>> \in R
      BY <2>1, <2>2, <2>4 DEF Orders
    <3> QED BY <1>2, <1>3, <3>1
  <2> QED BY <2>2, <2>3, <2>4 DEF Orders
<1> QED BY <1>5, <1>6

\* ... and can be listed from first to last.
LEMMA SortedExists ==
  ASSUME NEW R, NEW S, IsFiniteSet(S), Orders(R, S)
  PROVE  \E s : Sorts(s, S, R)
<1> DEFINE Has(T) == \E s : Sorts(s, T, R)
           Bad == {T \in SUBSET S : ~Has(T)}
<1>1. SUFFICES ASSUME Bad # {} PROVE FALSE
  OBVIOUS
<1>2. PICK T \in Bad : \A U \in Bad : U \subseteq T => U = T
  <2>1. Bad \in SUBSET (SUBSET S)
    OBVIOUS
  <2> HIDE DEF Bad
  <2> QED BY <1>1, <2>1, LeastSet
<1>3. T \in SUBSET S /\ IsFiniteSet(T) /\ Orders(R, T)
  BY <1>2, FS_Subset DEF Orders
<1>4. CASE T = {}
  <2>1. Cardinality(T) = 0 /\ 1..0 = {}
    BY <1>4, FS_EmptySet
  <2>2. Sorts([i \in 1..0 |-> i], T, R)
    BY <1>4, <2>1 DEF Sorts
  <2> QED BY <1>2, <2>2
<1>5. CASE T # {}
  <2>1. PICK x \in T : \A y \in T \ {x} : <<y, x>> \in R
    BY <1>3, <1>5, LastExists
  <2> DEFINE U == T \ {x}
             n == Cardinality(U)
  <2>2. n \in Nat /\ Cardinality(T) = n + 1
    BY <1>3, <2>1, FS_RemoveElement, FS_CardinalityType, FS_Subset
  <2>3. U \in SUBSET S /\ U \notin Bad
    BY <1>2, <1>3, <2>1
  <2>4. PICK s \in [1..n -> U] : \A i, j \in 1..n : i < j => <<s[i], s[j]>> \in R
    BY <2>3 DEF Sorts
  <2> DEFINE t == [i \in 1..n + 1 |-> IF i = n + 1 THEN x ELSE s[i]]
  <2> HIDE DEF n, Bad
  <2>5. t \in [1..Cardinality(T) -> T]
    BY <2>1, <2>2, <2>4
  <2>6. \A i, j \in 1..n + 1 : i < j => <<t[i], t[j]>> \in R
    <3> SUFFICES ASSUME NEW i \in 1..n + 1, NEW j \in 1..n + 1, i < j PROVE <<t[i], t[j]>> \in R
      OBVIOUS
    <3>1. i \in 1..n /\ t[i] = s[i] /\ s[i] \in U
      BY <2>2, <2>4
    <3>2. CASE j = n + 1
      BY <2>1, <3>1, <3>2
    <3>3. CASE j # n + 1
      BY <2>2, <2>4, <3>1, <3>3
    <3> QED BY <3>2, <3>3
  <2>8. Sorts(t, T, R)
    BY <2>2, <2>5, <2>6 DEF Sorts
  <2> QED BY <1>2, <2>5, <2>8 DEF Bad
<1> QED BY <1>4, <1>5

\* A list in order names each member once, and so do two lists of the same.
LEMMA SortedApart ==
  ASSUME NEW R, NEW S, IsFiniteSet(S), Orders(R, S),
         NEW s, Sorts(s, S, R)
  PROVE  /\ Cardinality(S) \in Nat
         /\ \A x \in S : \E i \in 1..Cardinality(S) : s[i] = x
         /\ \A i, j \in 1..Cardinality(S) : s[i] = s[j] => i = j
<1> DEFINE n == Cardinality(S)
<1>1. /\ n \in Nat /\ s \in [1..n -> S]
      /\ \A i, j \in 1..n : i < j => <<s[i], s[j]>> \in R
  BY FS_CardinalityType DEF Sorts
<1>2. \A i, j \in 1..n : s[i] = s[j] => i = j
  <2> SUFFICES ASSUME NEW i \in 1..n, NEW j \in 1..n, s[i] = s[j], i # j PROVE FALSE
    OBVIOUS
  <2>1. i < j \/ j < i
    BY <1>1
  <2> QED BY <1>1, <2>1 DEF Orders
<1> DEFINE T == {s[i] : i \in 1..n}
<1>3. T \subseteq S
  BY <1>1
<1>4. Cardinality(T) = n
  <2>1. s \in Bijection(1..n, T)
    BY <1>1, <1>2 DEF Bijection, Injection, Surjection, IsInjective
  <2>2. IsFiniteSet(1..n) /\ Cardinality(1..n) = n
    BY <1>1, FS_Interval
  <2> QED BY <2>1, <2>2, FS_Bijection DEF ExistsBijection
<1>5. T = S
  BY <1>3, <1>4, FS_Subset
<1> QED BY <1>1, <1>2, <1>5

\* The first k of a list are k members, and as many come before the next one.
LEMMA SortedPart ==
  ASSUME NEW R, NEW S, IsFiniteSet(S), Orders(R, S),
         NEW s, Sorts(s, S, R), NEW k \in 0..Cardinality(S)
  PROVE  /\ Cardinality({s[j] : j \in 1..k}) = k
         /\ k < Cardinality(S) => {x \in S : <<x, s[k + 1]>> \in R} = {s[j] : j \in 1..k}
<1> DEFINE n == Cardinality(S)
           T == {s[j] : j \in 1..k}
<1>1. /\ n \in Nat
      /\ (\A x \in S : \E i \in 1..n : s[i] = x)
      /\ \A i, j \in 1..n : s[i] = s[j] => i = j
  BY SortedApart
<1>s. s \in [1..n -> S] /\ \A i, j \in 1..n : i < j => <<s[i], s[j]>> \in R
  BY DEF Sorts
<1>2. Cardinality(T) = k
  <2> DEFINE f == [j \in 1..k |-> s[j]]
  <2>1. f \in Bijection(1..k, T)
    BY <1>1 DEF Bijection, Injection, Surjection, IsInjective
  <2>2. IsFiniteSet(1..k) /\ Cardinality(1..k) = k
    BY FS_Interval
  <2> QED BY <2>1, <2>2, FS_Bijection DEF ExistsBijection
<1>3. ASSUME k < n PROVE {x \in S : <<x, s[k + 1]>> \in R} = T
  <2>0. k + 1 \in 1..n
    BY <1>1, <1>3
  <2>1. \A j \in 1..k : s[j] \in S /\ <<s[j], s[k + 1]>> \in R
    BY <1>1, <1>s, <2>0
  <2>2. ASSUME NEW x \in S, <<x, s[k + 1]>> \in R PROVE x \in T
    <3>1. PICK i \in 1..n : s[i] = x
      BY <1>1
    <3>2. ~(i >= k + 1)
      <4> SUFFICES ASSUME i >= k + 1 PROVE FALSE
        OBVIOUS
      <4>1. <<s[k + 1], x>> \in R \/ s[k + 1] = x
        BY <1>1, <1>s, <2>0, <3>1
      <4>2. <<x, x>> \in R
        BY <1>s, <2>0, <2>2, <4>1 DEF Orders
      <4> QED BY <4>2 DEF Orders
    <3> QED BY <1>1, <3>1, <3>2
  <2> QED BY <2>1, <2>2
<1> QED BY <1>2, <1>3

=============================================================================
