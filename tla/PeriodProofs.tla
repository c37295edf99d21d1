---------------------------- MODULE PeriodProofs ----------------------------
(***************************************************************************)
(* Theorems about what goes by the day.  First what members of a team      *)
(* spend: for any members, shares, caps and costs.  Then the jobs that     *)
(* send once in a day or week: for any jobs, however they are broken off.  *)
(***************************************************************************)
EXTENDS ConexusScheduler, TeamBudgets, SequenceTheorems, FiniteSetTheorems,
        WellFoundedInduction, TLAPS

(* Numbers *)

\* A number is not more times in a lesser one.
LEMMA TimesGrows ==
  ASSUME NEW p \in Nat, NEW m \in Int, NEW n \in Int, m <= n
  PROVE  p * m <= p * n
  OBVIOUS

\* The whole part of a quotient.
LEMMA DivBounds ==
  ASSUME NEW a \in Nat, NEW p \in Nat \ {0}
  PROVE  a \div p \in Nat /\ p * (a \div p) <= a /\ a < p * (a \div p) + p
  OBVIOUS

\* It grows with the dividend.
LEMMA DivGrows ==
  ASSUME NEW a \in Nat, NEW b \in Nat, a <= b, NEW p \in Nat \ {0}
  PROVE  a \div p <= b \div p
<1> DEFINE m == a \div p
           n == b \div p
<1>1. m \in Nat /\ n \in Nat /\ p * m <= a /\ b < p * n + p
  BY DivBounds
<1> HIDE DEF m, n
<1>2. SUFFICES ASSUME ~(m <= n)
               PROVE  FALSE
  BY DEF m, n
<1>3. n + 1 <= m /\ n + 1 \in Int
  BY <1>1, <1>2
<1>4. p * (n + 1) <= p * m
  BY <1>1, <1>3, TimesGrows
<1>5. p * (n + 1) = p * n + p /\ p * n \in Int /\ p * m \in Int
  BY <1>1
<1>6. QED
  BY <1>1, <1>4, <1>5

\* When the whole part of a quotient has reached a number.
LEMMA DivReaches ==
  ASSUME NEW a \in Nat, NEW d \in Nat, NEW p \in Nat \ {0}
  PROVE  a \div p >= d <=> a >= p * d
<1> DEFINE q == a \div p
<1>1. q \in Nat /\ p * q <= a /\ a < p * q + p
  BY DivBounds
<1> HIDE DEF q
<1>2. p * q \in Nat /\ p * d \in Nat /\ p * (q + 1) = p * q + p
  BY <1>1
<1>3. ASSUME q >= d
      PROVE  a >= p * d
  <2>1. p * d <= p * q
    BY <1>1, <1>3, TimesGrows
  <2>2. QED
    BY <1>1, <1>2, <2>1
<1>4. ASSUME a >= p * d, ~(q >= d)
      PROVE  FALSE
  <2>1. q + 1 <= d /\ q + 1 \in Int
    BY <1>1, <1>4
  <2>2. p * (q + 1) <= p * d
    BY <2>1, TimesGrows
  <2>3. QED
    BY <1>1, <1>2, <1>4, <2>2
<1>5. q >= d <=> a >= p * d
  BY <1>1, <1>3, <1>4
<1>6. QED
  BY <1>5 DEF q

\* What is left of a division.
LEMMA ModBounds ==
  ASSUME NEW a \in Nat, NEW p \in Nat \ {0}
  PROVE  a % p \in Nat /\ a % p <= a
<1>1. a % p \in 0..p - 1 /\ a = (p * (a \div p)) + (a % p)
  OBVIOUS
<1>2. a \div p \in Nat
  BY DivBounds
<1>3. p * (a \div p) \in Nat
  BY <1>2
<1>4. QED
  BY <1>1, <1>3

-----------------------------------------------------------------------------
(* Sums *)

\* A set of subsets of a finite set has one that contains no other of them.
LEMMA LeastSubset ==
  ASSUME NEW S, IsFiniteSet(S), NEW B, B \subseteq SUBSET S, B # {}
  PROVE  \E s \in B : \A u \in B : u \subseteq s => u = s
<1> DEFINE R == StrictSubsetOrdering(S)
<1>1. IsWellFoundedOn(R, FiniteSubsetsOf(S))
  BY FS_StrictSubsetOrderingWellFounded
<1>2. FiniteSubsetsOf(S) = SUBSET S
  BY FS_FiniteSubsetsOfFinite
<1>3. \A u \in SUBSET S, s \in SUBSET S : u \subseteq s /\ u # s => <<u, s>> \in R
  BY DEF StrictSubsetOrdering
<1> HIDE DEF R
<1>4. PICK s \in B : \A u \in B : ~(<<u, s>> \in R)
  BY <1>1, <1>2, WFMin
<1>5. QED
  BY <1>3, <1>4

\* The element that a sum takes first, and the sums over all subsets of a set.
First(s) == CHOOSE x \in s : TRUE
Sums(f, S, sum) ==
  sum = [s \in SUBSET S |-> IF s = {} THEN 0 ELSE f[First(s)] + sum[s \ {First(s)}]]
SumsOf(f, S) == CHOOSE sum : Sums(f, S, sum)

\* What MapThenSumSet stands for.
LEMMA TotalIsASum ==
  ASSUME NEW f, NEW S
  PROVE  Total(f, S) = SumsOf(f, S)[S]
BY Zenon DEF Total, MapThenSumSet, MapThenFoldSet, SumsOf, Sums, First

LEMMA FirstIsElement ==
  ASSUME NEW s, s # {}
  PROVE  First(s) \in s
BY DEF First

\* Sums of functions that agree are the same.
LEMMA SumsAgree ==
  ASSUME NEW S, IsFiniteSet(S), NEW f, NEW g, \A x \in S : f[x] = g[x],
         NEW T, S \subseteq T, NEW a, Sums(f, T, a), NEW b, Sums(g, S, b)
  PROVE  a[S] = b[S]
<1> DEFINE B == {s \in SUBSET S : a[s] # b[s]}
<1> SUFFICES ASSUME B # {}
             PROVE  FALSE
  OBVIOUS
<1>1. PICK s \in B : \A u \in B : u \subseteq s => u = s
  <2>1. B \subseteq SUBSET S
    OBVIOUS
  <2> HIDE DEF B
  <2>2. QED
    BY <2>1, LeastSubset
<1>2. s \in SUBSET S /\ s \in SUBSET T /\ a[s] # b[s]
  OBVIOUS
<1>3. a[s] = IF s = {} THEN 0 ELSE f[First(s)] + a[s \ {First(s)}]
  BY <1>2 DEF Sums
<1>4. b[s] = IF s = {} THEN 0 ELSE g[First(s)] + b[s \ {First(s)}]
  BY <1>2 DEF Sums
<1>5. s # {}
  BY <1>2, <1>3, <1>4
<1>6. First(s) \in s
  BY <1>5, FirstIsElement
<1>7. a[s \ {First(s)}] = b[s \ {First(s)}]
  BY <1>1, <1>6
<1>8. QED
  BY <1>2, <1>3, <1>4, <1>5, <1>6, <1>7

\* There are sums over the subsets of a finite set.
LEMMA SumsExist ==
  ASSUME NEW S, IsFiniteSet(S), NEW f
  PROVE  Sums(f, S, SumsOf(f, S))
<1> DEFINE B == {s \in SUBSET S : ~Sums(f, s, SumsOf(f, s))}
<1> SUFFICES ASSUME B # {}
             PROVE  FALSE
  OBVIOUS
<1>1. PICK t \in B : \A u \in B : u \subseteq t => u = t
  <2>1. B \subseteq SUBSET S
    OBVIOUS
  <2> HIDE DEF B
  <2>2. QED
    BY <2>1, LeastSubset
<1>2. t \in SUBSET S /\ ~Sums(f, t, SumsOf(f, t))
  OBVIOUS
<1>3. \A u \in SUBSET t : u # t => Sums(f, u, SumsOf(f, u))
  BY <1>1, <1>2
<1> HIDE DEF B
<1> DEFINE sum == [s \in SUBSET t |-> IF s = {} THEN 0
                                      ELSE f[First(s)] + Total(f, s \ {First(s)})]
<1>4. ASSUME NEW u \in SUBSET t, u # t
      PROVE  sum[u] = Total(f, u)
  <2>1. Sums(f, u, SumsOf(f, u))
    BY <1>3, <1>4
  <2> DEFINE rest == u \ {First(u)}
  <2>2. SumsOf(f, u)[u] = IF u = {} THEN 0 ELSE f[First(u)] + SumsOf(f, u)[rest]
    BY <2>1 DEF Sums
  <2>3. CASE u = {}
    BY <2>2, <2>3, TotalIsASum
  <2>4. CASE u # {}
    <3>1. First(u) \in u
      BY <2>4, FirstIsElement
    <3>2. rest \in SUBSET t /\ rest # t /\ rest \subseteq u
      BY <3>1
    <3>6. rest \in SUBSET S /\ IsFiniteSet(rest)
      BY <1>2, <3>2, FS_Subset
    <3>3. Sums(f, rest, SumsOf(f, rest))
      BY <1>3, <3>2
    <3> HIDE DEF rest
    <3>4. SumsOf(f, u)[rest] = SumsOf(f, rest)[rest]
      BY <2>1, <3>2, <3>3, <3>6, SumsAgree
    <3>5. SumsOf(f, u)[rest] = Total(f, rest)
      BY <3>4, TotalIsASum
    <3>7. QED
      BY <2>2, <2>4, <3>5, TotalIsASum DEF rest
  <2>5. QED
    BY <2>3, <2>4
<1>5. Sums(f, t, sum)
  <2>1. ASSUME NEW s \in SUBSET t, s # {}
        PROVE  sum[s \ {First(s)}] = Total(f, s \ {First(s)})
    <3>1. First(s) \in s
      BY <2>1, FirstIsElement
    <3>2. QED
      BY <1>4, <3>1
  <2>2. sum = [s \in SUBSET t |-> IF s = {} THEN 0 ELSE f[First(s)] + sum[s \ {First(s)}]]
    BY <2>1
  <2>3. QED
    BY <2>2 DEF Sums
<1>6. Sums(f, t, SumsOf(f, t))
  BY <1>5 DEF SumsOf
<1>7. QED
  BY <1>2, <1>6

\* A sum is made of what it takes first and the sum of the others.
LEMMA TotalUnfolds ==
  ASSUME NEW S, IsFiniteSet(S), NEW f
  PROVE  /\ S = {} => Total(f, S) = 0
         /\ S # {} => /\ First(S) \in S
                      /\ Total(f, S) = f[First(S)] + Total(f, S \ {First(S)})
<1> DEFINE rest == S \ {First(S)}
<1>1. Sums(f, S, SumsOf(f, S))
  BY SumsExist
<1>2. Total(f, S) = IF S = {} THEN 0 ELSE f[First(S)] + SumsOf(f, S)[rest]
  BY <1>1, TotalIsASum DEF Sums
<1>3. SUFFICES ASSUME S # {}
               PROVE  First(S) \in S /\ SumsOf(f, S)[rest] = Total(f, rest)
  BY <1>2
<1>4. First(S) \in S
  BY <1>3, FirstIsElement
<1>5. rest \subseteq S /\ IsFiniteSet(rest)
  BY FS_Subset
<1> HIDE DEF rest
<1>6. Sums(f, rest, SumsOf(f, rest))
  BY <1>5, SumsExist
<1>7. SumsOf(f, S)[rest] = SumsOf(f, rest)[rest]
  BY <1>1, <1>5, <1>6, SumsAgree
<1>8. QED
  BY <1>4, <1>7, TotalIsASum

\* Functions that agree on a set have the same sum over it.
LEMMA TotalSame ==
  ASSUME NEW S, IsFiniteSet(S), NEW f, NEW g, \A x \in S : f[x] = g[x]
  PROVE  Total(f, S) = Total(g, S)
<1>1. Sums(f, S, SumsOf(f, S)) /\ Sums(g, S, SumsOf(g, S))
  BY SumsExist
<1>2. SumsOf(f, S)[S] = SumsOf(g, S)[S]
  BY <1>1, SumsAgree
<1>3. QED
  BY <1>2, TotalIsASum

\* A sum of numbers is a number.
LEMMA TotalType ==
  ASSUME NEW S, IsFiniteSet(S), NEW f, \A x \in S : f[x] \in Nat
  PROVE  Total(f, S) \in Nat
<1> DEFINE B == {s \in SUBSET S : Total(f, s) \notin Nat}
<1> SUFFICES ASSUME B # {}
             PROVE  FALSE
  BY DEF B
<1>1. PICK s \in B : \A u \in B : u \subseteq s => u = s
  <2>1. B \subseteq SUBSET S
    OBVIOUS
  <2> HIDE DEF B
  <2>2. QED
    BY <2>1, LeastSubset
<1>2. s \in SUBSET S /\ IsFiniteSet(s) /\ Total(f, s) \notin Nat
  BY FS_Subset
<1>3. /\ s # {} /\ First(s) \in s
      /\ Total(f, s) = f[First(s)] + Total(f, s \ {First(s)})
  <2>1. /\ s = {} => Total(f, s) = 0
        /\ s # {} => /\ First(s) \in s
                     /\ Total(f, s) = f[First(s)] + Total(f, s \ {First(s)})
    BY <1>2, TotalUnfolds
  <2>2. QED
    BY <1>2, <2>1
<1>4. Total(f, s \ {First(s)}) \in Nat
  BY <1>1, <1>3
<1>5. f[First(s)] \in Nat
  BY <1>2, <1>3
<1>6. QED
  BY <1>2, <1>3, <1>4, <1>5

\* Any element can be taken out of a sum.
LEMMA TotalWithout ==
  ASSUME NEW S, IsFiniteSet(S), NEW f, \A x \in S : f[x] \in Nat, NEW k \in S
  PROVE  Total(f, S) = f[k] + Total(f, S \ {k})
<1> DEFINE B == {s \in SUBSET S : \E m \in s : Total(f, s) # f[m] + Total(f, s \ {m})}
<1> SUFFICES ASSUME B # {}
             PROVE  FALSE
  BY DEF B
<1>1. PICK s \in B : \A u \in B : u \subseteq s => u = s
  <2>1. B \subseteq SUBSET S
    OBVIOUS
  <2> HIDE DEF B
  <2>2. QED
    BY <2>1, LeastSubset
<1>2. PICK m \in s : Total(f, s) # f[m] + Total(f, s \ {m})
  BY <1>1
<1>3. s \in SUBSET S /\ IsFiniteSet(s) /\ s # {}
  BY <1>1, <1>2, FS_Subset
<1> DEFINE p == First(s)
           u == s \ {m}
           v == s \ {p}
           w == s \ {m, p}
<1>4. p \in s /\ Total(f, s) = f[p] + Total(f, v)
  BY <1>3, TotalUnfolds
<1>5. p # m
  BY <1>2, <1>4
<1> HIDE DEF p
<1>6. Total(f, v) = f[m] + Total(f, w)
  <2>1. v \in SUBSET S /\ m \in v /\ v # s /\ v \subseteq s /\ v \ {m} = w
    BY <1>3, <1>4, <1>5
  <2>2. v \notin B
    BY <1>1, <2>1
  <2>3. QED
    BY <2>1, <2>2
<1>7. Total(f, u) = f[p] + Total(f, w)
  <2>1. u \in SUBSET S /\ p \in u /\ u # s /\ u \subseteq s /\ u \ {p} = w
    BY <1>3, <1>4, <1>5
  <2>2. u \notin B
    BY <1>1, <2>1
  <2>3. QED
    BY <2>1, <2>2
<1>8. f[p] \in Nat /\ f[m] \in Nat /\ Total(f, w) \in Nat
  <2>1. w \in SUBSET S /\ IsFiniteSet(w)
    BY <1>3, FS_Subset
  <2>2. QED
    BY <1>3, <1>4, <2>1, TotalType
<1>9. QED
  BY <1>2, <1>4, <1>6, <1>7, <1>8

\* A sum over more is no less.
LEMMA TotalGrows ==
  ASSUME NEW S, IsFiniteSet(S), NEW f, \A x \in S : f[x] \in Nat, NEW T \in SUBSET S
  PROVE  Total(f, T) <= Total(f, S)
<1> DEFINE B == {s \in SUBSET S : T \subseteq s /\ ~(Total(f, T) <= Total(f, s))}
<1> SUFFICES ASSUME B # {}
             PROVE  FALSE
  BY DEF B
<1>1. PICK s \in B : \A u \in B : u \subseteq s => u = s
  <2>1. B \subseteq SUBSET S
    OBVIOUS
  <2> HIDE DEF B
  <2>2. QED
    BY <2>1, LeastSubset
<1>2. s \in SUBSET S /\ IsFiniteSet(s) /\ T \subseteq s /\ ~(Total(f, T) <= Total(f, s))
  BY <1>1, FS_Subset
<1>3. Total(f, T) \in Nat
  <2>1. IsFiniteSet(T)
    BY FS_Subset
  <2>2. QED
    BY <2>1, TotalType
<1>4. PICK m \in s : m \notin T
  BY <1>2, <1>3
<1> DEFINE u == s \ {m}
<1>5. u \in SUBSET S /\ T \subseteq u /\ u \subseteq s /\ u # s
  BY <1>2, <1>4
<1>6. Total(f, T) <= Total(f, u)
  BY <1>1, <1>5
<1>7. Total(f, s) = f[m] + Total(f, u)
  BY <1>2, TotalWithout
<1>8. f[m] \in Nat /\ Total(f, u) \in Nat
  <2>1. IsFiniteSet(u)
    BY <1>5, FS_Subset
  <2>2. QED
    BY <1>2, <1>5, <2>1, TotalType
<1>9. QED
  BY <1>2, <1>3, <1>6, <1>7, <1>8

\* What adds nothing can be left out of a sum.
LEMMA TotalOfZeros ==
  ASSUME NEW S, IsFiniteSet(S), NEW f, \A x \in S : f[x] \in Nat, NEW T \in SUBSET S,
         \A x \in S \ T : f[x] = 0
  PROVE  Total(f, S) = Total(f, T)
<1> DEFINE B == {s \in SUBSET S : T \subseteq s /\ Total(f, s) # Total(f, T)}
<1> SUFFICES ASSUME B # {}
             PROVE  FALSE
  BY DEF B
<1>1. PICK s \in B : \A u \in B : u \subseteq s => u = s
  <2>1. B \subseteq SUBSET S
    OBVIOUS
  <2> HIDE DEF B
  <2>2. QED
    BY <2>1, LeastSubset
<1>2. s \in SUBSET S /\ IsFiniteSet(s) /\ T \subseteq s /\ Total(f, s) # Total(f, T)
  BY <1>1, FS_Subset
<1>3. PICK m \in s : m \notin T
  BY <1>2
<1> DEFINE u == s \ {m}
<1>4. u \in SUBSET S /\ T \subseteq u /\ u \subseteq s /\ u # s
  BY <1>2, <1>3
<1>5. Total(f, u) = Total(f, T)
  BY <1>1, <1>4
<1>6. Total(f, s) = f[m] + Total(f, u) /\ f[m] = 0
  BY <1>2, <1>3, TotalWithout
<1>7. Total(f, u) \in Nat
  <2>1. IsFiniteSet(u)
    BY <1>4, FS_Subset
  <2>2. QED
    BY <1>4, <2>1, TotalType
<1>8. QED
  BY <1>2, <1>5, <1>6, <1>7

\* One more for one element is one more for the sum.
LEMMA TotalAdds ==
  ASSUME NEW S, IsFiniteSet(S), NEW f \in [S -> Nat], NEW k \in S, NEW cost \in Nat
  PROVE  Total([f EXCEPT ![k] = @ + cost], S) = Total(f, S) + cost
<1> DEFINE g == [f EXCEPT ![k] = @ + cost]
           rest == S \ {k}
<1>1. g \in [S -> Nat] /\ g[k] = f[k] + cost /\ \A x \in rest : g[x] = f[x]
  OBVIOUS
<1> HIDE DEF g
<1>2. IsFiniteSet(rest)
  BY FS_Subset
<1>3. Total(f, S) = f[k] + Total(f, rest)
  BY TotalWithout
<1>4. Total(g, S) = g[k] + Total(g, rest)
  BY <1>1, TotalWithout
<1>5. Total(g, rest) = Total(f, rest)
  BY <1>1, <1>2, TotalSame
<1>6. Total(f, rest) \in Nat /\ f[k] \in Nat
  BY <1>2, TotalType
<1>7. Total(g, S) = Total(f, S) + cost
  BY <1>1, <1>3, <1>4, <1>5, <1>6
<1>8. QED
  BY <1>7 DEF g

\* The sums over two parts of a set.
LEMMA TotalSplits ==
  ASSUME NEW S, IsFiniteSet(S), NEW f, \A x \in S : f[x] \in Nat, NEW T \in SUBSET S
  PROVE  Total(f, S) = Total(f, T) + Total(f, S \ T)
<1> DEFINE B == {s \in SUBSET S : T \subseteq s /\ Total(f, s) # Total(f, T) + Total(f, s \ T)}
<1> SUFFICES ASSUME B # {}
             PROVE  FALSE
  BY DEF B
<1>1. PICK s \in B : \A u \in B : u \subseteq s => u = s
  <2>1. B \subseteq SUBSET S
    OBVIOUS
  <2> HIDE DEF B
  <2>2. QED
    BY <2>1, LeastSubset
<1>2. /\ s \in SUBSET S /\ IsFiniteSet(s) /\ T \subseteq s /\ IsFiniteSet(T)
      /\ Total(f, s) # Total(f, T) + Total(f, s \ T)
  BY <1>1, FS_Subset
<1>3. Total(f, T) \in Nat
  BY <1>2, TotalType
<1>4. s # T
  <2>1. s \ s = {} /\ Total(f, {}) = 0
    BY FS_EmptySet, TotalUnfolds
  <2>2. QED
    BY <1>2, <1>3, <2>1
<1>5. PICK m \in s : m \notin T
  BY <1>2, <1>4
<1> DEFINE u == s \ {m}
           a == s \ T
           b == u \ T
<1>6. u \in SUBSET S /\ T \subseteq u /\ u \subseteq s /\ u # s
  BY <1>2, <1>5
<1>7. Total(f, u) = Total(f, T) + Total(f, b)
  BY <1>1, <1>6
<1>8. Total(f, s) = f[m] + Total(f, u)
  BY <1>2, TotalWithout
<1>9. Total(f, a) = f[m] + Total(f, b)
  <2>1. m \in a /\ a \ {m} = b /\ a \in SUBSET S /\ IsFiniteSet(a)
    BY <1>2, <1>5, FS_Subset
  <2>2. Total(f, a) = f[m] + Total(f, a \ {m})
    BY <2>1, TotalWithout
  <2>3. QED
    BY <2>1, <2>2
<1>10. f[m] \in Nat /\ Total(f, b) \in Nat
  <2>1. b \in SUBSET S /\ IsFiniteSet(b)
    BY <1>2, FS_Subset
  <2>2. QED
    BY <1>2, <2>1, TotalType
<1>11. QED
  BY <1>2, <1>3, <1>7, <1>8, <1>9, <1>10

\* A sum of no greater numbers is no greater.
LEMMA TotalLess ==
  ASSUME NEW S, IsFiniteSet(S), NEW f, NEW g,
         \A x \in S : f[x] \in Nat /\ g[x] \in Nat /\ f[x] <= g[x]
  PROVE  Total(f, S) <= Total(g, S)
<1> DEFINE B == {s \in SUBSET S : ~(Total(f, s) <= Total(g, s))}
<1> SUFFICES ASSUME B # {}
             PROVE  FALSE
  BY DEF B
<1>1. PICK s \in B : \A u \in B : u \subseteq s => u = s
  <2>1. B \subseteq SUBSET S
    OBVIOUS
  <2> HIDE DEF B
  <2>2. QED
    BY <2>1, LeastSubset
<1>2. s \in SUBSET S /\ IsFiniteSet(s) /\ ~(Total(f, s) <= Total(g, s))
  BY <1>1, FS_Subset
<1>3. s # {}
  <2>1. Total(f, {}) = 0 /\ Total(g, {}) = 0
    BY FS_EmptySet, TotalUnfolds
  <2>2. QED
    BY <1>2, <2>1
<1>4. PICK m \in s : TRUE
  BY <1>3
<1> DEFINE u == s \ {m}
<1>5. u \in SUBSET S /\ u \subseteq s /\ u # s /\ IsFiniteSet(u)
  BY <1>2, FS_Subset
<1>6. Total(f, u) <= Total(g, u)
  BY <1>1, <1>5
<1>7. Total(f, s) = f[m] + Total(f, u) /\ Total(g, s) = g[m] + Total(g, u)
  BY <1>2, TotalWithout
<1>8. Total(f, u) \in Nat /\ Total(g, u) \in Nat
  BY <1>5, TotalType
<1>9. f[m] \in Nat /\ g[m] \in Nat /\ f[m] <= g[m]
  BY <1>2
<1>10. QED
  BY <1>2, <1>6, <1>7, <1>8, <1>9

-----------------------------------------------------------------------------
(* What members spend *)

Verdicts == [cap : {"none", "allowed", "refused"}, due : Nat]

SpendingTypesOK ==
  /\ slot \in Slots
  /\ usage \in [Members -> [Slots -> Nat]]
  /\ message \in [Members -> Verdicts]
  /\ policy \in Policies
  /\ spent \in [Members -> Nat]

\* No row of llm_usage is stamped later than now.
NoRowsAhead == \A m \in Members, t \in Slots : t > slot => usage[m][t] = 0

BudgetsInv == SpendingTypesOK /\ NoRowsAhead /\ OverspentByOthersShares

\* The slots are numbers, finitely many.
LEMMA SlotsAreNumbers == Slots \subseteq Nat /\ IsFiniteSet(Slots)
BY BudgetAssumption, FS_Interval DEF Slots

\* Nobody is over a share when nothing was spent.
LEMMA NothingOverspent ==
  ASSUME spent = NothingSpent
  PROVE  OverspentByOthersShares
<1> DEFINE over == {m \in Members : spent[m] > Share[m]}
<1>1. over = {}
  BY BudgetAssumption DEF NothingSpent
<1>2. Total(spent, {}) = 0
  BY FS_EmptySet, TotalUnfolds
<1>3. Total(spent, over) = 0
  BY <1>1, <1>2
<1> HIDE DEF over
<1>4. Total(spent, over) <= IF policy = "borrow_from_pool" THEN Pool ELSE 0
  BY <1>3, BudgetAssumption
<1>5. QED
  BY <1>4 DEF over, OverspentByOthersShares

\* Nothing was spent.
LEMMA BudgetsInitInv ==
  ASSUME BudgetsInit
  PROVE  BudgetsInv
<1>1. SpendingTypesOK
  <2>1. slot \in Slots
    BY BudgetAssumption DEF BudgetsInit, Slots
  <2>2. message \in [Members -> Verdicts]
    BY DEF BudgetsInit, NoMessage, Verdicts
  <2>3. QED
    BY <2>1, <2>2 DEF BudgetsInit, NothingSpent, SpendingTypesOK
<1>2. NoRowsAhead
  BY DEF BudgetsInit, NoRowsAhead
<1>3. OverspentByOthersShares
  BY NothingOverspent DEF BudgetsInit
<1>4. QED
  BY <1>1, <1>2, <1>3 DEF BudgetsInv

\* What the other conjuncts are about does not change.
LEMMA RowsStay ==
  ASSUME BudgetsInv, UNCHANGED <<slot, usage, policy>>, message' \in [Members -> Verdicts],
         spent' \in [Members -> Nat], OverspentByOthersShares'
  PROVE  BudgetsInv'
BY DEF BudgetsInv, SpendingTypesOK, NoRowsAhead

\* The cascader stays.
LEMMA SpentStays ==
  ASSUME OverspentByOthersShares, UNCHANGED <<spent, policy>>
  PROVE  OverspentByOthersShares'
BY DEF OverspentByOthersShares

\* A message goes on, and the cascader is not asked.
LEMMA MessagesKeep ==
  ASSUME BudgetsInv, UNCHANGED <<slot, usage, cascader>>, message' \in [Members -> Verdicts]
  PROVE  BudgetsInv'
<1>1. spent' = spent /\ policy' = policy
  BY DEF cascader
<1>2. OverspentByOthersShares'
  BY <1>1, SpentStays DEF BudgetsInv
<1>3. spent' \in [Members -> Nat]
  BY <1>1 DEF BudgetsInv, SpendingTypesOK
<1>4. QED
  BY <1>1, <1>2, <1>3, RowsStay

\* A call is paid: its row is stamped with the time.
LEMMA PayKeeps ==
  ASSUME BudgetsInv, NEW m \in Members, NEW cost \in Costs, Pay(m, cost)
  PROVE  BudgetsInv'
<1>1. /\ usage' = [usage EXCEPT ![m][slot] = @ + cost]
      /\ message' = [message EXCEPT ![m].due = cost]
      /\ slot' = slot /\ spent' = spent /\ policy' = policy
  BY DEF Pay, cascader
<1>2. cost \in Nat /\ slot \in Slots
  BY BudgetAssumption DEF BudgetsInv, SpendingTypesOK
<1> DEFINE rows == [usage[m] EXCEPT ![slot] = @ + cost]
<1>3. usage[m] \in [Slots -> Nat]
  BY DEF BudgetsInv, SpendingTypesOK
<1>4. rows \in [Slots -> Nat] /\ \A t \in Slots : t # slot => rows[t] = usage[m][t]
  BY <1>2, <1>3
<1>5. usage' = [usage EXCEPT ![m] = rows]
  BY <1>1
<1> HIDE DEF rows
<1>6. usage' \in [Members -> [Slots -> Nat]]
  BY <1>4, <1>5 DEF BudgetsInv, SpendingTypesOK
<1>7. message' \in [Members -> Verdicts]
  <2>1. [message[m] EXCEPT !.due = cost] \in Verdicts
    BY <1>2 DEF BudgetsInv, SpendingTypesOK, Verdicts
  <2>2. QED
    BY <1>1, <2>1 DEF BudgetsInv, SpendingTypesOK
<1>8. SpendingTypesOK'
  BY <1>1, <1>6, <1>7 DEF BudgetsInv, SpendingTypesOK
<1>9. NoRowsAhead'
  <2> SUFFICES ASSUME NEW k \in Members, NEW t \in Slots, t > slot
               PROVE  usage'[k][t] = 0
    BY <1>1 DEF NoRowsAhead
  <2>1. t # slot
    BY <1>2, SlotsAreNumbers
  <2>2. usage[k][t] = 0
    BY DEF BudgetsInv, NoRowsAhead
  <2>3. CASE k = m
    BY <1>4, <1>5, <2>1, <2>2, <2>3 DEF BudgetsInv, SpendingTypesOK
  <2>4. CASE k # m
    BY <1>5, <2>2, <2>4 DEF BudgetsInv, SpendingTypesOK
  <2>5. QED
    BY <2>3, <2>4
<1>10. OverspentByOthersShares'
  BY <1>1, SpentStays DEF BudgetsInv
<1>11. QED
  BY <1>8, <1>9, <1>10 DEF BudgetsInv

\* A member spends within its share: it was not over, and who is over has spent as much.
LEMMA WithinKeeps ==
  ASSUME BudgetsInv, NEW m \in Members, NEW cost \in Nat, Within(m, cost),
         spent' = [spent EXCEPT ![m] = @ + cost], policy' = policy
  PROVE  OverspentByOthersShares'
<1> DEFINE over == {k \in Members : spent[k] > Share[k]}
           newOver == {k \in Members : spent'[k] > Share[k]}
<1>1. spent \in [Members -> Nat]
  BY DEF BudgetsInv, SpendingTypesOK
<1>2. spent[m] + cost <= Share[m] /\ Share[m] \in Nat /\ spent[m] \in Nat
  BY <1>1, BudgetAssumption DEF Within
<1>3. m \notin over /\ m \notin newOver
  BY <1>1, <1>2
<1>4. \A k \in Members : k # m => spent'[k] = spent[k]
  BY <1>1
<1>5. over = newOver
  BY <1>3, <1>4
<1>6. IsFiniteSet(over)
  BY BudgetAssumption, FS_Subset
<1>7. \A k \in over : spent[k] = spent'[k]
  BY <1>3, <1>4
<1>8. Total(spent, over) <= IF policy = "borrow_from_pool" THEN Pool ELSE 0
  BY DEF BudgetsInv, OverspentByOthersShares
<1>9. OverspentByOthersShares' <=>
        Total(spent', newOver) <= IF policy' = "borrow_from_pool" THEN Pool ELSE 0
  BY Zenon DEF OverspentByOthersShares, Total, MapThenSumSet, MapThenFoldSet
<1> HIDE DEF over, newOver
<1>10. Total(spent, over) = Total(spent', over)
  BY <1>6, <1>7, TotalSame
<1>11. QED
  BY <1>5, <1>8, <1>9, <1>10

\* A member borrows: what all have spent, and so those who are over, is within the pool.
LEMMA LendsKeeps ==
  ASSUME BudgetsInv, NEW m \in Members, NEW cost \in Nat, Lends(cost),
         spent' = [spent EXCEPT ![m] = @ + cost], policy' = policy
  PROVE  OverspentByOthersShares'
<1> DEFINE newOver == {k \in Members : spent'[k] > Share[k]}
<1>1. spent \in [Members -> Nat]
  BY DEF BudgetsInv, SpendingTypesOK
<1>2. IsFiniteSet(Members) /\ Pool \in Nat
  BY BudgetAssumption
<1>3. Total(spent', Members) = Total(spent, Members) + cost
  BY <1>1, <1>2, TotalAdds
<1>4. Total(spent, Members) \in Nat
  BY <1>1, <1>2, TotalType
<1>5. Pool - Total(spent, Members) >= cost /\ policy = "borrow_from_pool"
  BY DEF Lends, PoolRemaining
<1>6. Total(spent', Members) <= Pool
  BY <1>2, <1>3, <1>4, <1>5
<1>7. spent' \in [Members -> Nat]
  BY <1>1
<1>8. Total(spent', newOver) <= Total(spent', Members)
  <2>1. newOver \in SUBSET Members
    OBVIOUS
  <2> HIDE DEF newOver
  <2>2. QED
    BY <1>2, <1>7, <2>1, TotalGrows
<1>9. Total(spent', newOver) \in Nat /\ Total(spent', Members) \in Nat
  <2>1. IsFiniteSet(newOver)
    BY <1>2, FS_Subset
  <2>2. QED
    BY <1>2, <1>7, <2>1, TotalType
<1>10. Total(spent', newOver) <= Pool
  BY <1>2, <1>6, <1>8, <1>9
<1>11. OverspentByOthersShares' <=>
        Total(spent', newOver) <= IF policy' = "borrow_from_pool" THEN Pool ELSE 0
  BY Zenon DEF OverspentByOthersShares, Total, MapThenSumSet, MapThenFoldSet
<1> HIDE DEF newOver
<1>12. QED
  BY <1>5, <1>10, <1>11

\* The debit for a call that was paid.
LEMMA DebitKeeps ==
  ASSUME BudgetsInv, NEW m \in Members, Debit(m)
  PROVE  BudgetsInv'
<1> DEFINE cost == message[m].due
           more == [spent EXCEPT ![m] = @ + cost]
<1>1. message \in [Members -> Verdicts] /\ spent \in [Members -> Nat] /\ cost \in Nat
  BY DEF BudgetsInv, SpendingTypesOK, Verdicts
<1>2. /\ UNCHANGED <<slot, usage, policy>>
      /\ IF m \in halted THEN spent' = spent ELSE Debits(m, cost)
      /\ message' = [message EXCEPT ![m] =
           IF spent' = spent THEN NoMessage ELSE [@ EXCEPT !.due = 0]]
  BY DEF Debit
<1>3. message' \in [Members -> Verdicts]
  <2>1. NoMessage \in Verdicts /\ [message[m] EXCEPT !.due = 0] \in Verdicts
    BY <1>1 DEF NoMessage, Verdicts
  <2>2. QED
    BY <1>1, <1>2, <2>1
<1>4. \/ spent' = spent
      \/ (Within(m, cost) \/ Lends(cost)) /\ spent' = more
  BY <1>2 DEF Debits
<1>5. more \in [Members -> Nat]
  BY <1>1
<1>6. spent' \in [Members -> Nat]
  BY <1>1, <1>4, <1>5
<1>7. OverspentByOthersShares'
  <2>1. CASE spent' = spent
    BY <1>2, <2>1, SpentStays DEF BudgetsInv
  <2>2. CASE Within(m, cost) /\ spent' = more
    BY <1>1, <1>2, <2>2, WithinKeeps
  <2>3. CASE Lends(cost) /\ spent' = more
    BY <1>1, <1>2, <2>3, LendsKeeps
  <2>4. QED
    BY <1>4, <2>1, <2>2, <2>3
<1>8. QED
  BY <1>2, <1>3, <1>6, <1>7, RowsStay

\* The process is started again: nothing is spent of the pool of the new cascader.
LEMMA RestartKeeps ==
  ASSUME BudgetsInv, Restart
  PROVE  BudgetsInv'
<1>1. /\ UNCHANGED <<slot, usage, policy>> /\ spent' = NothingSpent
      /\ message' = [m \in Members |-> NoMessage]
  BY DEF Restart
<1>2. message' \in [Members -> Verdicts] /\ spent' \in [Members -> Nat]
  BY <1>1 DEF NoMessage, Verdicts, NothingSpent
<1>3. OverspentByOthersShares'
  <2> DEFINE newOver == {k \in Members : spent'[k] > Share[k]}
  <2>1. newOver = {}
    BY <1>1, BudgetAssumption DEF NothingSpent
  <2>2. OverspentByOthersShares' <=>
          Total(spent', newOver) <= IF policy' = "borrow_from_pool" THEN Pool ELSE 0
    BY Zenon DEF OverspentByOthersShares, Total, MapThenSumSet, MapThenFoldSet
  <2>3. Total(spent', {}) = 0
    BY FS_EmptySet, TotalUnfolds
  <2>4. Total(spent', newOver) = 0
    BY <2>1, <2>3
  <2> HIDE DEF newOver
  <2>5. QED
    BY <2>2, <2>4, BudgetAssumption
<1>4. QED
  BY <1>1, <1>2, <1>3, RowsStay

\* Time passes, and no row is ahead of it.
LEMMA TimePassesKeeps ==
  ASSUME BudgetsInv, TimePasses
  PROVE  BudgetsInv'
<1>1. /\ slot < MaxSlot /\ slot' = slot + 1
      /\ UNCHANGED <<usage, message, policy, spent>>
  BY DEF TimePasses, cascader
<1>2. slot \in Nat /\ slot' \in Slots
  BY <1>1, BudgetAssumption DEF BudgetsInv, SpendingTypesOK, Slots
<1>3. SpendingTypesOK'
  BY <1>1, <1>2 DEF BudgetsInv, SpendingTypesOK
<1>4. NoRowsAhead'
  <2> SUFFICES ASSUME NEW m \in Members, NEW t \in Slots, t > slot'
               PROVE  usage[m][t] = 0
    BY <1>1 DEF NoRowsAhead
  <2>1. t > slot
    BY <1>1, <1>2, SlotsAreNumbers
  <2>2. QED
    BY <2>1 DEF BudgetsInv, NoRowsAhead
<1>5. OverspentByOthersShares'
  BY <1>1, SpentStays DEF BudgetsInv
<1>6. QED
  BY <1>3, <1>4, <1>5 DEF BudgetsInv

\* A question to CapChecker, and the end of a message.
LEMMA AskKeeps ==
  ASSUME BudgetsInv, NEW m \in Members, Ask(m) \/ End(m)
  PROVE  BudgetsInv'
<1>1. UNCHANGED <<slot, usage, cascader>>
  BY DEF Ask, End
<1>2. PICK v \in Verdicts : message' = [message EXCEPT ![m] = v]
  BY DEF Ask, End, NoMessage, Verdicts
<1>3. message' \in [Members -> Verdicts]
  BY <1>2 DEF BudgetsInv, SpendingTypesOK
<1>4. QED
  BY <1>1, <1>3, MessagesKeep

\* The invariant that the theorems about spending follow from.
THEOREM BudgetsInvariant == BudgetsSpec => []BudgetsInv
<1>1. BudgetsInit => BudgetsInv
  BY BudgetsInitInv
<1>2. BudgetsInv /\ [BudgetsNext]_budgetVars => BudgetsInv'
  <2>1. ASSUME BudgetsInv, UNCHANGED budgetVars
        PROVE  BudgetsInv'
    <3>1. UNCHANGED <<slot, usage, cascader>> /\ message' = message
      BY <2>1 DEF budgetVars
    <3>2. QED
      BY <2>1, <3>1, MessagesKeep DEF BudgetsInv, SpendingTypesOK
  <2>2. QED
    BY <2>1, TimePassesKeeps, RestartKeeps, AskKeeps, DebitKeeps, PayKeeps DEF BudgetsNext
<1>3. QED
  BY <1>1, <1>2, PTL DEF BudgetsSpec

\* Members over their share have together spent no more than the pool, and there are
\* none unless the policy lends (BudgetCascader.check_and_debit).
THEOREM OverspendingBounded == BudgetsSpec => []OverspentByOthersShares
<1>1. BudgetsInv => OverspentByOthersShares
  BY DEF BudgetsInv
<1>2. QED
  BY <1>1, BudgetsInvariant, PTL

-----------------------------------------------------------------------------
(* Days *)

\* A month begins no later than its days.
LEMMA MonthsBegin ==
  ASSUME NEW day \in Nat
  PROVE  MonthStart(day) \in Nat /\ MonthStart(day) <= day
<1>1. MonthDays \in Nat \ {0}
  BY BudgetAssumption
<1>2. day % MonthDays \in Nat /\ day % MonthDays <= day
  BY <1>1, ModBounds
<1>3. QED
  BY <1>2 DEF MonthStart

\* The day of a stamp is the local day or a later one; and it is not before a day from
\* the slots on at which that day begins in UTC.
LEMMA DaysOfStamps ==
  ASSUME NEW t \in Nat
  PROVE  /\ LocalDay(t) \in Nat /\ UtcDay(t) \in Nat /\ LocalDay(t) <= UtcDay(t)
         /\ \A d \in Nat : UtcDay(t) >= d <=> d * DaySlots - Offset <= t
<1>1. DaySlots \in Nat \ {0} /\ Offset \in Nat
  BY BudgetAssumption
<1>2. t + Offset \in Nat /\ t <= t + Offset
  BY <1>1
<1>3. LocalDay(t) \in Nat /\ UtcDay(t) \in Nat /\ LocalDay(t) <= UtcDay(t)
  BY <1>1, <1>2, DivBounds, DivGrows DEF LocalDay, UtcDay
<1>4. ASSUME NEW d \in Nat
      PROVE  UtcDay(t) >= d <=> d * DaySlots - Offset <= t
  <2>1. UtcDay(t) >= d <=> t + Offset >= DaySlots * d
    BY <1>1, <1>2, DivReaches DEF UtcDay
  <2>2. DaySlots * d \in Nat /\ d * DaySlots = DaySlots * d
    BY <1>1
  <2>3. QED
    BY <1>1, <2>1, <2>2
<1>5. QED
  BY <1>3, <1>4

-----------------------------------------------------------------------------
(* Caps *)

\* What a member spent on the days from one to another has stamps from that day on.
LEMMA SpentIsStamped ==
  ASSUME BudgetsInv, NEW m \in Members, NEW first \in Nat, NEW last \in Nat
  PROVE  /\ SpentOn(m, first, last) \in Nat /\ Since(m, first) \in Nat
         /\ SpentOn(m, first, last) <= Since(m, first)
<1> DEFINE days == {t \in Slots : LocalDay(t) \in first..last}
           rows == {t \in Slots : UtcDay(t) >= first}
<1>1. \A t \in Slots : usage[m][t] \in Nat
  BY DEF BudgetsInv, SpendingTypesOK
<1>2. days \subseteq rows /\ rows \subseteq Slots
  <2>1. ASSUME NEW t \in Slots, LocalDay(t) \in first..last
        PROVE  UtcDay(t) >= first
    <3>1. LocalDay(t) \in Nat /\ UtcDay(t) \in Nat /\ LocalDay(t) <= UtcDay(t)
      BY SlotsAreNumbers, DaysOfStamps
    <3>2. QED
      BY <2>1, <3>1
  <2>2. QED
    BY <2>1
<1>3. IsFiniteSet(rows) /\ IsFiniteSet(days)
  BY <1>2, SlotsAreNumbers, FS_Subset
<1>4. SpentOn(m, first, last) = Total(usage[m], days) /\ Since(m, first) = Total(usage[m], rows)
  BY DEF SpentOn, Since
<1> HIDE DEF days, rows
<1>5. Total(usage[m], days) <= Total(usage[m], rows)
  BY <1>1, <1>2, <1>3, TotalGrows
<1>6. Total(usage[m], days) \in Nat /\ Total(usage[m], rows) \in Nat
  BY <1>1, <1>2, <1>3, TotalType
<1>7. QED
  BY <1>4, <1>5, <1>6

\* Only rows up to now count, and of those the ones whose stamp is of that day or later.
LEMMA SinceIsStamped ==
  ASSUME BudgetsInv, NEW m \in Members, NEW d \in Nat
  PROVE  Since(m, d) = Stamped(m, d)
<1> DEFINE rows == {t \in Slots : UtcDay(t) >= d}
           stamped == Slots \cap (d * DaySlots - Offset..slot)
<1>1. \A t \in Slots : usage[m][t] \in Nat
  BY DEF BudgetsInv, SpendingTypesOK
<1>2. slot \in Nat /\ d * DaySlots - Offset \in Int
  BY SlotsAreNumbers, BudgetAssumption DEF BudgetsInv, SpendingTypesOK
<1>3. \A t \in Slots : t \in stamped <=> UtcDay(t) >= d /\ t <= slot
  BY <1>2, SlotsAreNumbers, DaysOfStamps
<1>4. stamped \subseteq rows /\ rows \subseteq Slots
  BY <1>3
<1>5. \A t \in rows \ stamped : usage[m][t] = 0
  BY <1>2, <1>3, SlotsAreNumbers DEF BudgetsInv, NoRowsAhead
<1>6. IsFiniteSet(rows)
  BY <1>4, SlotsAreNumbers, FS_Subset
<1>7. Since(m, d) = Total(usage[m], rows) /\ Stamped(m, d) = Total(usage[m], stamped)
  BY DEF Since, Stamped
<1> HIDE DEF rows, stamped
<1>8. Total(usage[m], rows) = Total(usage[m], stamped)
  BY <1>1, <1>4, <1>5, <1>6, TotalOfZeros
<1>9. QED
  BY <1>7, <1>8

\* The verdict on a message is that of CapChecker.
LEMMA VerdictIsOfTheCap ==
  ASSUME BudgetsInv, BudgetsNext, NEW m \in Members,
         message'[m].cap # message[m].cap, message'[m].cap # "none"
  PROVE  Ask(m)
<1>1. message \in [Members -> Verdicts]
  BY DEF BudgetsInv, SpendingTypesOK
<1>2. CASE TimePasses
  BY <1>2 DEF TimePasses
<1>3. CASE Restart
  BY <1>3 DEF Restart, NoMessage
<1>4. ASSUME NEW k \in Members, Ask(k)
      PROVE  k = m
  BY <1>1, <1>4 DEF Ask
<1>5. ASSUME NEW k \in Members, End(k)
      PROVE  FALSE
  BY <1>1, <1>5 DEF End, NoMessage
<1>6. ASSUME NEW k \in Members, NEW cost \in Costs, Pay(k, cost)
      PROVE  FALSE
  <2>1. message' = [message EXCEPT ![k].due = cost]
    BY <1>6 DEF Pay
  <2>2. message'[m].cap = message[m].cap
    BY <1>1, <2>1 DEF Verdicts
  <2>3. QED
    BY <2>2
<1>7. ASSUME NEW k \in Members, Debit(k)
      PROVE  FALSE
  <2>1. message' = [message EXCEPT ![k] =
           IF spent' = spent THEN NoMessage ELSE [@ EXCEPT !.due = 0]]
    BY <1>7 DEF Debit
  <2>2. message'[m] \in {message[m], NoMessage, [message[m] EXCEPT !.due = 0]}
    BY <1>1, <2>1
  <2>3. [message[m] EXCEPT !.due = 0].cap = message[m].cap /\ NoMessage.cap = "none"
    BY <1>1 DEF Verdicts, NoMessage
  <2>4. QED
    BY <2>2, <2>3
<1>8. QED
  BY <1>2, <1>3, <1>4, <1>5, <1>6, <1>7 DEF BudgetsNext

\* What CapChecker finds is what the days in local time, or their stamps, come to.
LEMMA VerdictHolds ==
  ASSUME BudgetsInv, NEW m \in Members \ Notified, BudgetsNext
  PROVE  CapHolds(m)
<1> DEFINE today == LocalDay(slot)
           month == MonthStart(today)
<1>1. today \in Nat /\ month \in Nat
  BY SlotsAreNumbers, DaysOfStamps, MonthsBegin DEF BudgetsInv, SpendingTypesOK
<1> HIDE DEF today, month
<1>2. Crossed(m) <=> Since(m, today) >= DailyCap \/ Since(m, month) >= MonthlyCap
  BY DEF Crossed, today, month
<1>3. DailyCap \in Nat /\ MonthlyCap \in Nat
  BY BudgetAssumption
<1>4. ASSUME message'[m].cap # message[m].cap, message'[m].cap \in {"allowed", "refused"}
      PROVE  message'[m].cap = IF Crossed(m) THEN "refused" ELSE "allowed"
  <2>1. Ask(m)
    BY <1>4, VerdictIsOfTheCap
  <2>2. message \in [Members -> Verdicts]
    BY DEF BudgetsInv, SpendingTypesOK
  <2>3. QED
    BY <2>1, <2>2 DEF Ask
<1>5. ASSUME message[m].cap # "allowed", message'[m].cap = "allowed"
      PROVE  SpentOn(m, today, today) < DailyCap /\ SpentOn(m, month, today) < MonthlyCap
  <2>1. ~Crossed(m)
    BY <1>4, <1>5
  <2>2. /\ SpentOn(m, today, today) \in Nat /\ Since(m, today) \in Nat
        /\ SpentOn(m, today, today) <= Since(m, today)
    BY <1>1, SpentIsStamped
  <2>3. /\ SpentOn(m, month, today) \in Nat /\ Since(m, month) \in Nat
        /\ SpentOn(m, month, today) <= Since(m, month)
    BY <1>1, SpentIsStamped
  <2>4. QED
    BY <1>2, <1>3, <2>1, <2>2, <2>3
<1>6. ASSUME message[m].cap # "refused", message'[m].cap = "refused"
      PROVE  \/ Stamped(m, today) >= DailyCap
             \/ Stamped(m, month) >= MonthlyCap
  <2>1. Crossed(m)
    BY <1>4, <1>6
  <2>2. /\ Since(m, today) = Stamped(m, today)
        /\ Since(m, month) = Stamped(m, month)
    BY <1>1, SinceIsStamped
  <2>3. QED
    BY <1>2, <2>1, <2>2
<1>7. QED
  BY <1>5, <1>6 DEF CapHolds, today, month

\* Where UTC is ahead of local time, by up to a day: a member that is halted at its cap
\* begins no message once it has spent the cap in local time, and is refused none for
\* less than what the stamps of the day, or of the month, come to (CapChecker.check).
THEOREM CapsHold == BudgetsSpec => CapsHoldInLocalTime
<1>1. BudgetsInv /\ BudgetsNext => \A m \in Members \ Notified : CapHolds(m)
  BY VerdictHolds
<1>2. QED
  BY <1>1, BudgetsInvariant, PTL DEF BudgetsSpec, CapsHoldInLocalTime

-----------------------------------------------------------------------------
(* What the team spends *)

\* What is debited of a pool: all of it, and one per cent, that TeamLoader lets the
\* shares add up to; and when the pool lends, as much again.
SpentWithinTwicePool ==
  100 * Total(spent, Members) <= (IF policy = "borrow_from_pool" THEN 201 ELSE 101) * Pool

\* However members borrow what others have left, the team spends at most twice its pool
\* and one per cent (BudgetCascader.check_and_debit, with the shares of TeamLoader).
THEOREM TeamSpendsAtMostTwice == BudgetsSpec => []SpentWithinTwicePool
<1>1. BudgetsInv => SpentWithinTwicePool
  <2> SUFFICES ASSUME BudgetsInv
               PROVE  SpentWithinTwicePool
    OBVIOUS
  <2> DEFINE over == {m \in Members : spent[m] > Share[m]}
             others == Members \ over
             lent == IF policy = "borrow_from_pool" THEN Pool ELSE 0
  <2>1. /\ IsFiniteSet(Members) /\ Pool \in Nat /\ Share \in [Members -> Nat]
        /\ 100 * (Total(Share, Members) - Pool) \in -Pool..Pool
    BY BudgetAssumption
  <2>2. spent \in [Members -> Nat]
    BY DEF BudgetsInv, SpendingTypesOK
  <2>3. Total(spent, over) <= lent
    BY DEF BudgetsInv, OverspentByOthersShares
  <2>4. \A m \in others : spent[m] <= Share[m]
    BY <2>1, <2>2
  <2>5. over \in SUBSET Members /\ others \in SUBSET Members
    OBVIOUS
  <2>6. IsFiniteSet(over) /\ IsFiniteSet(others)
    BY <2>1, <2>5, FS_Subset
  <2>7. lent \in Nat /\ lent = IF policy = "borrow_from_pool" THEN Pool ELSE 0
    BY <2>1
  <2>8. Total(spent, Members) = Total(spent, over) + Total(spent, others)
    BY <2>1, <2>2, <2>5, TotalSplits
  <2> HIDE DEF over, others, lent
  <2>9. Total(spent, others) <= Total(Share, others)
    BY <2>1, <2>2, <2>4, <2>5, <2>6, TotalLess
  <2>10. Total(Share, others) <= Total(Share, Members)
    BY <2>1, <2>5, TotalGrows
  <2>11. /\ Total(spent, over) \in Nat /\ Total(spent, others) \in Nat
         /\ Total(Share, others) \in Nat /\ Total(Share, Members) \in Nat
    BY <2>1, <2>2, <2>5, <2>6, TotalType
  <2>12. Total(spent, Members) <= lent + Total(Share, Members)
    BY <2>3, <2>7, <2>8, <2>9, <2>10, <2>11
  <2>13. 100 * Total(Share, Members) <= 101 * Pool
    BY <2>1, <2>11
  <2>14. 100 * Total(spent, Members) <= 100 * lent + 101 * Pool
    BY <2>1, <2>7, <2>8, <2>11, <2>12, <2>13
  <2>15. QED
    BY <2>1, <2>7, <2>14 DEF SpentWithinTwicePool
<1>2. QED
  BY <1>1, BudgetsInvariant, PTL

-----------------------------------------------------------------------------
(* Jobs: the process and what it runs *)

USE SchedulerAssumption

RunState == [pc : {"none", "check", "work", "mark"}, ref : Nat]

TypesOK ==
  /\ now \in Nat
  /\ process \in {"up", "shut", "down"}
  /\ catchup \in [at : 0..Len(Jobs) + 1, now : Nat]
  /\ run \in [Runs -> RunState]

\* The periods that a run of catchup may go by: the one in which catchup began, or one
\* that began since.
Periods(j) == RefAt(j, catchup.now)..RefAt(j, now)

\* Catchup began in the past, and awaits the job that it is at; nothing runs in a
\* process that is down.
LoopInv ==
  /\ catchup.now <= now
  /\ process = "down" => catchup.at = 0 /\ \A r \in Runs : At(r, "none")
  /\ \A j \in Specs :
       ~At(<<j, "catchup">>, "none") =>
         catchup.at = j /\ run[<<j, "catchup">>].ref \in Periods(j)

\* A row that says sent, or is about to, has its message.
SentInv ==
  /\ sent \subseteq delivered
  /\ \A r \in Runs : At(r, "mark") => RowOf(r) \in delivered

\* The jobs that catchup is through with.
CaughtUp(j) ==
  Missed(j, catchup.now) => \E ref \in Periods(j) : <<j, ref>> \in delivered
PassedInv == \A j \in Specs : j < catchup.at => CaughtUp(j)

\* What was delivered is in ping_log as sent, or its run is about to say so, or broke off.
DeliveredIsRecorded ==
  \A row \in delivered :
    row \in sent \cup cut \/ \E r \in Runs : At(r, "mark") /\ RowOf(r) = row

\* Runs that are at a message together have met, and one that works at a message that was
\* delivered has met another or comes after one that broke off.
Busy(r) == At(r, "work") \/ At(r, "mark")
MetInv == \A r, q \in Runs : r # q /\ RowOf(r) = RowOf(q) /\ Busy(r) /\ Busy(q) => RowOf(r) \in met
RepeatInv == \A r \in Runs : At(r, "work") /\ RowOf(r) \in delivered => RowOf(r) \in met \cup cut
HistoryInv == MetInv /\ RepeatInv /\ RepeatsExplained

IInv == TypesOK /\ DeliveredIsRecorded /\ LoopInv /\ SentInv /\ PassedInv

-----------------------------------------------------------------------------
(* Periods *)

\* The jobs are numbered from one on.
LEMMA SpecsAreNumbers == Len(Jobs) \in Nat /\ Specs = 1..Len(Jobs)
  BY LenProperties DEF Specs

\* The number of a day or week never goes down.
LEMMA RefAtGrows ==
  ASSUME NEW j \in Specs, NEW a \in Nat, NEW b \in Nat, a <= b
  PROVE  RefAt(j, a) \in Nat /\ RefAt(j, b) \in Nat /\ RefAt(j, a) <= RefAt(j, b)
<1>1. Jobs[j].period \in Nat \ {0}
  <2>1. Jobs[j] \in [period : Nat \ {0}, tick : Nat, catchable : BOOLEAN, end : 0..Day]
    BY ElementOfSeq, SpecsAreNumbers
  <2>2. QED
    BY <2>1
<1>2. QED
  BY <1>1, DivBounds, DivGrows DEF RefAt

-----------------------------------------------------------------------------
(* Runs *)

\* A run that gets a record, and the others.
LEMMA OneRun ==
  ASSUME run \in [Runs -> RunState], NEW r \in Runs, NEW s \in RunState,
         run' = [run EXCEPT ![r] = s]
  PROVE  /\ run' \in [Runs -> RunState] /\ run'[r] = s
         /\ \A q \in Runs : q # r => run'[q] = run[q]
  OBVIOUS

\* A run that goes on to another place, for the period that it has.
LEMMA RunGoes ==
  ASSUME run \in [Runs -> RunState], NEW r \in Runs, NEW pc \in {"work", "mark"}, Goes(r, pc)
  PROVE  /\ run' \in [Runs -> RunState] /\ run'[r].pc = pc /\ run'[r].ref = run[r].ref
         /\ \A q \in Runs : q # r => run'[q] = run[q]
<1> DEFINE s == [run[r] EXCEPT !.pc = pc]
<1>1. s \in RunState /\ s.pc = pc /\ s.ref = run[r].ref
  BY DEF RunState
<1>2. run' = [run EXCEPT ![r] = s]
  BY DEF Goes
<1> HIDE DEF s
<1>3. QED
  BY <1>1, <1>2, OneRun

\* The runs of catchup and of cron are runs, and no two jobs or kinds have the same.
LEMMA RunsOfJobs ==
  /\ \A j \in Specs : <<j, "catchup">> \in Runs /\ <<j, "cron">> \in Runs
  /\ \A r \in Runs : r[1] \in Specs /\ r[2] \in {"cron", "catchup"} /\ r = <<r[1], r[2]>>
  BY DEF Runs

\* Messages stay recorded while no run that is about to record its message is lost.
LEMMA RecordedStays ==
  ASSUME DeliveredIsRecorded, sent \subseteq sent', cut \subseteq cut',
         \A r \in Runs : At(r, "mark") => \/ At(r, "mark")' /\ RowOf(r)' = RowOf(r)
                                          \/ RowOf(r) \in sent' \cup cut',
         \A row \in delivered' \ delivered : \E r \in Runs : At(r, "mark")' /\ RowOf(r)' = row
  PROVE  DeliveredIsRecorded'
<1> SUFFICES ASSUME NEW row \in delivered'
             PROVE  row \in sent' \cup cut' \/ \E r \in Runs : At(r, "mark")' /\ RowOf(r)' = row
  BY DEF DeliveredIsRecorded
<1>1. CASE row \in delivered
  BY <1>1 DEF DeliveredIsRecorded
<1>2. CASE row \notin delivered
  BY <1>2
<1>3. QED
  BY <1>1, <1>2

\* A job that catchup is through with stays so while time goes by and messages are sent.
LEMMA CaughtUpStays ==
  ASSUME TypesOK, LoopInv, NEW j \in Specs, CaughtUp(j),
         catchup'.now = catchup.now, now' \in Nat, now <= now',
         sent \subseteq sent', delivered \subseteq delivered'
  PROVE  CaughtUp(j)'
<1>1. RefAt(j, catchup.now)' = RefAt(j, catchup.now)
  BY DEF RefAt
<1>2. RefAt(j, now) \in Nat /\ RefAt(j, now') \in Nat /\ RefAt(j, now) <= RefAt(j, now')
  BY RefAtGrows DEF TypesOK
<1>3. RefAt(j, catchup.now) \in Nat
  BY RefAtGrows DEF TypesOK, LoopInv
<1>4. Periods(j) \subseteq Periods(j)'
  BY <1>1, <1>2, <1>3 DEF Periods, RefAt
<1>5. Missed(j, catchup.now)' => Missed(j, catchup.now)
  BY <1>1 DEF Missed, WasSent
<1>6. QED
  BY <1>4, <1>5 DEF CaughtUp

-----------------------------------------------------------------------------
(* The process *)

\* Nothing was sent and nothing runs.
LEMMA InitInv ==
  ASSUME Init
  PROVE  IInv
<1>1. /\ NotRunning \in RunState /\ NotRunning.pc = "none"
      /\ NoCatchup \in [at : 0..Len(Jobs) + 1, now : Nat] /\ NoCatchup.at = 0
      /\ NoCatchup.now = 0
  BY SpecsAreNumbers DEF NotRunning, RunState, NoCatchup
<1>2. \A r \in Runs : run[r] = NotRunning
  BY DEF Init
<1>3. TypesOK
  <2>1. run \in [Runs -> RunState]
    BY <1>1 DEF Init
  <2>2. QED
    BY <1>1, <2>1 DEF Init, TypesOK
<1>4. DeliveredIsRecorded /\ SentInv
  BY <1>1, <1>2 DEF Init, DeliveredIsRecorded, SentInv, At
<1>5. LoopInv
  <2>1. catchup = NoCatchup /\ now = 0
    BY DEF Init
  <2>2. \A r \in Runs : At(r, "none")
    BY <1>1, <1>2 DEF At
  <2>3. \A j \in Specs : At(<<j, "catchup">>, "none")
    BY <2>2, RunsOfJobs
  <2>4. QED
    BY <1>1, <2>1, <2>2, <2>3 DEF LoopInv
<1>6. PassedInv
  BY <1>1, SpecsAreNumbers DEF Init, PassedInv
<1>7. QED
  BY <1>3, <1>4, <1>5, <1>6 DEF IInv

\* The process starts, and catchup with its first job.
LEMMA BootKeeps ==
  ASSUME IInv, Boot
  PROVE  IInv'
<1>1. /\ process = "down" /\ process' = "up" /\ catchup' = [at |-> 1, now |-> now]
      /\ UNCHANGED <<now, run, sent, delivered, cut>>
  BY DEF Boot, ping, history
<1>2. \A r \in Runs : At(r, "none")'
  BY <1>1 DEF IInv, LoopInv, At
<1>3. TypesOK'
  BY <1>1, SpecsAreNumbers DEF IInv, TypesOK
<1>4. DeliveredIsRecorded' /\ SentInv'
  BY <1>1 DEF IInv, DeliveredIsRecorded, SentInv, At, RowOf
<1>5. LoopInv'
  <2>1. \A j \in Specs : At(<<j, "catchup">>, "none")'
    BY <1>2, RunsOfJobs
  <2>2. catchup'.now = now /\ now' = now /\ now \in Nat
    BY <1>1 DEF IInv, TypesOK
  <2>3. catchup'.now <= now'
    BY <2>2
  <2>4. QED
    BY <1>1, <2>1, <2>3 DEF LoopInv
<1>6. PassedInv'
  BY <1>1, SpecsAreNumbers DEF PassedInv
<1>7. QED
  BY <1>3, <1>4, <1>5, <1>6 DEF IInv

\* Runs that end here and now: what they were about to record is cut.
LEMMA StopRuns ==
  ASSUME IInv, NEW runs \in SUBSET Runs, Stop(runs), UNCHANGED <<sent, delivered>>
  PROVE  /\ run' \in [Runs -> RunState]
         /\ \A r \in runs : At(r, "none")'
         /\ \A r \in Runs : r \notin runs => run'[r] = run[r]
         /\ DeliveredIsRecorded' /\ SentInv'
<1>1. NotRunning \in RunState /\ NotRunning.pc = "none"
  BY DEF NotRunning, RunState
<1>2. /\ run' = [r \in Runs |-> IF r \in runs THEN NotRunning ELSE run[r]]
      /\ cut' = cut \cup {RowOf(r) : r \in {q \in runs : At(q, "mark")}}
  BY DEF Stop
<1>3. /\ run' \in [Runs -> RunState]
      /\ \A r \in runs : At(r, "none")' /\ ~At(r, "mark")'
      /\ \A r \in Runs : r \notin runs => run'[r] = run[r]
  BY <1>1, <1>2 DEF IInv, TypesOK, At
<1>4. \A r \in Runs : /\ At(r, "mark")' => At(r, "mark") /\ RowOf(r)' = RowOf(r)
                      /\ At(r, "mark") => \/ At(r, "mark")' /\ RowOf(r)' = RowOf(r)
                                          \/ RowOf(r) \in sent' \cup cut'
  BY <1>2, <1>3 DEF At, RowOf
<1>5. cut \subseteq cut'
  BY <1>2
<1>6. DeliveredIsRecorded'
  BY <1>4, <1>5, RecordedStays DEF IInv
<1>7. SentInv'
  BY <1>4 DEF IInv, SentInv
<1>8. QED
  BY <1>3, <1>6, <1>7

\* The scheduler is shut down: catchup and what it runs go on.
LEMMA ShutdownKeeps ==
  ASSUME IInv, Shutdown
  PROVE  IInv'
<1> DEFINE runs == Specs \X {"cron"}
<1>1. /\ process = "up" /\ process' = "shut" /\ Stop(runs) /\ runs \in SUBSET Runs
      /\ UNCHANGED <<now, catchup, sent, delivered>>
  BY DEF Shutdown, ping, Runs
<1>2. /\ run' \in [Runs -> RunState]
      /\ \A j \in Specs : run'[<<j, "catchup">>] = run[<<j, "catchup">>]
      /\ DeliveredIsRecorded' /\ SentInv'
  <2>1. \A j \in Specs : <<j, "catchup">> \in Runs /\ <<j, "catchup">> \notin runs
    BY RunsOfJobs
  <2> HIDE DEF runs
  <2>2. QED
    BY <1>1, <2>1, StopRuns
<1>3. TypesOK'
  BY <1>1, <1>2 DEF IInv, TypesOK
<1>4. LoopInv'
  <2>1. ASSUME NEW j \in Specs, ~At(<<j, "catchup">>, "none")'
        PROVE  catchup'.at = j /\ run'[<<j, "catchup">>].ref \in Periods(j)'
    <3>1. ~At(<<j, "catchup">>, "none")
      BY <1>2, <2>1 DEF At
    <3>2. QED
      BY <1>1, <1>2, <3>1 DEF IInv, LoopInv, Periods, RefAt
  <2>2. QED
    BY <1>1, <2>1 DEF IInv, LoopInv
<1>5. PassedInv'
  <2>1. now' \in Nat /\ now <= now' /\ sent \subseteq sent' /\ delivered \subseteq delivered'
    BY <1>1 DEF IInv, TypesOK
  <2>2. QED
    BY <1>1, <2>1, CaughtUpStays DEF IInv, PassedInv
<1>6. QED
  BY <1>2, <1>3, <1>4, <1>5 DEF IInv

\* The process dies.
LEMMA CrashKeeps ==
  ASSUME IInv, Crash
  PROVE  IInv'
<1>1. /\ process' = "down" /\ catchup' = NoCatchup /\ Stop(Runs)
      /\ UNCHANGED <<now, sent, delivered>>
  BY DEF Crash, ping
<1>2. /\ NoCatchup \in [at : 0..Len(Jobs) + 1, now : Nat] /\ NoCatchup.at = 0
      /\ NoCatchup.now = 0
  BY SpecsAreNumbers DEF NoCatchup
<1>3. /\ run' \in [Runs -> RunState] /\ \A r \in Runs : At(r, "none")'
      /\ DeliveredIsRecorded' /\ SentInv'
  BY <1>1, StopRuns
<1>4. TypesOK'
  BY <1>1, <1>2, <1>3 DEF IInv, TypesOK
<1>5. LoopInv'
  <2>1. \A j \in Specs : At(<<j, "catchup">>, "none")'
    BY <1>3, RunsOfJobs
  <2>2. catchup'.now <= now'
    BY <1>1, <1>2 DEF IInv, TypesOK
  <2>3. QED
    BY <1>1, <1>2, <1>3, <2>1, <2>2 DEF LoopInv
<1>6. PassedInv'
  BY <1>1, <1>2, SpecsAreNumbers DEF PassedInv
<1>7. QED
  BY <1>3, <1>4, <1>5, <1>6 DEF IInv

\* An hour passes, and cron starts runs of jobs that it does not run.
LEMMA HourKeeps ==
  ASSUME IInv, HourPasses
  PROVE  IInv'
<1>1. /\ now \in Nat /\ now' = now + 1 /\ now' \in Nat /\ now <= now'
      /\ UNCHANGED <<process, catchup, sent, delivered, cut>>
  BY DEF HourPasses, ping, history, IInv, TypesOK
<1>2. PICK fired \in SUBSET {j \in Specs : Due(j, now')} :
        run' = [r \in Runs |-> IF r[2] = "cron" /\ r[1] \in fired
                               THEN [pc |-> "check", ref |-> RefAt(r[1], now')] ELSE run[r]]
  BY DEF HourPasses
<1>3. ASSUME NEW r \in Runs
      PROVE  /\ run'[r] \in RunState
             /\ \/ run'[r] = run[r]
                \/ process # "down" /\ r[2] = "cron" /\ At(r, "none") /\ run'[r].pc = "check"
  <2>1. CASE r[2] = "cron" /\ r[1] \in fired
    <3>1. r = <<r[1], "cron">> /\ r[1] \in Specs
      BY <2>1, RunsOfJobs
    <3>2. RefAt(r[1], now') \in Nat
      BY <1>1, <3>1, RefAtGrows
    <3>3. run'[r] = [pc |-> "check", ref |-> RefAt(r[1], now')]
      BY <1>2, <2>1
    <3>4. process # "down" /\ At(r, "none")
      BY <2>1, <3>1 DEF Due
    <3>5. run'[r] \in RunState /\ run'[r].pc = "check"
      BY <3>2, <3>3 DEF RunState
    <3>6. QED
      BY <2>1, <3>4, <3>5
  <2>2. CASE ~(r[2] = "cron" /\ r[1] \in fired)
    BY <1>2, <2>2 DEF IInv, TypesOK
  <2>3. QED
    BY <2>1, <2>2
<1>4. TypesOK'
  <2>1. run' \in [Runs -> RunState]
    BY <1>2, <1>3
  <2>2. QED
    BY <1>1, <2>1 DEF IInv, TypesOK
<1>5. \A r \in Runs : /\ At(r, "mark") <=> At(r, "mark")'
                      /\ At(r, "mark") => RowOf(r)' = RowOf(r)
  BY <1>3 DEF At, RowOf
<1>6. DeliveredIsRecorded'
  BY <1>1, <1>5, RecordedStays DEF IInv
<1>7. SentInv'
  BY <1>1, <1>5 DEF IInv, SentInv
<1>8. LoopInv'
  <2>1. catchup'.now <= now'
    BY <1>1 DEF IInv, TypesOK, LoopInv
  <2>2. process' = "down" => catchup'.at = 0 /\ \A r \in Runs : At(r, "none")'
    BY <1>1, <1>3 DEF IInv, LoopInv, At
  <2>3. ASSUME NEW j \in Specs, ~At(<<j, "catchup">>, "none")'
        PROVE  catchup'.at = j /\ run'[<<j, "catchup">>].ref \in Periods(j)'
    <3> DEFINE r == <<j, "catchup">>
    <3>1. r \in Runs /\ r[2] # "cron"
      BY RunsOfJobs
    <3>2. run'[r] = run[r]
      BY <1>3, <3>1
    <3>3. catchup.at = j /\ run[r].ref \in Periods(j)
      BY <2>3, <3>2 DEF IInv, LoopInv, At
    <3>4. RefAt(j, now) \in Nat /\ RefAt(j, now') \in Nat /\ RefAt(j, now) <= RefAt(j, now')
      BY <1>1, RefAtGrows
    <3>5. RefAt(j, catchup.now) \in Nat
      BY RefAtGrows DEF IInv, TypesOK, LoopInv
    <3>6. Periods(j) \subseteq Periods(j)'
      BY <1>1, <3>4, <3>5 DEF Periods, RefAt
    <3>7. QED
      BY <1>1, <3>2, <3>3, <3>6
  <2>4. QED
    BY <2>1, <2>2, <2>3 DEF LoopInv
<1>9. PassedInv'
  BY <1>1, CaughtUpStays DEF IInv, PassedInv
<1>10. QED
  BY <1>4, <1>6, <1>7, <1>8, <1>9 DEF IInv

-----------------------------------------------------------------------------
(* catchup *)

\* A job that need not run.
LEMMA SkipsKeeps ==
  ASSUME IInv, NEW j \in Specs, Skips(j)
  PROVE  IInv'
<1>1. /\ catchup.at = j /\ At(<<j, "catchup">>, "none") /\ ~Missed(j, catchup.now)
      /\ catchup' = [catchup EXCEPT !.at = j + 1]
      /\ UNCHANGED <<now, process, run, sent, delivered, cut>>
  BY DEF Skips, CatchingUp, ping, history
<1>2. /\ catchup' \in [at : 0..Len(Jobs) + 1, now : Nat]
      /\ catchup'.at = j + 1 /\ catchup'.now = catchup.now
  <2>1. j + 1 \in 0..Len(Jobs) + 1
    BY SpecsAreNumbers
  <2>2. QED
    BY <1>1, <2>1 DEF IInv, TypesOK
<1>3. TypesOK'
  BY <1>1, <1>2 DEF IInv, TypesOK
<1>4. DeliveredIsRecorded' /\ SentInv'
  BY <1>1 DEF IInv, DeliveredIsRecorded, SentInv, At, RowOf
<1>5. \A k \in Specs : At(<<k, "catchup">>, "none")
  BY <1>1 DEF IInv, LoopInv
<1>6. LoopInv'
  <2>1. process # "down"
    BY <1>1, SpecsAreNumbers DEF IInv, LoopInv
  <2>2. \A k \in Specs : At(<<k, "catchup">>, "none")'
    BY <1>1, <1>5 DEF At
  <2>3. QED
    BY <1>1, <1>2, <2>1, <2>2 DEF IInv, LoopInv
<1>7. PassedInv'
  <2> SUFFICES ASSUME NEW k \in Specs, k < catchup'.at
               PROVE  CaughtUp(k)'
    BY DEF PassedInv
  <2>1. k < catchup.at \/ k = j
    <3>1. k \in Int /\ j \in Int /\ k < j + 1 /\ catchup.at = j
      BY <1>1, <1>2, SpecsAreNumbers
    <3>2. QED
      BY <3>1
  <2>2. CaughtUp(k)
    BY <1>1, <2>1 DEF IInv, PassedInv, CaughtUp
  <2>3. now' \in Nat /\ now <= now' /\ sent \subseteq sent' /\ delivered \subseteq delivered'
    BY <1>1 DEF IInv, TypesOK
  <2>4. QED
    BY <1>2, <2>2, <2>3, CaughtUpStays DEF IInv
<1>8. QED
  BY <1>3, <1>4, <1>6, <1>7 DEF IInv

\* Catchup that raises between two jobs.
LEMMA CatchupFailsKeeps ==
  ASSUME IInv, NEW j \in Specs, CatchupFails(j)
  PROVE  IInv'
<1>1. /\ catchup.at = j /\ At(<<j, "catchup">>, "none") /\ catchup' = NoCatchup
      /\ UNCHANGED <<now, process, run, sent, delivered, cut>>
  BY DEF CatchupFails, CatchingUp, ping, history
<1>2. /\ NoCatchup \in [at : 0..Len(Jobs) + 1, now : Nat] /\ NoCatchup.at = 0
      /\ NoCatchup.now = 0
  BY SpecsAreNumbers DEF NoCatchup
<1>3. TypesOK'
  BY <1>1, <1>2 DEF IInv, TypesOK
<1>4. DeliveredIsRecorded' /\ SentInv'
  BY <1>1 DEF IInv, DeliveredIsRecorded, SentInv, At, RowOf
<1>5. LoopInv'
  <2>1. \A k \in Specs : At(<<k, "catchup">>, "none")'
    BY <1>1 DEF IInv, LoopInv, At
  <2>2. process # "down"
    BY <1>1, SpecsAreNumbers DEF IInv, LoopInv
  <2>3. catchup'.now <= now'
    BY <1>1, <1>2 DEF IInv, TypesOK
  <2>4. QED
    BY <1>1, <2>1, <2>2, <2>3 DEF LoopInv
<1>6. PassedInv'
  BY <1>1, <1>2, SpecsAreNumbers DEF PassedInv
<1>7. QED
  BY <1>3, <1>4, <1>5, <1>6 DEF IInv

\* A job that catchup runs, for the period of the time that the job reads.
LEMMA CatchesKeeps ==
  ASSUME IInv, NEW j \in Specs, Catches(j)
  PROVE  IInv'
<1> DEFINE r == <<j, "catchup">>
           s == [pc |-> "check", ref |-> RefAt(j, now)]
<1>1. /\ catchup.at = j /\ At(r, "none") /\ run' = [run EXCEPT ![r] = s]
      /\ UNCHANGED <<now, process, catchup, sent, delivered, cut>>
  BY DEF Catches, CatchingUp, ping, history
<1>2. /\ RefAt(j, catchup.now) \in Nat /\ RefAt(j, now) \in Nat
      /\ RefAt(j, catchup.now) <= RefAt(j, now)
  BY RefAtGrows DEF IInv, TypesOK, LoopInv
<1>3. s \in RunState /\ s.pc = "check" /\ s.ref \in Periods(j)
  BY <1>2 DEF RunState, Periods
<1> HIDE DEF s
<1>4. r \in Runs
  BY RunsOfJobs
<1>5. /\ run' \in [Runs -> RunState] /\ run'[r] = s
      /\ \A q \in Runs : q # r => run'[q] = run[q]
  BY <1>1, <1>3, <1>4, OneRun DEF IInv, TypesOK
<1>6. TypesOK'
  BY <1>1, <1>5 DEF IInv, TypesOK
<1>7. \A q \in Runs : /\ At(q, "mark") <=> At(q, "mark")'
                      /\ At(q, "mark") => RowOf(q)' = RowOf(q)
  BY <1>1, <1>3, <1>5 DEF At, RowOf
<1>8. DeliveredIsRecorded'
  BY <1>1, <1>7, RecordedStays DEF IInv
<1>9. SentInv'
  BY <1>1, <1>7 DEF IInv, SentInv
<1>10. LoopInv'
  <2>1. process # "down"
    BY <1>1, SpecsAreNumbers DEF IInv, LoopInv
  <2>2. ASSUME NEW k \in Specs, ~At(<<k, "catchup">>, "none")'
        PROVE  catchup'.at = k /\ run'[<<k, "catchup">>].ref \in Periods(k)'
    <3>1. CASE k = j
      BY <1>1, <1>3, <1>5, <3>1 DEF Periods, RefAt
    <3>2. CASE k # j
      <4>1. run'[<<k, "catchup">>] = run[<<k, "catchup">>]
        BY <1>5, <3>2, RunsOfJobs
      <4>2. QED
        BY <1>1, <2>2, <4>1 DEF IInv, LoopInv, At, Periods, RefAt
    <3>3. QED
      BY <3>1, <3>2
  <2>3. QED
    BY <1>1, <2>1, <2>2 DEF IInv, LoopInv
<1>11. PassedInv'
  <2>1. now' \in Nat /\ now <= now' /\ sent \subseteq sent' /\ delivered \subseteq delivered'
    BY <1>1 DEF IInv, TypesOK
  <2>2. QED
    BY <1>1, <2>1, CaughtUpStays DEF IInv, PassedInv
<1>12. QED
  BY <1>6, <1>8, <1>9, <1>10, <1>11 DEF IInv

-----------------------------------------------------------------------------
(* A run of a job *)

\* A run of catchup that has not returned is of the job that catchup is at.
LEMMA RunOfCatchup ==
  ASSUME IInv, NEW r \in Runs, r[2] # "cron", ~At(r, "none")
  PROVE  /\ r = <<r[1], "catchup">> /\ r[1] \in Specs /\ catchup.at = r[1]
         /\ run[r].ref \in Periods(r[1])
<1>1. r = <<r[1], "catchup">> /\ r[1] \in Specs
  BY RunsOfJobs
<1>2. QED
  BY <1>1 DEF IInv, LoopInv

\* A run that goes on by itself.
LEMMA GoesKeeps ==
  ASSUME IInv, NEW r \in Runs, ~At(r, "none"), NEW pc \in {"work", "mark"}, Goes(r, pc),
         UNCHANGED <<now, process, catchup, sent, cut>>,
         ~At(r, "mark"), delivered \subseteq delivered',
         \A row \in delivered' \ delivered : row = RowOf(r) /\ pc = "mark",
         pc = "mark" => RowOf(r) \in delivered'
  PROVE  IInv'
<1>1. /\ run' \in [Runs -> RunState] /\ run'[r].pc = pc /\ run'[r].ref = run[r].ref
      /\ \A q \in Runs : q # r => run'[q] = run[q]
  BY RunGoes DEF IInv, TypesOK
<1>2. TypesOK'
  BY <1>1 DEF IInv, TypesOK
<1>3. /\ \A q \in Runs : RowOf(q)' = RowOf(q)
      /\ \A q \in Runs : At(q, "mark") => At(q, "mark")'
      /\ \A q \in Runs : q # r /\ At(q, "mark")' => At(q, "mark")
      /\ At(r, "mark")' <=> pc = "mark"
  BY <1>1 DEF At, RowOf
<1>4. DeliveredIsRecorded'
  BY <1>3, RecordedStays DEF IInv
<1>5. SentInv'
  BY <1>3 DEF IInv, SentInv
<1>6. LoopInv'
  <2>1. process # "down"
    BY DEF IInv, LoopInv
  <2>2. ASSUME NEW k \in Specs, ~At(<<k, "catchup">>, "none")'
        PROVE  catchup'.at = k /\ run'[<<k, "catchup">>].ref \in Periods(k)'
    <3>1. <<k, "catchup">> \in Runs
      BY RunsOfJobs
    <3>2. ~At(<<k, "catchup">>, "none") /\ run'[<<k, "catchup">>].ref = run[<<k, "catchup">>].ref
      BY <1>1, <2>2, <3>1 DEF At
    <3>3. QED
      BY <3>2 DEF IInv, LoopInv, Periods, RefAt
  <2>3. QED
    BY <2>1, <2>2 DEF IInv, LoopInv
<1>7. PassedInv'
  <2>1. now' \in Nat /\ now <= now' /\ sent \subseteq sent'
    BY DEF IInv, TypesOK
  <2>2. QED
    BY <2>1, CaughtUpStays DEF IInv, PassedInv
<1>8. QED
  BY <1>2, <1>4, <1>5, <1>6, <1>7 DEF IInv

\* A run that returns, or raises: when it returns its message was delivered, and catchup
\* goes on.
LEMMA ReturnsKeeps ==
  ASSUME IInv, NEW r \in Runs, ~At(r, "none"), NEW ok \in BOOLEAN, Returns(r, ok),
         UNCHANGED <<now, process, delivered>>, cut \subseteq cut',
         sent \subseteq sent', sent' \subseteq sent \cup {RowOf(r)},
         ok => RowOf(r) \in delivered, At(r, "mark") => RowOf(r) \in sent' \cup cut',
         sent' # sent => ok
  PROVE  IInv'
<1>1. NotRunning \in RunState /\ NotRunning.pc = "none"
  BY DEF NotRunning, RunState
<1>2. /\ run' \in [Runs -> RunState] /\ run'[r] = NotRunning
      /\ \A q \in Runs : q # r => run'[q] = run[q]
  BY <1>1, OneRun DEF IInv, TypesOK, Returns
<1>3. /\ \A q \in Runs : At(q, "mark")' => At(q, "mark") /\ RowOf(q)' = RowOf(q)
      /\ \A q \in Runs : q # r => (At(q, "mark") => At(q, "mark")' /\ RowOf(q)' = RowOf(q))
      /\ At(r, "none")'
  BY <1>1, <1>2 DEF At, RowOf
<1>4. DeliveredIsRecorded'
  <2>1. \A q \in Runs : At(q, "mark") => \/ At(q, "mark")' /\ RowOf(q)' = RowOf(q)
                                         \/ RowOf(q) \in sent' \cup cut'
    BY <1>3
  <2>2. QED
    BY <2>1, RecordedStays DEF IInv
<1>5. SentInv'
  BY <1>3 DEF IInv, SentInv
<1>6. process # "down"
  BY DEF IInv, LoopInv
<1>7. NoCatchup \in [at : 0..Len(Jobs) + 1, now : Nat] /\ NoCatchup.at = 0 /\ NoCatchup.now = 0
  BY SpecsAreNumbers DEF NoCatchup
<1>8. CASE r[2] = "cron"
  <2>1. catchup' = catchup
    BY <1>8 DEF Returns, ReturnsToCatchup
  <2>2. TypesOK'
    BY <1>2, <2>1 DEF IInv, TypesOK
  <2>3. LoopInv'
    <3>1. ASSUME NEW k \in Specs, ~At(<<k, "catchup">>, "none")'
          PROVE  catchup'.at = k /\ run'[<<k, "catchup">>].ref \in Periods(k)'
      <4>1. <<k, "catchup">> \in Runs /\ <<k, "catchup">> # r
        BY <1>8, RunsOfJobs
      <4>2. run'[<<k, "catchup">>] = run[<<k, "catchup">>]
        BY <1>2, <4>1
      <4>3. QED
        BY <2>1, <3>1, <4>2 DEF IInv, LoopInv, At, Periods, RefAt
    <3>2. QED
      BY <1>6, <2>1, <3>1 DEF IInv, LoopInv
  <2>4. PassedInv'
    <3>1. now' \in Nat /\ now <= now' /\ delivered \subseteq delivered'
      BY DEF IInv, TypesOK
    <3>2. QED
      BY <2>1, <3>1, CaughtUpStays DEF IInv, PassedInv
  <2>5. QED
    BY <1>4, <1>5, <2>2, <2>3, <2>4 DEF IInv
<1>9. CASE r[2] # "cron"
  <2> DEFINE j == r[1]
  <2>1. r = <<j, "catchup">> /\ j \in Specs /\ catchup.at = j /\ run[r].ref \in Periods(j)
    BY <1>9, RunOfCatchup
  <2>2. \A k \in Specs : At(<<k, "catchup">>, "none")'
    <3>1. ASSUME NEW k \in Specs, k # j
          PROVE  At(<<k, "catchup">>, "none")'
      <4>1. At(<<k, "catchup">>, "none")
        BY <2>1, <3>1 DEF IInv, LoopInv
      <4>2. <<k, "catchup">> \in Runs /\ <<k, "catchup">> # r
        BY <2>1, <3>1, RunsOfJobs
      <4>3. QED
        BY <1>2, <4>1, <4>2 DEF At
    <3>2. QED
      BY <1>3, <2>1, <3>1
  <2>3. CASE ok
    <3>1. catchup' = [catchup EXCEPT !.at = @ + 1]
      BY <1>9, <2>3 DEF Returns, ReturnsToCatchup
    <3>2. /\ catchup' \in [at : 0..Len(Jobs) + 1, now : Nat]
          /\ catchup'.at = j + 1 /\ catchup'.now = catchup.now
      <4>1. catchup.at + 1 \in 0..Len(Jobs) + 1
        BY <2>1, SpecsAreNumbers
      <4>2. QED
        BY <2>1, <3>1, <4>1 DEF IInv, TypesOK
    <3>3. TypesOK'
      BY <1>2, <3>2 DEF IInv, TypesOK
    <3>4. LoopInv'
      BY <1>6, <2>2, <3>2 DEF IInv, LoopInv
    <3>5. CaughtUp(j)
      BY <2>1, <2>3 DEF CaughtUp, RowOf
    <3>6. PassedInv'
      <4> SUFFICES ASSUME NEW k \in Specs, k < catchup'.at
                   PROVE  CaughtUp(k)'
        BY DEF PassedInv
      <4>1. k < catchup.at \/ k = j
        BY <2>1, <3>2, SpecsAreNumbers
      <4>2. CaughtUp(k)
        BY <3>5, <4>1 DEF IInv, PassedInv
      <4>3. now' \in Nat /\ now <= now' /\ delivered \subseteq delivered'
        BY DEF IInv, TypesOK
      <4>4. QED
        BY <3>2, <4>2, <4>3, CaughtUpStays DEF IInv
    <3>7. QED
      BY <1>4, <1>5, <3>3, <3>4, <3>6 DEF IInv
  <2>4. CASE ~ok
    <3>1. catchup' = NoCatchup
      BY <1>9, <2>4 DEF Returns, ReturnsToCatchup
    <3>2. TypesOK'
      BY <1>2, <1>7, <3>1 DEF IInv, TypesOK
    <3>3. LoopInv'
      <4>1. catchup'.now <= now'
        BY <1>7, <3>1 DEF IInv, TypesOK
      <4>2. QED
        BY <1>6, <2>2, <4>1 DEF LoopInv
    <3>4. PassedInv'
      BY <1>7, <3>1, SpecsAreNumbers DEF PassedInv
    <3>5. QED
      BY <1>4, <1>5, <3>2, <3>3, <3>4 DEF IInv
  <2>5. QED
    BY <2>3, <2>4
<1>10. QED
  BY <1>8, <1>9

\* A run of a job, from ping_was_sent to ping_mark_sent.
LEMMA RunStepKeeps ==
  ASSUME IInv, NEW r \in Runs, RunStep(r)
  PROVE  IInv'
<1>1. CASE AlreadySent(r)
  <2>1. /\ ~At(r, "none") /\ ~At(r, "mark") /\ Returns(r, TRUE) /\ RowOf(r) \in sent
        /\ UNCHANGED <<now, process, sent, delivered, cut>>
    BY <1>1 DEF AlreadySent, At, WasSent, ping, history
  <2>2. RowOf(r) \in delivered
    BY <2>1 DEF IInv, SentInv
  <2>3. QED
    BY <2>1, <2>2, ReturnsKeeps
<1>2. CASE MarkPending(r)
  <2>1. /\ ~At(r, "none") /\ ~At(r, "mark") /\ Goes(r, "work")
        /\ UNCHANGED <<now, process, catchup, sent, delivered, cut>>
    BY <1>2 DEF MarkPending, MarkedPending, At
  <2>2. QED
    BY <2>1, GoesKeeps
<1>3. CASE Raises(r)
  <2>1. /\ ~At(r, "none") /\ Returns(r, FALSE) /\ cut \subseteq cut'
        /\ At(r, "mark") => RowOf(r) \in cut'
        /\ UNCHANGED <<now, process, sent, delivered>>
    BY <1>3 DEF Raises, At, ping, history
  <2>2. QED
    BY <2>1, ReturnsKeeps
<1>4. CASE Sends(r)
  <2>1. /\ ~At(r, "none") /\ ~At(r, "mark") /\ Goes(r, "mark")
        /\ delivered' = delivered \cup {RowOf(r)}
        /\ UNCHANGED <<now, process, catchup, sent, cut>>
    BY <1>4 DEF Sends, At, ping, history
  <2>2. QED
    BY <2>1, GoesKeeps
<1>5. CASE MarkSent(r)
  <2>1. /\ ~At(r, "none") /\ At(r, "mark") /\ Returns(r, TRUE)
        /\ sent' = sent \cup {RowOf(r)} /\ UNCHANGED <<now, process, delivered, cut>>
    BY <1>5 DEF MarkSent, MarkedSent, At, history
  <2>2. RowOf(r) \in delivered
    BY <2>1 DEF IInv, SentInv
  <2>3. QED
    BY <2>1, <2>2, ReturnsKeeps
<1>6. QED
  BY <1>1, <1>2, <1>3, <1>4, <1>5 DEF RunStep

-----------------------------------------------------------------------------
(* Messages that are sent once more *)

\* While runs only stop or begin to check, and histories only grow, runs that are at a
\* message together have met before.
LEMMA HistoryStays ==
  ASSUME HistoryInv, met \subseteq met', cut \subseteq cut', UNCHANGED <<delivered, again>>,
         \A r \in Runs : Busy(r)' => run'[r] = run[r]
  PROVE  HistoryInv'
<1>1. MetInv'
  <2> SUFFICES ASSUME NEW r \in Runs, NEW q \in Runs, r # q, RowOf(r)' = RowOf(q)',
                      Busy(r)', Busy(q)'
               PROVE  RowOf(r)' \in met'
    BY DEF MetInv
  <2>1. run'[r] = run[r] /\ run'[q] = run[q]
    OBVIOUS
  <2>2. Busy(r) /\ Busy(q) /\ RowOf(r) = RowOf(q) /\ RowOf(r)' = RowOf(r)
    BY <2>1 DEF Busy, At, RowOf
  <2>3. QED
    BY <2>2 DEF HistoryInv, MetInv
<1>2. RepeatInv'
  <2> SUFFICES ASSUME NEW r \in Runs, At(r, "work")', RowOf(r)' \in delivered'
               PROVE  RowOf(r)' \in met' \cup cut'
    BY DEF RepeatInv
  <2>1. run'[r] = run[r]
    BY DEF Busy
  <2>2. At(r, "work") /\ RowOf(r)' = RowOf(r)
    BY <2>1 DEF At, RowOf
  <2>3. QED
    BY <2>2 DEF HistoryInv, RepeatInv
<1>3. RepeatsExplained'
  BY DEF HistoryInv, RepeatsExplained
<1>4. QED
  BY <1>1, <1>2, <1>3 DEF HistoryInv

\* A run that begins to work meets those that are at the same message; if that was
\* delivered and none of them is about to record it, its run broke off.
LEMMA PendingMeets ==
  ASSUME TypesOK, DeliveredIsRecorded, HistoryInv, NEW r \in Runs, MarkPending(r)
  PROVE  HistoryInv'
<1>1. /\ run' \in [Runs -> RunState] /\ run'[r].pc = "work" /\ run'[r].ref = run[r].ref
      /\ \A q \in Runs : q # r => run'[q] = run[q]
  BY RunGoes DEF MarkPending, TypesOK
<1>2. /\ At(r, "check") /\ RowOf(r) \notin sent
      /\ \A q \in Runs : RowOf(q) = RowOf(r) /\ Busy(q) => RowOf(r) \in met'
      /\ met \subseteq met' /\ UNCHANGED <<delivered, again, cut>>
  BY DEF MarkPending, WasSent, Together, Busy
<1>3. \A q \in Runs : /\ RowOf(q)' = RowOf(q)
                      /\ q # r => (Busy(q)' <=> Busy(q)) /\ (At(q, "work")' <=> At(q, "work"))
  BY <1>1 DEF RowOf, Busy, At
<1>4. MetInv'
  <2> SUFFICES ASSUME NEW p \in Runs, NEW q \in Runs, p # q, RowOf(p) = RowOf(q),
                      Busy(p)', Busy(q)'
               PROVE  RowOf(p) \in met'
    BY <1>3 DEF MetInv
  <2>1. CASE p # r /\ q # r
    BY <1>2, <1>3, <2>1 DEF HistoryInv, MetInv
  <2>2. CASE p = r \/ q = r
    BY <1>2, <1>3, <2>2
  <2>3. QED
    BY <2>1, <2>2
<1>5. RepeatInv'
  <2> SUFFICES ASSUME NEW q \in Runs, At(q, "work")', RowOf(q) \in delivered
               PROVE  RowOf(q) \in met' \cup cut
    BY <1>2, <1>3 DEF RepeatInv
  <2>1. CASE q # r
    BY <1>2, <1>3, <2>1 DEF HistoryInv, RepeatInv
  <2>2. CASE q = r
    <3>1. RowOf(r) \in cut \/ \E p \in Runs : At(p, "mark") /\ RowOf(p) = RowOf(r)
      BY <1>2, <2>2 DEF DeliveredIsRecorded
    <3>2. QED
      BY <1>2, <2>2, <3>1 DEF Busy
  <2>3. QED
    BY <2>1, <2>2
<1>6. RepeatsExplained'
  BY <1>2 DEF HistoryInv, RepeatsExplained
<1>7. QED
  BY <1>4, <1>5, <1>6 DEF HistoryInv

\* A run that delivers: another that works at the same message has met it.
LEMMA SendingExplained ==
  ASSUME TypesOK, HistoryInv, NEW r \in Runs, Sends(r)
  PROVE  HistoryInv'
<1>1. /\ run' \in [Runs -> RunState] /\ run'[r].pc = "mark" /\ run'[r].ref = run[r].ref
      /\ \A q \in Runs : q # r => run'[q] = run[q]
  BY RunGoes DEF Sends, TypesOK
<1>2. /\ At(r, "work") /\ Busy(r)
      /\ delivered' = delivered \cup {RowOf(r)}
      /\ again' = again \cup ({RowOf(r)} \cap delivered)
      /\ UNCHANGED <<met, cut>>
  BY DEF Sends, Busy
<1>3. \A q \in Runs : /\ RowOf(q)' = RowOf(q) /\ (Busy(q)' <=> Busy(q))
                      /\ At(q, "work")' => At(q, "work") /\ q # r
  BY <1>1, <1>2 DEF RowOf, Busy, At
<1>4. MetInv'
  BY <1>2, <1>3 DEF HistoryInv, MetInv
<1>5. RepeatInv'
  <2> SUFFICES ASSUME NEW q \in Runs, At(q, "work")', RowOf(q) \in delivered'
               PROVE  RowOf(q) \in met \cup cut
    BY <1>2, <1>3 DEF RepeatInv
  <2>1. At(q, "work") /\ q # r
    BY <1>3
  <2>2. CASE RowOf(q) \in delivered
    BY <2>1, <2>2 DEF HistoryInv, RepeatInv
  <2>3. CASE RowOf(q) = RowOf(r)
    BY <1>2, <2>1, <2>3 DEF HistoryInv, MetInv, Busy
  <2>4. QED
    BY <1>2, <2>2, <2>3
<1>6. RepeatsExplained'
  <2>1. RowOf(r) \in delivered => RowOf(r) \in met \cup cut
    BY <1>2 DEF HistoryInv, RepeatInv
  <2>2. QED
    BY <1>2, <2>1 DEF HistoryInv, RepeatsExplained
<1>7. QED
  BY <1>4, <1>5, <1>6 DEF HistoryInv

\* Whatever the step.
LEMMA HistoryKept ==
  ASSUME IInv, HistoryInv, [Next]_vars
  PROVE  HistoryInv'
<1>1. TypesOK /\ DeliveredIsRecorded /\ run \in [Runs -> RunState]
  BY DEF IInv, TypesOK
<1>2. NotRunning.pc = "none"
  BY DEF NotRunning
<1>3. CASE Boot \/ UNCHANGED vars \/ \E j \in Specs : Skips(j) \/ CatchupFails(j)
  BY <1>3, HistoryStays DEF Boot, vars, Skips, CatchupFails, history
<1>4. ASSUME NEW runs \in SUBSET Runs, Stop(runs), UNCHANGED <<delivered, again, met>>
      PROVE  HistoryInv'
  <2>1. \A r \in Runs : Busy(r)' => run'[r] = run[r]
    BY <1>2, <1>4 DEF Stop, Busy, At
  <2>2. QED
    BY <1>4, <2>1, HistoryStays DEF Stop
<1>5. CASE Shutdown \/ Crash
  <2>1. Specs \X {"cron"} \in SUBSET Runs
    BY DEF Runs
  <2>2. QED
    BY <1>4, <1>5, <2>1 DEF Shutdown, Crash
<1>6. CASE HourPasses
  <2>1. PICK fired \in SUBSET {j \in Specs : Due(j, now')} :
          run' = [r \in Runs |-> IF r[2] = "cron" /\ r[1] \in fired
                                 THEN [pc |-> "check", ref |-> RefAt(r[1], now')] ELSE run[r]]
    BY <1>6 DEF HourPasses
  <2>2. \A r \in Runs : run'[r] = run[r] \/ run'[r].pc = "check"
    BY <2>1
  <2>3. \A r \in Runs : Busy(r)' => run'[r] = run[r]
    BY <2>2 DEF Busy, At
  <2>4. QED
    BY <1>6, <2>3, HistoryStays DEF HourPasses, history
<1>7. ASSUME NEW r \in Runs, NEW s, run' = [run EXCEPT ![r] = s], s.pc \in {"none", "check"}
      PROVE  \A q \in Runs : Busy(q)' => run'[q] = run[q]
  <2>1. run'[r] = s /\ \A q \in Runs : q # r => run'[q] = run[q]
    BY <1>1, <1>7
  <2>2. QED
    BY <1>7, <2>1 DEF Busy, At
<1>8. ASSUME NEW j \in Specs, Catches(j)
      PROVE  HistoryInv'
  <2> DEFINE s == [pc |-> "check", ref |-> RefAt(j, now)]
  <2>1. run' = [run EXCEPT ![<<j, "catchup">>] = s] /\ s.pc = "check"
    BY <1>8 DEF Catches
  <2> HIDE DEF s
  <2>2. \A q \in Runs : Busy(q)' => run'[q] = run[q]
    BY <1>7, <2>1, RunsOfJobs
  <2>3. QED
    BY <1>8, <2>2, HistoryStays DEF Catches, history
<1>9. ASSUME NEW r \in Runs, AlreadySent(r) \/ Raises(r) \/ MarkSent(r)
      PROVE  HistoryInv'
  <2>1. run' = [run EXCEPT ![r] = NotRunning]
    BY <1>9 DEF AlreadySent, Raises, MarkSent, Returns
  <2>2. \A q \in Runs : Busy(q)' => run'[q] = run[q]
    BY <1>2, <1>7, <2>1
  <2>3. QED
    BY <1>9, <2>2, HistoryStays DEF AlreadySent, Raises, MarkSent, history
<1>10. ASSUME NEW r \in Runs, RunStep(r)
       PROVE  HistoryInv'
  BY <1>1, <1>9, <1>10, PendingMeets, SendingExplained DEF RunStep
<1>11. QED
  BY <1>3, <1>5, <1>6, <1>8, <1>10 DEF Next

-----------------------------------------------------------------------------

\* The invariant that the theorems follow from.
THEOREM SchedulerInvariant == Spec => []IInv
<1>1. Init => IInv
  BY InitInv
<1>2. IInv /\ [Next]_vars => IInv'
  <2>1. ASSUME IInv, UNCHANGED vars
        PROVE  IInv'
    BY <2>1 DEF vars, ping, history, IInv, TypesOK, DeliveredIsRecorded, LoopInv, SentInv, PassedInv,
       CaughtUp, Missed, WasSent, Periods, RefAt, At, RowOf
  <2>2. QED
    BY <2>1, BootKeeps, CrashKeeps, HourKeeps, SkipsKeeps, CatchesKeeps, CatchupFailsKeeps,
       ShutdownKeeps, RunStepKeeps DEF Next
<1>3. QED
  BY <1>1, <1>2, PTL DEF Spec

\* However ticks, catchup, restarts and runs that break off follow each other: a message is
\* sent once more only if two runs were at it together or an earlier run of it broke off
\* after the delivery (ping_was_sent, ping_mark_pending, ping_mark_sent).
THEOREM RepeatsAreExplained == Spec => []RepeatsExplained
<1>1. Init => HistoryInv
  BY DEF Init, HistoryInv, MetInv, RepeatInv, RepeatsExplained, Busy, At, NotRunning
<1>2. IInv /\ HistoryInv /\ [Next]_vars => HistoryInv'
  BY HistoryKept
<1>3. HistoryInv => RepeatsExplained
  BY DEF HistoryInv
<1>4. QED
  BY <1>1, <1>2, <1>3, SchedulerInvariant, PTL DEF Spec

\* A catchup that comes to its end leaves no job that was missed undelivered
\* (ConexusScheduler.catchup).
THEOREM NothingLeftDue == Spec => []CatchupLeavesNothingDue
<1>1. IInv => CatchupLeavesNothingDue
  <2> SUFFICES ASSUME IInv, catchup.at = Len(Jobs) + 1, NEW j \in Specs
               PROVE  CaughtUp(j)
    BY DEF CatchupLeavesNothingDue, CaughtUp, Periods
  <2>1. j < catchup.at
    BY SpecsAreNumbers
  <2>2. QED
    BY <2>1 DEF IInv, PassedInv
<1>2. QED
  BY <1>1, SchedulerInvariant, PTL
-----------------------------------------------------------------------------
(* Catchup goes on *)

\* What a run of catchup has yet to do: begin, check, work and mark.
Ahead(pc) ==
  CASE pc = "none" -> 4
    [] pc = "check" -> 3
    [] pc = "work" -> 2
    [] OTHER -> 1

\* Catchup ends or comes to its next job, or its run of job j is nearer to the end.
Nearer(j) == LET r == <<j, "catchup">> IN
  \/ catchup' = NoCatchup
  \/ catchup' = [catchup EXCEPT !.at = @ + 1]
  \/ catchup' = catchup /\ Ahead(run'[r].pc) < Ahead(run[r].pc)

CatchupStep(j) == Skips(j) \/ Catches(j) \/ CatchupFails(j) \/ RunStep(<<j, "catchup">>)

\* So it is after each step of catchup at job j, and whatever else befalls it there.
CatchupGoesOn(j) ==
  /\ catchup.at = j
  /\ \/ CatchupStep(j) \/ catchup' # catchup
     \/ run'[<<j, "catchup">>] # run[<<j, "catchup">>]
  => Nearer(j)

\* What the step of a run makes of it and of catchup.
LEMMA RunGoesOn ==
  ASSUME TypesOK, NEW r \in Runs, RunStep(r)
  PROVE  /\ \/ catchup' = catchup /\ Ahead(run'[r].pc) < Ahead(run[r].pc)
            \/ catchup' = catchup /\ r[2] = "cron"
            \/ catchup' = NoCatchup
            \/ catchup' = [catchup EXCEPT !.at = @ + 1]
         /\ r[2] = "cron" => catchup' = catchup
         /\ ~At(r, "none")
         /\ \A q \in Runs : q # r => run'[q] = run[q]
<1>1. run \in [Runs -> RunState]
  BY DEF TypesOK
<1>2. CASE MarkPending(r) \/ Sends(r)
  <2>1. PICK pc \in {"work", "mark"} :
          Goes(r, pc) /\ run[r].pc = IF pc = "work" THEN "check" ELSE "work"
    BY <1>2 DEF MarkPending, Sends, At
  <2>2. run'[r].pc = pc /\ \A q \in Runs : q # r => run'[q] = run[q]
    BY <1>1, <2>1, RunGoes
  <2>3. catchup' = catchup
    BY <1>2 DEF MarkPending, Sends
  <2>4. QED
    BY <2>1, <2>2, <2>3 DEF Ahead, At
<1>3. CASE AlreadySent(r) \/ Raises(r) \/ MarkSent(r)
  <2>1. \E ok \in BOOLEAN : Returns(r, ok)
    BY <1>3 DEF AlreadySent, Raises, MarkSent
  <2>2. run[r].pc \in {"check", "work", "mark"}
    BY <1>1, <1>3 DEF AlreadySent, Raises, MarkSent, At, RunState
  <2>3. NotRunning \in RunState
    BY DEF NotRunning, RunState
  <2>4. \A q \in Runs : q # r => run'[q] = run[q]
    BY <1>1, <2>1, <2>3, OneRun DEF Returns
  <2>5. /\ r[2] = "cron" => catchup' = catchup
        /\ \/ catchup' = catchup /\ r[2] = "cron"
           \/ catchup' = NoCatchup
           \/ catchup' = [catchup EXCEPT !.at = @ + 1]
    BY <2>1 DEF Returns, ReturnsToCatchup
  <2>6. QED
    BY <2>2, <2>4, <2>5 DEF At
<1>4. QED
  BY <1>2, <1>3 DEF RunStep

\* The steps of catchup itself.
LEMMA CatchupIsNearer ==
  ASSUME TypesOK, NEW j \in Specs, CatchupStep(j)
  PROVE  Nearer(j)
<1> DEFINE r == <<j, "catchup">>
           s == [pc |-> "check", ref |-> RefAt(j, now)]
<1>1. r \in Runs /\ run \in [Runs -> RunState]
  BY RunsOfJobs DEF TypesOK
<1>2. CASE Skips(j) \/ CatchupFails(j)
  BY <1>2 DEF Skips, CatchupFails, CatchingUp, Nearer
<1>3. CASE Catches(j)
  <2>1. run[r].pc = "none" /\ catchup' = catchup /\ run' = [run EXCEPT ![r] = s]
    BY <1>3 DEF Catches, CatchingUp, At
  <2>2. s.pc = "check"
    OBVIOUS
  <2> HIDE DEF s
  <2>3. run'[r] = s
    BY <1>1, <2>1
  <2>4. QED
    BY <2>1, <2>2, <2>3 DEF Nearer, Ahead
<1>4. CASE RunStep(r)
  <2>1. r[2] # "cron"
    OBVIOUS
  <2>2. \/ catchup' = catchup /\ Ahead(run'[r].pc) < Ahead(run[r].pc)
        \/ catchup' = NoCatchup
        \/ catchup' = [catchup EXCEPT !.at = @ + 1]
    BY <1>1, <1>4, <2>1, RunGoesOn
  <2>3. QED
    BY <2>2 DEF Nearer
<1>5. QED
  BY <1>2, <1>3, <1>4 DEF CatchupStep

\* Other steps leave catchup where it is, or end it with the process.
LEMMA OthersLeaveCatchup ==
  ASSUME IInv, Next, NEW j \in Specs, catchup.at = j, ~CatchupStep(j)
  PROVE  \/ catchup' = NoCatchup
         \/ catchup' = catchup /\ run'[<<j, "catchup">>] = run[<<j, "catchup">>]
<1> DEFINE r == <<j, "catchup">>
<1>1. TypesOK /\ LoopInv /\ r \in Runs /\ j # 0 /\ run \in [Runs -> RunState]
  <2>1. TypesOK /\ LoopInv /\ run \in [Runs -> RunState]
    BY DEF IInv, TypesOK
  <2>2. r \in Runs
    BY RunsOfJobs
  <2>3. j # 0
    BY SpecsAreNumbers
  <2>4. QED
    BY <2>1, <2>2, <2>3
<1>2. CASE Boot
  BY <1>1, <1>2 DEF Boot, LoopInv
<1>3. CASE Crash \/ Shutdown
  <2>1. r \in Runs /\ r \notin Specs \X {"cron"}
    BY <1>1
  <2>2. QED
    BY <1>3, <2>1 DEF Crash, Shutdown, Stop
<1>4. CASE HourPasses
  BY <1>1, <1>4 DEF HourPasses
<1>5. ASSUME NEW k \in Specs, Skips(k) \/ Catches(k) \/ CatchupFails(k)
      PROVE  FALSE
  <2>1. k = j
    BY <1>5 DEF Skips, Catches, CatchupFails, CatchingUp
  <2>2. QED
    BY <1>5, <2>1 DEF CatchupStep
<1>6. ASSUME NEW q \in Runs, RunStep(q)
      PROVE  catchup' = catchup /\ run'[r] = run[r]
  <2>1. q # r
    BY <1>6 DEF CatchupStep
  <2>2. ~At(q, "none")
    BY <1>1, <1>6, RunGoesOn
  <2>3. ASSUME q[2] = "catchup"
        PROVE  FALSE
    <3>1. q = <<q[1], "catchup">> /\ q[1] \in Specs
      BY <2>3, RunsOfJobs
    <3>2. catchup.at = q[1]
      BY <1>1, <2>2, <3>1 DEF LoopInv
    <3>3. QED
      BY <2>1, <3>1, <3>2
  <2>4. q[2] = "cron"
    BY <2>3, RunsOfJobs
  <2>5. QED
    BY <1>1, <1>6, <2>1, <2>4, RunGoesOn
<1>7. QED
  BY <1>2, <1>3, <1>4, <1>5, <1>6 DEF Next

\* Catchup takes at most four steps at a job, and is never set back: neither by ticks of
\* the same job nor by time that goes by (ConexusScheduler.catchup).
THEOREM CatchupGoesThrough == Spec => [][\A j \in Specs : CatchupGoesOn(j)]_vars
<1>1. IInv /\ [Next]_vars => [\A j \in Specs : CatchupGoesOn(j)]_vars
  <2> SUFFICES ASSUME IInv, Next, NEW j \in Specs, catchup.at = j
               PROVE  CatchupGoesOn(j)
    BY DEF CatchupGoesOn, vars
  <2>1. CASE CatchupStep(j)
    BY <2>1, CatchupIsNearer DEF CatchupGoesOn, IInv
  <2>2. CASE ~CatchupStep(j)
    BY <2>2, OthersLeaveCatchup DEF CatchupGoesOn, Nearer
  <2>3. QED
    BY <2>1, <2>2
<1>2. QED
  BY <1>1, SchedulerInvariant, PTL DEF Spec
=============================================================================
