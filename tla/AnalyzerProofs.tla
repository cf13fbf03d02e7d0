---------------------------- MODULE AnalyzerProofs ----------------------------
(***************************************************************************)
(* The searches of the analyzer, for every network and every parameters.   *)
(***************************************************************************)
EXTENDS Analyzer, NetworkAnalysisProofs

-----------------------------------------------------------------------------
\* Powers of two

\* Counted as the subsets of 1 .. n.
LEMMA PowerIs ==
    ASSUME NEW n \in Nat
    PROVE  /\ IsFiniteSet(SUBSET (1 .. n))
           /\ Cardinality(SUBSET (1 .. n)) = 2 ^ n
           /\ 2 ^ n \in Nat \ {0}
<1>1. IsFiniteSet(1 .. n) /\ Cardinality(1 .. n) = n
  BY FS_Interval
<1>2. IsFiniteSet(SUBSET (1 .. n)) /\ Cardinality(SUBSET (1 .. n)) = 2 ^ n
  BY <1>1, FS_SUBSET
<1>3. Cardinality(SUBSET (1 .. n)) \in Nat
  BY <1>2, FS_CardinalityType
<1>4. Cardinality(SUBSET (1 .. n)) # 0
  <2>1. {} \in SUBSET (1 .. n)
    OBVIOUS
  <2>2. QED
    BY <1>2, <2>1, FS_EmptySet
<1>5. QED
  BY <1>2, <1>3, <1>4

LEMMA PowerNext ==
    ASSUME NEW n \in Nat
    PROVE  2 ^ (n + 1) = 2 * 2 ^ n
<1> DEFINE Old == SUBSET (1 .. n)
           New == (SUBSET (1 .. (n + 1))) \ Old
           f   == [s \in Old |-> s \cup {n + 1}]
<1>1. IsFiniteSet(Old) /\ Cardinality(Old) = 2 ^ n /\ 2 ^ n \in Nat
  BY PowerIs
<1>2. /\ IsFiniteSet(SUBSET (1 .. (n + 1)))
      /\ Cardinality(SUBSET (1 .. (n + 1))) = 2 ^ (n + 1) /\ 2 ^ (n + 1) \in Nat
  BY PowerIs
<1>3. f \in Bijection(Old, New)
  <2>1. f \in [Old -> New]
    <3>1. ASSUME NEW s \in Old
          PROVE  s \cup {n + 1} \in New
      <4>1. n + 1 \notin 1 .. n /\ n + 1 \in 1 .. (n + 1) /\ 1 .. n \subseteq 1 .. (n + 1)
        OBVIOUS
      <4>2. QED
        BY <4>1
    <3>2. QED
      BY <3>1
  <2>2. \A s, t \in Old : f[s] = f[t] => s = t
    <3>1. n + 1 \notin 1 .. n
      OBVIOUS
    <3>2. QED
      BY <3>1
  <2>3. \A t \in New : \E s \in Old : f[s] = t
    <3>1. ASSUME NEW t \in New
          PROVE  \E s \in Old : f[s] = t
      <4>1. 1 .. (n + 1) = (1 .. n) \cup {n + 1}
        OBVIOUS
      <4>2. n + 1 \in t
        BY <4>1
      <4>3. t \ {n + 1} \in Old /\ (t \ {n + 1}) \cup {n + 1} = t
        BY <4>1, <4>2
      <4>4. f[t \ {n + 1}] = t
        BY <4>3
      <4>5. QED
        BY <4>3, <4>4
    <3>2. QED
      BY <3>1
  <2> HIDE DEF Old, New, f
  <2>4. QED
    BY <2>1, <2>2, <2>3 DEF Bijection, Injection, Surjection, IsInjective
<1>4. IsFiniteSet(New) /\ Cardinality(New) = 2 ^ n
  <2> HIDE DEF Old, New, f
  <2>1. ExistsBijection(Old, New)
    BY <1>3 DEF ExistsBijection
  <2>2. QED
    BY <1>1, <2>1, FS_Bijection
<1>5. Old \cup New = SUBSET (1 .. (n + 1)) /\ Old \cap New = {}
  <2>1. 1 .. n \subseteq 1 .. (n + 1)
    OBVIOUS
  <2>2. QED
    BY <2>1
<1>6. Cardinality(Old \cup New) = 2 ^ n + 2 ^ n - 0
  <2> HIDE DEF Old, New, f
  <2>1. QED
    BY <1>1, <1>4, <1>5, FS_Union, FS_EmptySet, ZenonT(40)
<1>7. Cardinality(Old \cup New) = 2 ^ (n + 1)
  BY <1>2, <1>5
<1>8. PICK a, b : a = 2 ^ n /\ b = 2 ^ (n + 1)
  OBVIOUS
<1>9. a \in Nat /\ b = a + a - 0
  BY <1>1, <1>6, <1>7, <1>8
<1>10. b = 2 * a
  BY <1>9
<1>11. QED
  BY <1>8, <1>10

\* 2 ^ n is the product of the powers of two parts of n.
LEMMA PowerPlus ==
    ASSUME NEW m \in Nat, NEW n \in Nat
    PROVE  2 ^ (m + n) = 2 ^ m * 2 ^ n
<1> DEFINE Good == {i \in 0 .. n : 2 ^ (m + i) = 2 ^ m * 2 ^ i}
<1>1. 0 \in Good
  <2>1. 2 ^ m \in Nat
    BY PowerIs
  <2>2. m + 0 = m /\ 2 ^ 0 = 1
    OBVIOUS
  <2>3. QED
    BY <2>1, <2>2
<1>2. ASSUME NEW i \in 0 .. n, i \in Good, i < n
      PROVE  i + 1 \in Good
  <2>0. m + i \in Nat /\ i \in Nat
    OBVIOUS
  <2>1. 2 ^ (m + i) \in Nat /\ 2 ^ m \in Nat /\ 2 ^ i \in Nat /\ m + i \in Nat /\ i \in Nat
    BY <2>0, PowerIs
  <2>2. 2 ^ ((m + i) + 1) = 2 * 2 ^ (m + i) /\ 2 ^ (i + 1) = 2 * 2 ^ i
    BY <2>1, PowerNext
  <2>3. (m + i) + 1 = m + (i + 1) /\ i + 1 \in 0 .. n
    BY <1>2
  <2>4. 2 ^ (m + i) = 2 ^ m * 2 ^ i
    BY <1>2
  <2>5. 2 * (2 ^ m * 2 ^ i) = 2 ^ m * (2 * 2 ^ i)
    BY <2>1
  <2>6. 2 ^ (m + (i + 1)) = 2 ^ m * 2 ^ (i + 1)
    BY <2>2, <2>3, <2>4, <2>5
  <2>7. QED
    BY <2>3, <2>6
<1>3. 0 .. n \subseteq Good
  <2> HIDE DEF Good
  <2>1. QED
    BY <1>1, <1>2, IntervalInduction
<1>4. QED
  BY <1>3

LEMMA PowerMonotone ==
    ASSUME NEW m \in Nat, NEW n \in Nat, m <= n
    PROVE  2 ^ m <= 2 ^ n
<1>1. n - m \in Nat /\ m + (n - m) = n
  OBVIOUS
<1>2. 2 ^ n = 2 ^ m * 2 ^ (n - m)
  BY <1>1, PowerPlus
<1>3. 2 ^ m \in Nat /\ 2 ^ (n - m) \in Nat \ {0}
  BY <1>1, PowerIs
<1>4. 1 * 2 ^ m <= 2 ^ (n - m) * 2 ^ m
  BY <1>3, ProductMonotone
<1>5. QED
  BY <1>2, <1>3, <1>4

\* 1 << n is 2 ^ n up to 30, and never more.
LEMMA ShiftOneIs ==
    ASSUME NEW n \in Nat
    PROVE  /\ ShiftOne(n) \in Int /\ ShiftOne(n) <= 2 ^ n
           /\ n <= 30 => ShiftOne(n) = 2 ^ n
<1>1. n % 32 \in Nat /\ n % 32 <= n /\ (n <= 30 => n % 32 = n)
  OBVIOUS
<1>2. 2 ^ (n % 32) \in Nat /\ 2 ^ n \in Nat /\ 2 ^ (n % 32) <= 2 ^ n
  BY <1>1, PowerIs, PowerMonotone
<1>3. QED
  BY <1>1, <1>2 DEF ShiftOne

-----------------------------------------------------------------------------
\* Masks

LEMMA QuotientIs ==
    ASSUME NEW m \in Nat, NEW k \in Nat \ {0}, NEW q \in Int, k * q <= m, m < k * q + k
    PROVE  m \div k = q
<1> DEFINE r == m \div k
<1>1. r \in Int /\ k * r <= m /\ m < k * r + k
  OBVIOUS
<1> HIDE DEF r
<1>2. ~(r + 1 <= q)
  <2>1. SUFFICES ASSUME r + 1 <= q
                 PROVE  FALSE
    OBVIOUS
  <2>2. (r + 1) * k <= q * k
    BY <1>1, <2>1, ProductMonotone
  <2>3. (r + 1) * k = k * r + k /\ q * k = k * q
    BY <1>1
  <2>4. k * r \in Int /\ k * q \in Int
    BY <1>1
  <2>5. QED
    BY <1>1, <2>2, <2>3, <2>4
<1>3. ~(q + 1 <= r)
  <2>1. SUFFICES ASSUME q + 1 <= r
                 PROVE  FALSE
    OBVIOUS
  <2>2. (q + 1) * k <= r * k
    BY <1>1, <2>1, ProductMonotone
  <2>3. (q + 1) * k = k * q + k /\ r * k = k * r
    BY <1>1
  <2>4. k * r \in Int /\ k * q \in Int
    BY <1>1
  <2>5. QED
    BY <1>1, <2>2, <2>3, <2>4
<1>4. QED
  BY <1>1, <1>2, <1>3 DEF r

\* A higher bit does not change a lower one.
LEMMA LowerBit ==
    ASSUME NEW a \in Nat, NEW i \in Nat, NEW n \in Nat, i < n
    PROVE  InMask(a + 2 ^ n, i) <=> InMask(a, i)
<1>1. PICK b, c : b = 2 ^ i /\ c = 2 ^ (n - i - 1)
  OBVIOUS
<1>2. b \in Nat \ {0} /\ c \in Nat /\ 2 ^ n = b * (2 * c)
  <2>1. n - i - 1 \in Nat /\ n - i \in Nat /\ n - i = (n - i - 1) + 1 /\ n = i + (n - i)
    OBVIOUS
  <2>2. 2 ^ (n - i) = 2 * c
    BY <1>1, <2>1, PowerNext
  <2>3. 2 ^ n = b * (2 * c)
    BY <1>1, <2>1, <2>2, PowerPlus
  <2>4. b \in Nat \ {0} /\ c \in Nat
    BY <1>1, <2>1, PowerIs
  <2>5. QED
    BY <2>3, <2>4
<1>3. PICK q : q = a \div b
  OBVIOUS
<1>4. q \in Int /\ b * q <= a /\ a < b * q + b
  BY <1>2, <1>3
<1>5. (a + b * (2 * c)) \div b = q + 2 * c
  <2>1. b * (q + 2 * c) = b * q + b * (2 * c)
    BY <1>2, <1>4
  <2>2. b * (2 * c) \in Nat
    <3>1. \A x, y \in Nat : x * y \in Nat
      OBVIOUS
    <3>2. QED
      BY <1>2, <3>1
  <2>3. PICK s, t : s = a + b * (2 * c) /\ t = q + 2 * c
    OBVIOUS
  <2>4. s \in Nat /\ t \in Int /\ b * t <= s /\ s < b * t + b
    BY <1>2, <1>4, <2>1, <2>2, <2>3
  <2>5. s \div b = t
    BY <1>2, <2>4, QuotientIs
  <2>6. QED
    BY <2>3, <2>5
<1>6. (q + 2 * c) % 2 = q % 2
  BY <1>2, <1>4
<1>7. QED
  BY <1>1, <1>2, <1>3, <1>5, <1>6 DEF InMask

\* Bit n is what 2 ^ n adds.
LEMMA TopBit ==
    ASSUME NEW n \in Nat, NEW a \in 0 .. (2 ^ n - 1)
    PROVE  InMask(a + 2 ^ n, n) /\ ~InMask(a, n)
<1>1. PICK b : b = 2 ^ n
  OBVIOUS
<1>2. b \in Nat \ {0} /\ a \in Nat /\ a < b
  BY <1>1, PowerIs
<1>3. a \div b = 0
  BY <1>2, QuotientIs
<1>4. (a + b) \div b = 1
  <2>1. a + b \in Nat /\ b * 1 <= a + b /\ a + b < b * 1 + b /\ 1 \in Int
    BY <1>2
  <2>2. QED
    BY <1>2, <2>1, QuotientIs
<1>5. 1 % 2 = 1 /\ 0 % 2 = 0
  OBVIOUS
<1>6. QED
  BY <1>1, <1>3, <1>4, <1>5 DEF InMask

\* Every set of services is that of a mask.
LEMMA MaskOfSet ==
    ASSUME NEW n \in Nat, NEW T \in SUBSET (0 .. (n - 1))
    PROVE  \E m \in 0 .. (2 ^ n - 1) : T = {i \in 0 .. (n - 1) : InMask(m, i)}
<1> DEFINE Good == {j \in 0 .. n : \A U \in SUBSET (0 .. (j - 1)) :
                       \E m \in 0 .. (2 ^ j - 1) : \A i \in 0 .. (j - 1) : InMask(m, i) <=> i \in U}
<1>1. 0 \in Good
  <2>1. 2 ^ 0 = 1 /\ 0 .. (0 - 1) = {} /\ 0 \in 0 .. (1 - 1)
    OBVIOUS
  <2>2. QED
    BY <2>1
<1>2. ASSUME NEW j \in 0 .. n, j \in Good, j < n
      PROVE  j + 1 \in Good
  <2>1. /\ j \in Nat /\ (j + 1) - 1 = j /\ j + 1 \in 0 .. n
        /\ 0 .. j = (0 .. (j - 1)) \cup {j} /\ j \notin 0 .. (j - 1)
    BY <1>2
  <2>2. PICK b : b = 2 ^ j
    OBVIOUS
  <2>3. b \in Nat \ {0} /\ 2 ^ (j + 1) = 2 * b
    BY <2>1, <2>2, PowerIs, PowerNext
  <2>4. ASSUME NEW U \in SUBSET (0 .. j)
        PROVE  \E m \in 0 .. (2 ^ (j + 1) - 1) : \A i \in 0 .. j : InMask(m, i) <=> i \in U
    <3>1. U \cap (0 .. (j - 1)) \in SUBSET (0 .. (j - 1))
      OBVIOUS
    <3>2. PICK m \in 0 .. (2 ^ j - 1) :
             \A i \in 0 .. (j - 1) : InMask(m, i) <=> i \in U \cap (0 .. (j - 1))
      BY <1>2, <3>1
    <3>3. m \in Nat /\ m < b
      BY <2>2, <2>3, <3>2
    <3>4. \A i \in 0 .. (j - 1) : i \in Nat /\ i < j
      BY <2>1
    <3>5. CASE j \in U
      <4>1. m + b \in 0 .. (2 ^ (j + 1) - 1)
        BY <2>3, <3>3
      <4>2. \A i \in 0 .. (j - 1) : InMask(m + b, i) <=> i \in U
        BY <2>1, <2>2, <3>2, <3>3, <3>4, LowerBit
      <4>3. InMask(m + b, j)
        BY <2>1, <2>2, TopBit
      <4>4. QED
        BY <2>1, <3>5, <4>1, <4>2, <4>3
    <3>6. CASE j \notin U
      <4>1. m \in 0 .. (2 ^ (j + 1) - 1)
        BY <2>3, <3>3
      <4>2. ~InMask(m, j)
        BY <2>1, TopBit
      <4>3. QED
        BY <2>1, <3>2, <3>6, <4>1, <4>2
    <3>7. QED
      BY <3>5, <3>6
  <2>5. QED
    BY <2>1, <2>4
<1>3. 0 .. n \subseteq Good
  <2> HIDE DEF Good
  <2>1. QED
    BY <1>1, <1>2, IntervalInduction
<1>4. n \in Good
  <2> HIDE DEF Good
  <2>1. QED
    BY <1>3
<1>5. PICK m \in 0 .. (2 ^ n - 1) : \A i \in 0 .. (n - 1) : InMask(m, i) <=> i \in T
  BY <1>4
<1>6. T = {i \in 0 .. (n - 1) : InMask(m, i)}
  BY <1>5
<1>7. QED
  BY <1>6

\* Mask 0 stands for no services.
LEMMA NoBits ==
    ASSUME NEW i \in Nat
    PROVE  ~InMask(0, i)
<1>1. PICK b : b = 2 ^ i
  OBVIOUS
<1>2. b \in Nat \ {0}
  BY <1>1, PowerIs
<1>3. 0 \div b = 0
  <2>1. b * 0 <= 0 /\ 0 < b * 0 + b /\ 0 \in Int /\ 0 \in Nat
    BY <1>2
  <2>2. QED
    BY <1>2, <2>1, QuotientIs
<1>4. PICK z : z = 0 \div b
  OBVIOUS
<1>5. InMask(0, i) <=> z % 2 = 1
  BY <1>1, <1>4 DEF InMask
<1>6. QED
  BY <1>3, <1>4, <1>5

-----------------------------------------------------------------------------
\* What an attack takes

\* What v has at stake with the services of T below k.
Exposed(net, T, v, k) ==
    [i \in ServicesOf(net) |-> IF i < k /\ i \in T THEN net.allocation[v][i] ELSE 0]

Taken(net, T, v, k) == Lesser(net.stake[v], SumFunction(Exposed(net, T, v, k)))

LEMMA NetworkFinite ==
    ASSUME NEW net, IsNetwork(net)
    PROVE  /\ IsFiniteSet(ServicesOf(net)) /\ IsFiniteSet(DOMAIN net.stake)
           /\ net.size \in Nat \ {0}
BY FS_Interval DEF IsNetwork, ServicesOf

LEMMA ExposedSums ==
    ASSUME NEW net, IsNetwork(net), NEW T, NEW v \in DOMAIN net.stake
    PROVE  /\ \A k \in Nat : SumFunction(Exposed(net, T, v, k)) \in Nat
           /\ SumFunction(Exposed(net, T, v, 0)) = 0
           /\ \A k \in ServicesOf(net) :
                 SumFunction(Exposed(net, T, v, k + 1)) =
                     SumFunction(Exposed(net, T, v, k))
                         + (IF k \in T THEN net.allocation[v][k] ELSE 0)
<1> DEFINE D == ServicesOf(net)
           f(k) == Exposed(net, T, v, k)
<1>1. IsFiniteSet(D) /\ net.allocation[v] \in [D -> Nat] /\ \A i \in D : i \in Int /\ i >= 0
  BY NetworkFinite DEF IsNetwork, ServicesOf
<1>2. \A k \in Nat : f(k) \in [D -> Nat] /\ f(k) \in [D -> Int]
  BY <1>1 DEF Exposed
<1>3. \A k \in Nat : SumFunction(f(k)) \in Nat
  <2> HIDE DEF D, f
  <2>1. QED
    BY <1>1, <1>2, TotalNat
<1>4. SumFunction(f(0)) = 0
  <2>1. \A i \in D : f(0)[i] = 0
    BY <1>1 DEF Exposed
  <2> HIDE DEF D, f
  <2>2. 0 \in Nat
    OBVIOUS
  <2>3. QED
    BY <1>1, <1>2, <2>1, <2>2, TotalZero
<1>5. ASSUME NEW k \in D
      PROVE  SumFunction(f(k + 1)) = SumFunction(f(k))
                                       + (IF k \in T THEN net.allocation[v][k] ELSE 0)
  <2> DEFINE d == IF k \in T THEN net.allocation[v][k] ELSE 0
  <2>1. k \in Nat /\ k + 1 \in Nat
    BY <1>1
  <2>2. \A i \in D \ {k} : f(k + 1)[i] = f(k)[i]
    BY <1>1 DEF Exposed
  <2>3. d = f(k + 1)[k] - f(k)[k]
    <3>1. f(k + 1)[k] = d /\ f(k)[k] = 0
      BY <1>1 DEF Exposed
    <3>2. d \in Int
      BY <1>1
    <3> HIDE DEF d, f
    <3>3. QED
      BY <3>1, <3>2
  <2> HIDE DEF D, f, d
  <2>4. SumFunction(f(k + 1)) = SumFunction(f(k)) + d
    <3>1. PICK F, G : F = f(k) /\ G = f(k + 1)
      OBVIOUS
    <3>2. /\ F \in [D -> Int] /\ G \in [D -> Int] /\ \A i \in D \ {k} : G[i] = F[i]
          /\ d = G[k] - F[k]
      BY <1>2, <2>1, <2>2, <2>3, <3>1
    <3>3. SumFunction(G) = SumFunction(F) + d
      BY <1>1, <3>2, TotalWrite
    <3>4. QED
      BY <3>1, <3>3
  <2>5. QED
    BY <2>4 DEF d
<1>6. QED
  BY <1>3, <1>4, <1>5

SlashState(net) == [left : [DOMAIN net.stake -> Nat], total : Nat]

CutOf(net, k, before) ==
    [v \in DOMAIN net.stake |-> SlashAmount(net.allocation[v][k - 1], before.left[v])]

SlashedBy(net, k, before) ==
    [left  |-> [v \in DOMAIN net.stake |->
                   Greater(0, before.left[v] - CutOf(net, k, before)[v])],
     total |-> before.total + SumFunction(CutOf(net, k, before))]

LEMMA SlashedByType ==
    ASSUME NEW net, IsNetwork(net), NEW k \in 1 .. net.size, NEW st \in SlashState(net)
    PROVE  SlashedBy(net, k, st) \in SlashState(net)
<1> DEFINE cut == CutOf(net, k, st)
           V == DOMAIN net.stake
<1>1. IsFiniteSet(V) /\ k - 1 \in ServicesOf(net)
  BY NetworkFinite DEF ServicesOf
<1>2. ASSUME NEW v \in V
      PROVE  cut[v] \in Nat /\ st.left[v] \in Nat
  <2>1. net.allocation[v][k - 1] \in Nat /\ st.left[v] \in Nat
    BY <1>1 DEF IsNetwork, SlashState
  <2>2. QED
    BY <2>1 DEF CutOf, SlashAmount, Lesser
<1>3. cut \in [V -> Nat]
  BY <1>2 DEF CutOf
<1>4. SumFunction(cut) \in Nat
  <2> HIDE DEF cut, V
  <2>1. QED
    BY <1>1, <1>3, TotalNat
<1>5. [v \in V |-> Greater(0, st.left[v] - cut[v])] \in [V -> Nat]
  <2> HIDE DEF cut
  <2>1. QED
    BY <1>2 DEF Greater
<1>6. st.total + SumFunction(cut) \in Nat
  BY <1>4 DEF SlashState
<1>7. QED
  BY <1>5, <1>6 DEF SlashedBy, SlashState

\* The slashes of a mask, service after service.
LEMMA SlashRecursion ==
    ASSUME NEW net, IsNetwork(net), NEW m
    PROVE  \E g \in [0 .. net.size -> SlashState(net)] :
              /\ g[0] = [left |-> net.stake, total |-> 0]
              /\ \A k \in 1 .. net.size :
                    g[k] = IF InMask(m, k - 1) THEN SlashedBy(net, k, g[k - 1]) ELSE g[k - 1]
              /\ AttackCost(net, m) = g[net.size].total
<1> DEFINE n == net.size
           b == [left |-> net.stake, total |-> 0]
           St == SlashState(net)
           h == [z \in (1 .. n) \X St |->
                    IF InMask(m, z[1] - 1) THEN SlashedBy(net, z[1], z[2]) ELSE z[2]]
           Is(f) == f = [k \in 0 .. n |->
               IF k = 0 THEN [left |-> net.stake, total |-> 0]
               ELSE LET before == f[k - 1]
                        cut    == [v \in DOMAIN net.stake |->
                                      SlashAmount(net.allocation[v][k - 1], before.left[v])]
                    IN  IF InMask(m, k - 1)
                        THEN [left  |-> [v \in DOMAIN net.stake |->
                                            Greater(0, before.left[v] - cut[v])],
                              total |-> before.total + SumFunction(cut)]
                        ELSE before]
           Slash == CHOOSE f : Is(f)
<1>1. n \in Nat /\ b \in St
  BY DEF IsNetwork, SlashState
<1>2. h \in [(1 .. n) \X St -> St]
  <2>1. \A k \in 1 .. n, st \in St : SlashedBy(net, k, st) \in St
    BY SlashedByType
  <2> HIDE DEF St, n
  <2>2. QED
    BY <2>1
<1>3. PICK g \in [0 .. n -> St] : Recurs(g, b, h, n)
  <2> HIDE DEF n, b, St, h
  <2>1. QED
    BY <1>1, <1>2, IntervalRecursion
<1>4. \A f : Is(f) <=> f = [k \in 0 .. n |->
                 IF k = 0 THEN b
                 ELSE IF InMask(m, k - 1) THEN SlashedBy(net, k, f[k - 1]) ELSE f[k - 1]]
  BY DEF SlashedBy, CutOf
<1>5. \A f : (\A k \in 1 .. n : f[k - 1] \in St) =>
         (Recurs(f, b, h, n) <=> f = [k \in 0 .. n |->
                 IF k = 0 THEN b
                 ELSE IF InMask(m, k - 1) THEN SlashedBy(net, k, f[k - 1]) ELSE f[k - 1]])
  <2>1. ASSUME NEW f, \A k \in 1 .. n : f[k - 1] \in St
        PROVE  [k \in 0 .. n |-> IF k = 0 THEN b ELSE h[<<k, f[k - 1]>>]]
                 = [k \in 0 .. n |->
                     IF k = 0 THEN b
                     ELSE IF InMask(m, k - 1) THEN SlashedBy(net, k, f[k - 1]) ELSE f[k - 1]]
    <3>1. \A k \in 1 .. n : h[<<k, f[k - 1]>>] =
              IF InMask(m, k - 1) THEN SlashedBy(net, k, f[k - 1]) ELSE f[k - 1]
      <4> HIDE DEF St, n
      <4>1. QED
        BY <2>1
    <3>2. \A k \in 0 .. n : k # 0 => k \in 1 .. n
      BY <1>1
    <3> HIDE DEF h, b, n, St
    <3>3. QED
      BY <3>1, <3>2
  <2> HIDE DEF h, b, n, St
  <2>2. QED
    BY <2>1 DEF Recurs
<1>6. Is(g)
  <2>1. \A k \in 1 .. n : g[k - 1] \in St
    <3>1. \A k \in 1 .. n : k - 1 \in 0 .. n
      BY <1>1
    <3> HIDE DEF St, n
    <3>2. QED
      BY <3>1
  <2> HIDE DEF h, b, n, St, Is
  <2>2. QED
    BY <1>3, <1>4, <1>5, <2>1
<1>7. Is(Slash)
  <2> HIDE DEF Is
  <2>1. QED
    BY <1>6, Zenon
<1>8. AttackCost(net, m) = Slash[n].total
  BY Zenon DEF AttackCost, ApplyByzantineServices
<1>9. \A f : Is(f) => /\ f[0] = b
                      /\ \A k \in 1 .. n : f[k] =
                            IF InMask(m, k - 1) THEN SlashedBy(net, k, f[k - 1]) ELSE f[k - 1]
  <2>1. \A k \in 1 .. n : k # 0 /\ k \in 0 .. n
    BY <1>1
  <2>2. 0 \in 0 .. n
    BY <1>1
  <2> HIDE DEF Is, b, n
  <2>3. QED
    BY <1>4, <2>1, <2>2
<1>10. Slash \in [0 .. n -> St]
  <2> DEFINE Good == {k \in 0 .. n : Slash[k] \in St}
  <2>1. Slash = [k \in 0 .. n |-> Slash[k]]
    <3> HIDE DEF Slash
    <3>1. QED
      BY <1>7
  <2>2. 0 \in Good
    <3> HIDE DEF Slash, Is, St
    <3>1. Slash[0] = b /\ 0 \in 0 .. n
      BY <1>1, <1>7, <1>9
    <3>2. QED
      BY <1>1, <3>1
  <2>3. ASSUME NEW k \in 0 .. n, k \in Good, k < n
        PROVE  k + 1 \in Good
    <3>1. k + 1 \in 1 .. n /\ (k + 1) - 1 = k /\ k + 1 \in 0 .. n
      BY <1>1, <2>3
    <3> HIDE DEF Slash, Is, b
    <3>2. Slash[k + 1] = IF InMask(m, k) THEN SlashedBy(net, k + 1, Slash[k]) ELSE Slash[k]
      BY <1>7, <1>9, <3>1
    <3>3. Slash[k] \in St
      BY <2>3
    <3>4. SlashedBy(net, k + 1, Slash[k]) \in St
      BY <3>1, <3>3, SlashedByType
    <3> HIDE DEF St
    <3>5. QED
      BY <3>1, <3>2, <3>3, <3>4
  <2>4. 0 .. n \subseteq Good
    <3> HIDE DEF Good, n
    <3>1. QED
      BY <1>1, <2>2, <2>3, IntervalInduction
  <2>5. \A k \in 0 .. n : Slash[k] \in St
    <3> HIDE DEF Slash, St, n
    <3>1. QED
      BY <2>4
  <2> HIDE DEF Slash, St, n
  <2>6. QED
    BY <2>1, <2>5
<1>11. QED
  <2>1. /\ Slash[0] = b
        /\ \A k \in 1 .. n : Slash[k] =
              IF InMask(m, k - 1) THEN SlashedBy(net, k, Slash[k - 1]) ELSE Slash[k - 1]
    <3> HIDE DEF Slash, Is, b
    <3>1. QED
      BY <1>7, <1>9
  <2> HIDE DEF Slash
  <2>2. QED
    BY <1>8, <1>10, <2>1

ServicesIn(net, m) == {i \in ServicesOf(net) : InMask(m, i)}

\* After the services below k, each validator has lost what it had at stake with
\* those of the mask.
LEMMA SlashesTake ==
    ASSUME NEW net, IsNetwork(net), NEW m
    PROVE  AttackCost(net, m) =
               SumFunction([v \in DOMAIN net.stake |->
                               Taken(net, ServicesIn(net, m), v, net.size)])
<1> DEFINE n == net.size
           V == DOMAIN net.stake
           T == ServicesIn(net, m)
           taken(k) == [v \in V |-> Taken(net, T, v, k)]
<1>1. PICK g :
         /\ g[0] = [left |-> net.stake, total |-> 0]
         /\ \A k \in 1 .. n :
               g[k] = IF InMask(m, k - 1) THEN SlashedBy(net, k, g[k - 1]) ELSE g[k - 1]
         /\ AttackCost(net, m) = g[n].total
  BY SlashRecursion
<1>2. n \in Nat /\ IsFiniteSet(V) /\ \A v \in V : net.stake[v] \in Nat
  BY NetworkFinite DEF IsNetwork
<1>3. \A k \in 0 .. n : k \in Nat
  BY <1>2
<1>4. \A k \in Nat : taken(k) \in [V -> Nat] /\ taken(k) \in [V -> Int]
  <2>1. \A k \in Nat, v \in V : Taken(net, T, v, k) \in Nat
    <3>1. \A k \in Nat, v \in V : SumFunction(Exposed(net, T, v, k)) \in Nat
      BY ExposedSums
    <3> HIDE DEF T, V
    <3>2. QED
      BY <1>2, <3>1 DEF Taken, Lesser
  <2> HIDE DEF T, V
  <2>2. QED
    BY <2>1
<1> DEFINE Good == {k \in 0 .. n : /\ \A v \in V : g[k].left[v] = net.stake[v] - Taken(net, T, v, k)
                                  /\ g[k].total = SumFunction(taken(k))}
<1>5. 0 \in Good
  <2>1. \A v \in V : Taken(net, T, v, 0) = 0
    <3>1. \A v \in V : SumFunction(Exposed(net, T, v, 0)) = 0
      BY ExposedSums
    <3> HIDE DEF T, V
    <3>2. QED
      BY <1>2, <3>1 DEF Taken, Lesser
  <2>2. \A v \in V : taken(0)[v] = 0
    BY <2>1
  <2>3. SumFunction(taken(0)) = 0
    <3> HIDE DEF taken, V
    <3>1. 0 \in Nat
      OBVIOUS
    <3>2. QED
      BY <1>2, <1>4, <2>2, <3>1, TotalZero
  <2>4. \A v \in V : g[0].left[v] = net.stake[v] - Taken(net, T, v, 0)
    <3> HIDE DEF T, V
    <3>1. QED
      BY <1>1, <1>2, <2>1
  <2> HIDE DEF taken
  <2>5. QED
    BY <1>1, <1>2, <2>3, <2>4
<1>6. ASSUME NEW k \in 0 .. n, k \in Good, k < n
      PROVE  k + 1 \in Good
  <2>1. k + 1 \in 1 .. n /\ k + 1 \in 0 .. n /\ k \in Nat /\ k + 1 \in Nat /\ (k + 1) - 1 = k
        /\ k \in ServicesOf(net)
    BY <1>2, <1>6 DEF ServicesOf
  <2>2. k \in T <=> InMask(m, k)
    BY <2>1 DEF ServicesIn
  <2>3. g[k + 1] = IF k \in T THEN SlashedBy(net, k + 1, g[k]) ELSE g[k]
    <3> HIDE DEF T
    <3>1. QED
      BY <1>1, <2>1, <2>2
  <2>4. /\ \A v \in V : g[k].left[v] = net.stake[v] - Taken(net, T, v, k)
        /\ g[k].total = SumFunction(taken(k))
    BY <1>6
  <2>5. \A v \in V : /\ SumFunction(Exposed(net, T, v, k)) \in Nat
                     /\ SumFunction(Exposed(net, T, v, k + 1)) =
                          SumFunction(Exposed(net, T, v, k))
                            + (IF k \in T THEN net.allocation[v][k] ELSE 0)
    <3>1. ASSUME NEW v \in V
          PROVE  /\ SumFunction(Exposed(net, T, v, k)) \in Nat
                 /\ SumFunction(Exposed(net, T, v, k + 1)) =
                      SumFunction(Exposed(net, T, v, k))
                        + (IF k \in T THEN net.allocation[v][k] ELSE 0)
      <4> HIDE DEF T
      <4>1. SumFunction(Exposed(net, T, v, 0)) = 0
        BY ExposedSums
      <4>2. QED
        BY <2>1, <4>1, ExposedSums
    <3>2. QED
      BY <3>1
  <2>6. CASE k \in T
    <3> DEFINE cut == CutOf(net, k + 1, g[k])
    <3>1. ASSUME NEW v \in V
          PROVE  /\ cut[v] \in Nat
                 /\ taken(k + 1)[v] = taken(k)[v] + cut[v]
                 /\ Greater(0, g[k].left[v] - cut[v]) = net.stake[v] - Taken(net, T, v, k + 1)
      <4>1. PICK s, a, b, left : /\ s = net.stake[v] /\ a = SumFunction(Exposed(net, T, v, k))
                                 /\ b = net.allocation[v][k] /\ left = g[k].left[v]
        OBVIOUS
      <4>2. s \in Nat /\ a \in Nat /\ b \in Nat
        BY <1>2, <2>1, <2>5, <4>1 DEF IsNetwork
      <4>3. Taken(net, T, v, k) = Lesser(s, a) /\ Taken(net, T, v, k + 1) = Lesser(s, a + b)
        BY <2>5, <2>6, <4>1 DEF Taken
      <4>4. left = s - Lesser(s, a)
        BY <2>4, <4>1, <4>3
      <4>5. cut[v] = SlashAmount(b, left)
        BY <2>1, <4>1 DEF CutOf
      <4>6. /\ Lesser(s, a + b) = Lesser(s, a) + SlashAmount(b, left)
            /\ Greater(0, left - SlashAmount(b, left)) = s - Lesser(s, a + b)
            /\ SlashAmount(b, left) \in Nat
        BY <4>2, <4>4 DEF Lesser, Greater, SlashAmount
      <4>7. taken(k + 1)[v] = Lesser(s, a + b) /\ taken(k)[v] = Lesser(s, a)
        BY <4>3
      <4> HIDE DEF cut, taken, T
      <4>8. QED
        BY <4>1, <4>3, <4>5, <4>6, <4>7
    <3>2. g[k + 1].left = [v \in V |-> Greater(0, g[k].left[v] - cut[v])]
          /\ g[k + 1].total = g[k].total + SumFunction(cut)
      <4>1. SlashedBy(net, k + 1, g[k]) =
               [left  |-> [v \in V |-> Greater(0, g[k].left[v] - cut[v])],
                total |-> g[k].total + SumFunction(cut)]
        BY DEF SlashedBy
      <4>2. g[k + 1] = SlashedBy(net, k + 1, g[k])
        BY <2>3, <2>6
      <4> HIDE DEF cut, V
      <4>3. QED
        BY <4>1, <4>2
    <3>3. cut \in [V -> Int]
      <4>1. cut = [v \in V |-> cut[v]]
        BY DEF CutOf
      <4> HIDE DEF cut, V
      <4>2. QED
        BY <3>1, <4>1
    <3>4. SumFunction(taken(k + 1)) = SumFunction(taken(k)) + SumFunction(cut)
      <4> HIDE DEF cut, taken, V
      <4>1. PICK F, G, C : F = taken(k) /\ G = taken(k + 1) /\ C = cut
        OBVIOUS
      <4>2. /\ F \in [V -> Int] /\ G \in [V -> Int] /\ C \in [V -> Int]
            /\ \A v \in V : G[v] = F[v] + C[v]
        BY <1>4, <2>1, <3>1, <3>3, <4>1
      <4>3. IsFiniteSet(V)
        BY <1>2
      <4>4. SumFunction(G) = SumFunction(F) + SumFunction(C)
        BY <4>2, <4>3, TotalPlus
      <4>5. QED
        BY <4>1, <4>4
    <3>5. \A v \in V : g[k + 1].left[v] = net.stake[v] - Taken(net, T, v, k + 1)
      <4> HIDE DEF cut, T, V
      <4>1. QED
        BY <3>1, <3>2
    <3> HIDE DEF cut, taken, T, V
    <3>6. QED
      BY <2>1, <2>4, <3>2, <3>4, <3>5
  <2>7. CASE k \notin T
    <3>1. \A v \in V : Taken(net, T, v, k + 1) = Taken(net, T, v, k)
      <4>1. \A v \in V : SumFunction(Exposed(net, T, v, k + 1)) = SumFunction(Exposed(net, T, v, k))
        <5> HIDE DEF T, V
        <5>1. QED
          BY <2>5, <2>7
      <4>2. QED
        BY <4>1 DEF Taken
    <3>2. taken(k + 1) = taken(k)
      BY <3>1
    <3>3. g[k + 1] = g[k]
      BY <2>3, <2>7
    <3> HIDE DEF taken, T, V
    <3>4. QED
      BY <2>1, <2>4, <3>1, <3>2, <3>3
  <2>8. QED
    BY <2>6, <2>7
<1>7. 0 .. n \subseteq Good
  <2> HIDE DEF Good, n
  <2>1. QED
    BY <1>2, <1>5, <1>6, IntervalInduction
<1>8. n \in Good
  <2> HIDE DEF Good, n
  <2>1. n \in 0 .. n
    BY <1>2
  <2>2. QED
    BY <1>7, <2>1
<1>9. g[n].total = SumFunction(taken(n))
  <2> HIDE DEF taken, V, T, n
  <2>1. QED
    BY <1>8
<1>10. QED
  BY <1>1, <1>9

\* The enumeration computes what an attack takes and yields.
LEMMA AttackIs ==
    ASSUME NEW net, IsNetwork(net), NEW m
    PROVE  /\ AttackCost(net, m) = StakeAtRisk(net, ServicesIn(net, m))
           /\ AttackPrize(net, m) = PrizeOf(net, ServicesIn(net, m))
           /\ AttackCost(net, m) \in Nat /\ AttackPrize(net, m) \in Nat
           /\ ServicesIn(net, m) = {} => AttackPrize(net, m) = 0
<1> DEFINE D == ServicesOf(net)
           V == DOMAIN net.stake
           T == ServicesIn(net, m)
<1>1. IsFiniteSet(D) /\ IsFiniteSet(V) /\ T \in SUBSET D /\ net.size \in Nat
      /\ \A i \in D : i \in Nat /\ i < net.size
  BY NetworkFinite DEF ServicesIn, ServicesOf
<1>2. ASSUME NEW v \in V
      PROVE  /\ Taken(net, T, v, net.size) =
                  Lesser(net.stake[v], SumFunction([i \in T |-> Greater(0, net.allocation[v][i])]))
             /\ Taken(net, T, v, net.size) \in Nat
  <2>1. net.allocation[v] \in [D -> Nat] /\ net.stake[v] \in Nat
    BY DEF IsNetwork
  <2> DEFINE F == Exposed(net, T, v, net.size)
             G == [i \in T |-> Greater(0, net.allocation[v][i])]
  <2>2. F \in [D -> Int] /\ \A i \in D : F[i] = IF i \in T THEN net.allocation[v][i] ELSE 0
    <3> HIDE DEF T
    <3>1. QED
      BY <1>1, <2>1 DEF Exposed
  <2>3. G \in [T -> Int] /\ \A i \in T : G[i] = net.allocation[v][i]
    <3>1. \A i \in T : net.allocation[v][i] \in Nat
      <4> HIDE DEF T
      <4>1. QED
        BY <1>1, <2>1
    <3> HIDE DEF T
    <3>2. QED
      BY <3>1 DEF Greater
  <2>4. /\ \A i \in T : F[i] = G[i]
        /\ \A i \in D \ T : F[i] = 0
    <3> HIDE DEF F, G, T, D
    <3>1. QED
      BY <1>1, <2>2, <2>3
  <2>5. SumFunction(F) = SumFunction(G)
    <3> HIDE DEF F, G, T, D
    <3>1. QED
      BY <1>1, <2>2, <2>3, <2>4, TotalPart
  <2>6. SumFunction(F) \in Nat
    BY <1>1, ExposedSums
  <2>7. Taken(net, T, v, net.size) = Lesser(net.stake[v], SumFunction(F))
    BY DEF Taken
  <2> HIDE DEF F, G, T
  <2>8. Taken(net, T, v, net.size) \in Nat
    BY <2>1, <2>6, <2>7 DEF Lesser
  <2>9. Taken(net, T, v, net.size) = Lesser(net.stake[v], SumFunction(G))
    BY <2>5, <2>7
  <2>10. QED
    BY <2>8, <2>9 DEF G
<1> DEFINE taken == [v \in V |-> Taken(net, T, v, net.size)]
<1>3. AttackCost(net, m) = SumFunction(taken)
  BY SlashesTake
<1>4. taken = [v \in V |->
         Lesser(net.stake[v], SumFunction([i \in T |-> Greater(0, net.allocation[v][i])]))]
  <2> HIDE DEF T, V
  <2>1. QED
    BY <1>2, Zenon
<1>5. SumFunction(taken) = StakeAtRisk(net, T)
  <2> HIDE DEF taken
  <2>1. QED
    BY <1>4 DEF StakeAtRisk
<1>6. SumFunction(taken) \in Nat
  <2>1. taken \in [V -> Nat]
    <3> HIDE DEF T, V
    <3>1. QED
      BY <1>2
  <2> HIDE DEF taken, V
  <2>2. QED
    BY <1>1, <2>1, TotalNat
<1> DEFINE F == [i \in D |-> IF InMask(m, i) THEN net.prize[i] ELSE 0]
           G == [i \in T |-> net.prize[i]]
<1>7. /\ F \in [D -> Nat] /\ F \in [D -> Int] /\ G \in [T -> Int]
      /\ \A i \in T : F[i] = G[i]
      /\ \A i \in D \ T : F[i] = 0
  BY DEF IsNetwork, ServicesIn
<1>8. SumFunction(F) = SumFunction(G) /\ SumFunction(F) \in Nat
  <2> HIDE DEF D, T, F, G
  <2>1. SumFunction(F) = SumFunction(G)
    BY <1>1, <1>7, TotalPart
  <2>2. SumFunction(F) \in Nat
    BY <1>1, <1>7, TotalNat
  <2>3. QED
    BY <2>1, <2>2
<1>9. AttackPrize(net, m) = SumFunction(F) /\ PrizeOf(net, T) = SumFunction(G)
  BY DEF AttackPrize, PrizeOf
<1>10. T = {} => SumFunction(F) = 0
  <2>1. ASSUME T = {}
        PROVE  \A i \in D : F[i] = 0
    <3> HIDE DEF T, F
    <3>1. QED
      BY <1>7, <2>1
  <2> HIDE DEF D, T, F
  <2>2. QED
    BY <1>1, <1>7, <2>1, TotalZero
<1> HIDE DEF F, G, taken, T, D
<1>11. QED
  BY <1>3, <1>5, <1>6, <1>8, <1>9, <1>10 DEF T

-----------------------------------------------------------------------------
\* The inputs

LEMMA DesignIsNetwork ==
    ASSUME NEW p \in Parameters
    PROVE  IsNetwork(DesignOf(p)) /\ DesignOf(p).size = p.S
<1> DEFINE net == DesignOf(p)
           services == 0 .. (p.S - 1)
           choices  == kSubset(p.d, services)
<1>1. p.S \in Nat \ {0} /\ p.sigma \in Nat /\ p.pi \in Nat
  BY AnalyzerAssumption
<1>2. IsFiniteSet(services)
  <2>1. 0 \in Int /\ p.S - 1 \in Int
    BY <1>1
  <2>2. QED
    BY <2>1, FS_Interval
<1>3. IsFiniteSet(choices)
  <2>1. choices \in SUBSET (SUBSET services)
    BY DEF kSubset
  <2> HIDE DEF choices, services
  <2>2. IsFiniteSet(SUBSET services)
    BY <1>2, FS_SUBSET
  <2>3. QED
    BY <2>1, <2>2, FS_Subset
<1> HIDE DEF choices
<1>4. /\ net.size = p.S
      /\ net.stake = [D \in choices |-> p.sigma]
      /\ net.allocation = [D \in choices |-> [i \in services |-> IF i \in D THEN p.sigma ELSE 0]]
      /\ net.prize = [i \in services |-> p.pi]
  BY DEF DesignOf, choices
<1>5. ServicesOf(net) = services /\ DOMAIN net.stake = choices
  BY <1>4 DEF ServicesOf
<1> HIDE DEF net, services
<1>6. /\ net.stake \in [choices -> Nat]
      /\ net.allocation \in [choices -> [services -> Nat]]
      /\ net.prize \in [services -> Nat]
  BY <1>1, <1>4
<1>7. IsNetwork(net)
  BY <1>1, <1>3, <1>4, <1>5, <1>6 DEF IsNetwork
<1>8. QED
  BY <1>4, <1>7 DEF net

\* Every network that is analyzed is one.
Inputs ==
    \/ network \in Networks /\ params = NoParameters
    \/ params \in Parameters /\ network = DesignOf(params)

LEMMA InputsAre ==
    ASSUME Inputs
    PROVE  /\ IsNetwork(network) /\ network.size \in Nat \ {0}
           /\ params # NoParameters =>
                 params \in Symmetric /\ params.d <= params.S /\ network.size = params.S
<1>1. IsNetwork(network)
  BY DesignIsNetwork, AnalyzerAssumption DEF Inputs
<1>2. ASSUME params # NoParameters
      PROVE  params \in Symmetric /\ params.d <= params.S /\ network.size = params.S
  BY <1>2, DesignIsNetwork, AnalyzerAssumption DEF Inputs, Symmetric
<1>3. QED
  BY <1>1, <1>2 DEF IsNetwork

-----------------------------------------------------------------------------
\* The bisections

LEMMA WholeIs == Whole \in Nat /\ Whole >= 2
<1>1. Iterations \in Nat \ {0} /\ Iterations - 1 \in Nat /\ Iterations = (Iterations - 1) + 1
  BY AnalyzerAssumption
<1>2. Whole = 2 * 2 ^ (Iterations - 1)
  BY <1>1, PowerNext DEF Whole
<1>3. 2 ^ (Iterations - 1) \in Nat \ {0}
  BY <1>1, PowerIs
<1>4. QED
  BY <1>2, <1>3

\* After i halvings the interval from a to b has 1/2^i of its length.
Interval(a, b, i) ==
    /\ a \in Nat /\ b \in Nat /\ b <= Whole /\ i \in 0 .. Iterations
    /\ a + 2 ^ (Iterations - i) = b

LEMMA IntervalIs ==
    /\ Interval(0, Whole, 0)
    /\ \A a, b, i : Interval(a, b, i) => a < b
    /\ \A a, b : Interval(a, b, Iterations) => b = a + 1
<1>1. Iterations \in Nat \ {0} /\ Iterations - 0 = Iterations /\ Iterations - Iterations = 0
  BY AnalyzerAssumption
<1>2. Interval(0, Whole, 0)
  BY <1>1, WholeIs DEF Interval, Whole
<1>3. ASSUME NEW a, NEW b, NEW i, Interval(a, b, i)
      PROVE  a < b
  <2>1. Iterations - i \in Nat
    BY <1>1, <1>3 DEF Interval
  <2>2. 2 ^ (Iterations - i) \in Nat \ {0}
    BY <2>1, PowerIs
  <2>3. QED
    BY <1>3, <2>2 DEF Interval
<1>4. ASSUME NEW a, NEW b, Interval(a, b, Iterations)
      PROVE  b = a + 1
  <2>1. 2 ^ 0 = 1
    OBVIOUS
  <2>2. QED
    BY <1>1, <1>4, <2>1 DEF Interval
<1>5. QED
  BY <1>2, <1>3, <1>4

LEMMA IntervalHalves ==
    ASSUME NEW a, NEW b, NEW i, Interval(a, b, i), i < Iterations
    PROVE  LET m == (a + b) \div 2 IN
           /\ m \in Nat /\ a < m /\ m < b
           /\ Interval(a, m, i + 1) /\ Interval(m, b, i + 1)
<1> DEFINE m == (a + b) \div 2
<1>1. /\ Iterations \in Nat /\ i \in Nat /\ i + 1 \in 0 .. Iterations
      /\ Iterations - (i + 1) \in Nat /\ Iterations - i = (Iterations - (i + 1)) + 1
  BY AnalyzerAssumption DEF Interval
<1>2. PICK h : h = 2 ^ (Iterations - (i + 1))
  OBVIOUS
<1>3. h \in Nat \ {0}
  BY <1>1, <1>2, PowerIs
<1>4. 2 ^ (Iterations - i) = 2 * h
  BY <1>1, <1>2, PowerNext
<1>5. a \in Nat /\ b \in Nat /\ b <= Whole /\ a + 2 * h = b
  BY <1>4 DEF Interval
<1>6. m = a + h
  BY <1>3, <1>5
<1> HIDE DEF m
<1>7. m \in Nat /\ a < m /\ m < b /\ a + h = m /\ m + h = b /\ m <= Whole
  BY <1>3, <1>5, <1>6, WholeIs
<1>8. Interval(a, m, i + 1) /\ Interval(m, b, i + 1)
  BY <1>1, <1>2, <1>5, <1>7 DEF Interval
<1>9. QED
  BY <1>7, <1>8 DEF m

-----------------------------------------------------------------------------
\* Attacks and masks

\* Up to 30 services, the loop visits every set of services but the empty one.
LEMMA AttacksAreMasks ==
    ASSUME NEW net, IsNetwork(net), net.size <= 30
    PROVE  /\ ShiftOne(net.size) = 2 ^ net.size
           /\ 2 ^ net.size \in Nat /\ 2 ^ net.size >= 2
           /\ Masks(net) = 1 .. (2 ^ net.size - 1)
           /\ \A T \in Attacks(net) : \E m \in Masks(net) : T = ServicesIn(net, m)
<1>1. net.size \in Nat \ {0}
  BY DEF IsNetwork
<1>2. PICK w : w = 2 ^ net.size
  OBVIOUS
<1>3. ShiftOne(net.size) = w
  BY <1>1, <1>2, ShiftOneIs
<1>4. w \in Nat /\ w >= 2
  <2>1. net.size - 1 \in Nat /\ net.size = (net.size - 1) + 1
    BY <1>1
  <2>2. w = 2 * 2 ^ (net.size - 1)
    BY <1>2, <2>1, PowerNext
  <2>3. 2 ^ (net.size - 1) \in Nat \ {0}
    BY <2>1, PowerIs
  <2>4. QED
    BY <2>2, <2>3
<1>5. Masks(net) = 1 .. (w - 1)
  BY <1>3, <1>4 DEF Masks
<1>6. ASSUME NEW T \in Attacks(net)
      PROVE  \E m \in Masks(net) : T = ServicesIn(net, m)
  <2>1. net.size \in Nat /\ T \in SUBSET (0 .. (net.size - 1)) /\ T # {}
    BY <1>1 DEF Attacks, ServicesOf
  <2>2. PICK m \in 0 .. (2 ^ net.size - 1) : T = {i \in 0 .. (net.size - 1) : InMask(m, i)}
    BY <2>1, MaskOfSet
  <2>3. m # 0
    <3>1. PICK i \in T : TRUE
      BY <2>1
    <3>2. i \in Nat /\ InMask(m, i)
      BY <2>1, <2>2, <3>1
    <3>3. QED
      BY <3>2, NoBits
  <2>4. m \in 1 .. (w - 1)
    BY <1>2, <1>4, <2>2, <2>3
  <2>5. T = ServicesIn(net, m)
    BY <2>2 DEF ServicesIn, ServicesOf
  <2>6. QED
    BY <1>5, <2>4, <2>5
<1>7. QED
  BY <1>2, <1>3, <1>4, <1>5, <1>6

LEMMA MarginOf ==
    ASSUME NEW net, IsNetwork(net), NEW m
    PROVE  /\ Margin(net, m) \in Int
           /\ Margin(net, m) = StakeAtRisk(net, ServicesIn(net, m)) - PrizeOf(net, ServicesIn(net, m))
           /\ Margin(net, m) < 0 <=> Profitable(net, ServicesIn(net, m))
           /\ Profitable(net, ServicesIn(net, m)) => ServicesIn(net, m) \in Attacks(net)
<1> DEFINE T == ServicesIn(net, m)
<1>1. /\ AttackCost(net, m) = StakeAtRisk(net, T) /\ AttackPrize(net, m) = PrizeOf(net, T)
      /\ AttackCost(net, m) \in Nat /\ AttackPrize(net, m) \in Nat
      /\ T = {} => AttackPrize(net, m) = 0
  BY AttackIs
<1>2. T \in SUBSET ServicesOf(net)
  BY DEF ServicesIn
<1> HIDE DEF T
<1>3. Margin(net, m) \in Int /\ Margin(net, m) = StakeAtRisk(net, T) - PrizeOf(net, T)
  BY <1>1 DEF Margin
<1>4. Margin(net, m) < 0 <=> Profitable(net, T)
  BY <1>1, <1>3 DEF Profitable
<1>5. Profitable(net, T) => T # {}
  BY <1>1 DEF Profitable
<1>6. QED
  BY <1>2, <1>3, <1>4, <1>5 DEF T, Attacks

-----------------------------------------------------------------------------
\* Types

FigureOf(p, d) ==
    [figure4 |-> Figure4Points(AtDegree(p, d)), figure5 |-> Figure5Point(AtDegree(p, d)),
     figure6 |-> Figure6Point(AtDegree(p, d))]

\* What the searches have in hand.
TypeInv ==
    /\ Inputs
    /\ phase \in {"subsets", "budget", "degrees", "stakes", "done"}
    /\ mask \in 1 .. (2 ^ network.size)
    /\ worst.subset \in 0 .. (mask - 1)
    /\ Interval(low, high, iter)
    /\ robust \in BOOLEAN
    /\ figures \in Seq({FigureOf(params, d) : d \in Nat})
    /\ degree = Len(figures) + 1
    /\ minStake \in Seq(1 .. Whole)
    /\ phase \in {"degrees", "stakes"} => params # NoParameters
    /\ params = NoParameters => minStake = <<>>
    /\ phase \in {"subsets", "budget", "degrees"} => minStake = <<>>
    /\ phase = "stakes" => Len(minStake) < params.S
    /\ params # NoParameters => Len(minStake) <= params.S /\ degree <= params.S + 1

LEMMA TypeInit == Init => TypeInv
<1> SUFFICES ASSUME Init
             PROVE  TypeInv
  OBVIOUS
<1>1. Inputs
  BY DEF Init, Inputs
<1>2. mask \in 1 .. (2 ^ network.size) /\ worst.subset \in 0 .. (mask - 1)
  <2>1. network.size \in Nat
    BY <1>1, InputsAre
  <2>2. 2 ^ network.size \in Nat \ {0}
    BY <2>1, PowerIs
  <2>3. QED
    BY <2>2 DEF Init
<1>3. Interval(low, high, iter)
  BY IntervalIs DEF Init
<1>4. /\ figures \in Seq({FigureOf(params, d) : d \in Nat}) /\ Len(figures) = 0
      /\ minStake \in Seq(1 .. Whole) /\ Len(minStake) = 0
  BY DEF Init
<1>5. params # NoParameters => params.S \in Nat \ {0}
  BY <1>1, InputsAre DEF Symmetric
<1>6. QED
  BY <1>1, <1>2, <1>3, <1>4, <1>5 DEF TypeInv, Init

LEMMA TypeStep == TypeInv /\ [Next]_vars => TypeInv'
<1> SUFFICES ASSUME TypeInv, [Next]_vars
             PROVE  TypeInv'
  OBVIOUS
<1>1. /\ IsNetwork(network) /\ network.size \in Nat \ {0}
      /\ params # NoParameters => params.S \in Nat \ {0}
  BY InputsAre DEF TypeInv, Symmetric
<1>2. CASE CheckSubset
  <2>1. mask' = mask + 1 /\ mask < ShiftOne(network.size)
    BY <1>2 DEF CheckSubset
  <2>2. /\ ShiftOne(network.size) \in Int /\ ShiftOne(network.size) <= 2 ^ network.size
        /\ 2 ^ network.size \in Nat
    BY <1>1, ShiftOneIs, PowerIs
  <2>3. mask' \in 1 .. (2 ^ network.size)
    BY <2>1, <2>2 DEF TypeInv
  <2>4. worst'.subset \in 0 .. (mask' - 1)
    <3>1. mask \in Nat \ {0} /\ worst.subset \in 0 .. (mask - 1)
      BY <2>2 DEF TypeInv
    <3>2. worst'.subset = mask \/ worst' = worst
      BY <1>2 DEF CheckSubset
    <3>3. QED
      BY <2>1, <3>1, <3>2
  <2>5. QED
    BY <1>2, <2>3, <2>4 DEF CheckSubset, TypeInv, Inputs, inputs, bisection, sweepVars, Interval
<1>3. CASE SubsetsChecked
  BY <1>3 DEF SubsetsChecked, TypeInv, Inputs, inputs, subsetVars, bisection, sweepVars, Interval
<1>4. ASSUME iter < Iterations, iter' = iter + 1, NEW found, Bisect(found)
      PROVE  Interval(low', high', iter')
  <2>1. /\ Interval(low, Mid, iter + 1) /\ Interval(Mid, high, iter + 1)
    BY <1>4, IntervalHalves DEF TypeInv, Mid
  <2>2. QED
    BY <1>4, <2>1 DEF Bisect, Half
<1>5. CASE BisectBudget
  <2>1. Interval(low', high', iter')
    BY <1>4, <1>5 DEF BisectBudget
  <2>2. robust' \in BOOLEAN
    BY <1>5 DEF BisectBudget
  <2>3. QED
    BY <1>5, <2>1, <2>2 DEF BisectBudget, TypeInv, Inputs, inputs, subsetVars, sweepVars
<1>6. CASE BudgetFound
  BY <1>6 DEF BudgetFound, TypeInv, Inputs, inputs, subsetVars, bisection, sweepVars, Interval
<1>7. CASE SweepDegree
  <2>1. /\ figures' = Append(figures, FigureOf(params, degree))
        /\ degree' = degree + 1 /\ degree <= params.S /\ params' = params
        /\ phase = "degrees" /\ phase' = phase
    BY <1>7 DEF SweepDegree, FigureOf, inputs
  <2> DEFINE F == {FigureOf(params, d) : d \in Nat}
  <2>2. figures \in Seq(F) /\ Len(figures) \in Nat /\ degree = Len(figures) + 1
    BY DEF TypeInv
  <2>3. FigureOf(params, degree) \in F
    BY <2>2
  <2> HIDE DEF F
  <2>4. figures' \in Seq(F) /\ Len(figures') = Len(figures) + 1
    BY <2>1, <2>2, <2>3
  <2>5. figures' \in Seq({FigureOf(params', d) : d \in Nat})
    BY <2>1, <2>4 DEF F
  <2>6. params # NoParameters /\ params.S \in Nat
    BY <1>1, <2>1 DEF TypeInv
  <2>7. degree' = Len(figures') + 1 /\ degree' <= params.S + 1
    BY <2>1, <2>2, <2>4, <2>6
  <2>8. QED
    BY <1>7, <2>1, <2>5, <2>7
       DEF SweepDegree, TypeInv, Inputs, inputs, subsetVars, bisection, Interval
<1>8. CASE DegreesSwept
  <2>1. Interval(low', high', iter')
    BY <1>8, IntervalIs DEF DegreesSwept
  <2>2. minStake' = <<>> /\ Len(<<>>) = 0 /\ params # NoParameters
    BY <1>8 DEF DegreesSwept, TypeInv
  <2>3. Len(minStake') < params'.S
    BY <1>1, <1>8, <2>2 DEF DegreesSwept, inputs
  <2>4. QED
    BY <1>8, <2>1, <2>3 DEF DegreesSwept, TypeInv, Inputs, inputs, subsetVars, sweepVars
<1>9. CASE BisectStake
  <2>1. Interval(low', high', iter')
    BY <1>4, <1>9 DEF BisectStake
  <2>2. QED
    BY <1>9, <2>1 DEF BisectStake, TypeInv, Inputs, inputs, subsetVars, sweepVars
<1>10. CASE StakeFound
  <2>1. Interval(low', high', iter')
    BY <1>10, IntervalIs DEF StakeFound
  <2>2. high \in 1 .. Whole
    <3>1. low < high
      BY IntervalIs DEF TypeInv
    <3>2. QED
      BY <3>1, WholeIs DEF TypeInv, Interval
  <2>3. minStake \in Seq(1 .. Whole) /\ minStake' = Append(minStake, high)
    BY <1>10 DEF StakeFound, TypeInv
  <2>4. minStake' \in Seq(1 .. Whole) /\ Len(minStake') = Len(minStake) + 1 /\ Len(minStake) \in Nat
    BY <2>2, <2>3
  <2>5. params # NoParameters /\ Len(minStake) < params.S /\ params.S \in Nat
    BY <1>1, <1>10 DEF StakeFound, TypeInv
  <2>6. Len(minStake') <= params.S /\ (phase' = "stakes" => Len(minStake') < params.S)
    BY <1>10, <2>4, <2>5 DEF StakeFound
  <2>7. QED
    BY <1>10, <2>1, <2>4, <2>5, <2>6 DEF StakeFound, TypeInv, Inputs, inputs, subsetVars, sweepVars
<1>11. CASE UNCHANGED vars
  BY <1>11 DEF vars, TypeInv, Inputs, inputs, subsetVars, bisection, sweepVars, Interval
<1>12. QED
  BY <1>2, <1>3, <1>5, <1>6, <1>7, <1>8, <1>9, <1>10, <1>11 DEF Next

LEMMA TypeAlways == Spec => []TypeInv
<1>1. QED
  BY TypeInit, TypeStep, PTL DEF Spec

LEMMA TypeGives == TypeInv => TypeOK
<1>1. ASSUME TypeInv
      PROVE  low \in 0 .. Whole /\ high \in 0 .. Whole
  <2>1. low < high
    BY <1>1, IntervalIs DEF TypeInv
  <2>2. QED
    BY <1>1, <2>1, WholeIs DEF TypeInv, Interval
<1>2. QED
  BY <1>1 DEF TypeInv, TypeOK, Interval

(***************************************************************************)
(* The types, and with them that a bisection of analyzer/src/robustness.ts *)
(* or optimal-degree.ts halves its interval at each step and never leaves  *)
(* it, that the mask stops where 1 << services does, and that the sweep    *)
(* leaves one set of points per degree.                                    *)
(***************************************************************************)
THEOREM TypeCorrect == Spec => []TypeOK
<1>1. QED
  BY TypeAlways, TypeGives, PTL

-----------------------------------------------------------------------------
\* The subsets

\* The masks below the next one are accounted for.
SubsetsInv ==
    /\ phase # "subsets" => mask >= ShiftOne(network.size)
    /\ mask = 1 => worst.margin = NoMargin
    /\ mask > 1 =>
          /\ worst.margin = Margin(network, worst.subset)
          /\ \A m \in 1 .. (mask - 1) : worst.margin <= Margin(network, m)

LEMMA SubsetsInit == Init => SubsetsInv
BY DEF Init, SubsetsInv

LEMMA SubsetsStep == TypeInv /\ SubsetsInv /\ [Next]_vars => SubsetsInv'
<1> SUFFICES ASSUME TypeInv, SubsetsInv, [Next]_vars
             PROVE  SubsetsInv'
  OBVIOUS
<1>1. IsNetwork(network) /\ network.size \in Nat
  BY InputsAre DEF TypeInv
<1>2. mask \in Nat \ {0}
  <2>1. 2 ^ network.size \in Nat
    BY <1>1, PowerIs
  <2>2. QED
    BY <2>1 DEF TypeInv
<1>3. CASE CheckSubset
  <2> DEFINE margin == Margin(network, mask)
  <2>1. /\ worst' = IF Improves(margin, worst.margin)
                    THEN [subset |-> mask, margin |-> margin] ELSE worst
        /\ mask' = mask + 1 /\ network' = network /\ phase = "subsets" /\ phase' = phase
    BY <1>3 DEF CheckSubset, inputs
  <2>2. \A m : Margin(network, m) \in Int
    BY <1>1, MarginOf
  <2>3. margin \in Int /\ margin # NoMargin
    BY <2>2, AnalyzerAssumption
  <2>4. CASE mask = 1
    <3>1. worst.margin = NoMargin
      BY <2>4 DEF SubsetsInv
    <3>2. worst' = [subset |-> mask, margin |-> margin]
      BY <2>1, <3>1 DEF Improves
    <3>3. \A m \in 1 .. (mask' - 1) : m = mask
      BY <2>1, <2>4
    <3>4. worst'.margin = margin /\ worst'.subset = mask
      BY <3>2
    <3> HIDE DEF margin
    <3>5. \A m \in 1 .. (mask' - 1) : worst'.margin <= Margin(network', m)
      BY <2>1, <2>3, <3>3, <3>4 DEF margin
    <3>6. worst'.margin = Margin(network', worst'.subset)
      BY <2>1, <3>4 DEF margin
    <3>7. mask' # 1 /\ phase' = "subsets"
      BY <1>2, <2>1
    <3>8. QED
      BY <3>5, <3>6, <3>7 DEF SubsetsInv
  <2>5. CASE mask # 1
    <3>1. /\ worst.margin = Margin(network, worst.subset)
          /\ \A m \in 1 .. (mask - 1) : worst.margin <= Margin(network, m)
      BY <1>2, <2>5 DEF SubsetsInv
    <3>2. worst.margin \in Int
      BY <2>2, <3>1
    <3>3. worst.margin # NoMargin
      BY <3>2, AnalyzerAssumption
    <3> HIDE DEF margin
    <3>4. /\ worst'.margin = Margin(network, worst'.subset)
          /\ worst'.margin \in Int /\ worst'.margin <= worst.margin /\ worst'.margin <= margin
      <4>1. CASE margin < worst.margin
        <5>1. worst' = [subset |-> mask, margin |-> margin]
          BY <2>1, <4>1 DEF Improves
        <5>2. worst'.margin = margin /\ worst'.subset = mask
          BY <5>1
        <5>3. QED
          BY <2>3, <3>2, <4>1, <5>2 DEF margin
      <4>2. CASE ~(margin < worst.margin)
        <5>1. worst' = worst
          BY <2>1, <3>3, <4>2 DEF Improves
        <5>2. QED
          BY <2>3, <3>1, <3>2, <4>2, <5>1
      <4>3. QED
        BY <4>1, <4>2
    <3>5. ASSUME NEW m \in 1 .. (mask' - 1)
          PROVE  worst'.margin <= Margin(network', m)
      <4>1. CASE m = mask
        BY <2>1, <3>4, <4>1 DEF margin
      <4>2. CASE m # mask
        <5>1. m \in 1 .. (mask - 1)
          BY <1>2, <2>1, <4>2
        <5>2. worst.margin <= Margin(network, m) /\ Margin(network, m) \in Int
          BY <2>2, <3>1, <5>1
        <5>3. QED
          BY <2>1, <3>2, <3>4, <5>2
      <4>3. QED
        BY <4>1, <4>2
    <3>6. mask' # 1 /\ phase' = "subsets"
      BY <1>2, <2>1
    <3>7. worst'.margin = Margin(network', worst'.subset)
      BY <2>1, <3>4
    <3>8. QED
      BY <3>5, <3>6, <3>7 DEF SubsetsInv
  <2>6. QED
    BY <2>4, <2>5
<1>4. CASE SubsetsChecked
  BY <1>4 DEF SubsetsChecked, SubsetsInv, inputs, subsetVars
<1>5. CASE BisectBudget \/ BudgetFound \/ SweepDegree \/ DegreesSwept \/ BisectStake \/ StakeFound
  <2>1. phase # "subsets" /\ UNCHANGED <<network, mask, worst>>
    BY <1>5 DEF BisectBudget, BudgetFound, SweepDegree, DegreesSwept, BisectStake, StakeFound,
                inputs, subsetVars
  <2>2. QED
    BY <2>1 DEF SubsetsInv
<1>6. CASE UNCHANGED vars
  BY <1>6 DEF vars, SubsetsInv, inputs, subsetVars
<1>7. QED
  BY <1>3, <1>4, <1>5, <1>6 DEF Next

\* 1 << services overflows above: at 31 services the loop visits nothing.
Within30Services ==
    /\ \A net \in Networks : net.size <= 30
    /\ \A p \in Parameters : p.S <= 30

LEMMA SizeWithin30 ==
    ASSUME Within30Services, Inputs
    PROVE  network.size <= 30
BY DesignIsNetwork DEF Within30Services, Inputs

\* What the reported subset and its margin are once the loop is over.
LEMMA ReportedIsWorst ==
    ASSUME Within30Services, TypeInv, SubsetsInv, phase # "subsets"
    PROVE  /\ worst.margin \in Int /\ worst.margin = Margin(network, worst.subset)
           /\ NetworkSecure <=> worst.margin >= 0
           /\ \A T \in Attacks(network) :
                 worst.margin <= StakeAtRisk(network, T) - PrizeOf(network, T)
           /\ NetworkSecure <=> \A T \in Attacks(network) : ~Profitable(network, T)
<1>1. IsNetwork(network) /\ network.size <= 30
  BY InputsAre, SizeWithin30 DEF TypeInv
<1>2. PICK w : w = 2 ^ network.size
  OBVIOUS
<1>3. /\ ShiftOne(network.size) = w /\ w \in Nat /\ w >= 2
      /\ \A T \in Attacks(network) : \E m \in 1 .. (w - 1) : T = ServicesIn(network, m)
  BY <1>1, <1>2, AttacksAreMasks
<1>4. mask = w
  BY <1>2, <1>3 DEF TypeInv, SubsetsInv
<1>5. /\ worst.margin = Margin(network, worst.subset)
      /\ \A m \in 1 .. (w - 1) : worst.margin <= Margin(network, m)
  BY <1>3, <1>4 DEF SubsetsInv
<1>6. \A m : /\ Margin(network, m) \in Int
             /\ Margin(network, m) = StakeAtRisk(network, ServicesIn(network, m))
                                         - PrizeOf(network, ServicesIn(network, m))
             /\ Margin(network, m) < 0 <=> Profitable(network, ServicesIn(network, m))
             /\ Profitable(network, ServicesIn(network, m)) =>
                    ServicesIn(network, m) \in Attacks(network)
  BY <1>1, MarginOf
<1>7. worst.margin \in Int /\ worst.margin # NoMargin
  BY <1>5, <1>6, AnalyzerAssumption
<1>8. NetworkSecure <=> worst.margin >= 0
  BY <1>7 DEF NetworkSecure
<1>9. ASSUME NEW T \in Attacks(network)
      PROVE  /\ worst.margin <= StakeAtRisk(network, T) - PrizeOf(network, T)
             /\ Profitable(network, T) => worst.margin < 0
  <2>1. PICK m \in 1 .. (w - 1) : T = ServicesIn(network, m)
    BY <1>3
  <2>2. /\ Margin(network, m) \in Int /\ worst.margin <= Margin(network, m)
        /\ Margin(network, m) = StakeAtRisk(network, T) - PrizeOf(network, T)
        /\ Margin(network, m) < 0 <=> Profitable(network, T)
    BY <1>5, <1>6, <2>1
  <2>3. QED
    BY <1>7, <2>2
<1>10. ASSUME worst.margin < 0
       PROVE  \E T \in Attacks(network) : Profitable(network, T)
  BY <1>5, <1>6, <1>10
<1>11. QED
  BY <1>5, <1>7, <1>8, <1>9, <1>10

LEMMA VerdictGiven ==
    ASSUME Within30Services, TypeInv, SubsetsInv
    PROVE  VerdictIsExact
<1> SUFFICES ASSUME phase # "subsets"
             PROVE  /\ NetworkSecure <=> \A T \in Attacks(network) : ~Profitable(network, T)
                    /\ LET reported == {i \in ServicesOf(network) : InMask(worst.subset, i)} IN
                       \A T \in Attacks(network) :
                           StakeAtRisk(network, reported) - PrizeOf(network, reported)
                               <= StakeAtRisk(network, T) - PrizeOf(network, T)
                    /\ ~NetworkSecure => SecurityScore(network, worst.subset) = 0
  BY DEF VerdictIsExact
<1>1. IsNetwork(network)
  BY InputsAre DEF TypeInv
<1> DEFINE reported == ServicesIn(network, worst.subset)
<1>2. worst.margin = StakeAtRisk(network, reported) - PrizeOf(network, reported)
  BY <1>1, ReportedIsWorst, MarginOf
<1>3. \A T \in Attacks(network) :
         StakeAtRisk(network, reported) - PrizeOf(network, reported)
             <= StakeAtRisk(network, T) - PrizeOf(network, T)
  <2> HIDE DEF reported
  <2>1. QED
    BY <1>2, ReportedIsWorst
<1>4. ASSUME ~NetworkSecure
      PROVE  SecurityScore(network, worst.subset) = 0
  <2>1. PICK c, g : c = AttackCost(network, worst.subset) /\ g = AttackPrize(network, worst.subset)
    OBVIOUS
  <2>2. c \in Nat /\ g \in Nat
    BY <1>1, <2>1, AttackIs
  <2>3. c - g < 0
    BY <1>4, <2>1, ReportedIsWorst DEF Margin
  <2>4. SecurityScore(network, worst.subset) =
            IF g > 0 THEN Lesser(100 * g, Greater(0, (c - g) * 50)) ELSE 100
    BY <2>1 DEF SecurityScore
  <2>5. Greater(0, (c - g) * 50) = 0
    BY <2>2, <2>3 DEF Greater
  <2>6. Lesser(100 * g, 0) = 0
    BY <2>2, <2>3 DEF Lesser
  <2>7. QED
    BY <2>2, <2>3, <2>4, <2>5, <2>6
<1>5. QED
  BY <1>3, <1>4, ReportedIsWorst DEF ServicesIn

(***************************************************************************)
(* network-model.ts:124: with any network of up to 30 services, slashing   *)
(* one service of the mask after another, each time at most what is left,  *)
(* takes what the definition puts at risk in any order; the verdict is the *)
(* one over all sets of services and the subset reported is a worst one.   *)
(***************************************************************************)
THEOREM VerdictsAreExact ==
    ASSUME Within30Services
    PROVE  Spec => []VerdictIsExact
<1>1. TypeInv /\ SubsetsInv => VerdictIsExact
  BY VerdictGiven
<1>2. QED
  BY <1>1, TypeAlways, SubsetsInit, SubsetsStep, PTL DEF Spec

-----------------------------------------------------------------------------
\* The budget

\* The interval's ends, as far as they were tried.
BudgetInv ==
    /\ phase = "subsets" => low = 0 /\ high = Whole /\ iter = 0 /\ robust = TRUE
    /\ phase \in {"subsets", "budget"} =>
          /\ high = Whole \/ AttackPossible(network, high)
          /\ low = 0 \/ ~AttackPossible(network, low)
          /\ robust <=> high = Whole

LEMMA BudgetInit == Init => BudgetInv
BY DEF Init, BudgetInv

LEMMA BudgetStep == TypeInv /\ BudgetInv /\ [Next]_vars => BudgetInv'
<1> SUFFICES ASSUME TypeInv, BudgetInv, [Next]_vars
             PROVE  BudgetInv'
  OBVIOUS
<1>1. CASE CheckSubset \/ SubsetsChecked
  <2>1. /\ UNCHANGED <<network, low, high, iter, robust>>
        /\ phase = "subsets" /\ phase' \in {"subsets", "budget"}
    BY <1>1 DEF CheckSubset, SubsetsChecked, inputs, bisection
  <2>2. QED
    BY <2>1 DEF BudgetInv
<1>2. CASE BisectBudget
  <2> DEFINE found == AttackPossible(network, Mid)
  <2>1. /\ phase = "budget" /\ phase' = "budget" /\ network' = network
        /\ iter < Iterations /\ Bisect(found) /\ robust' = (robust /\ ~found)
    BY <1>2 DEF BisectBudget, inputs
  <2>2. low < Mid /\ Mid < high /\ Mid \in Nat /\ low \in Nat /\ high \in Nat /\ high <= Whole
    BY <2>1, IntervalHalves DEF TypeInv, Mid, Interval
  <2>3. /\ high = Whole \/ AttackPossible(network, high)
        /\ low = 0 \/ ~AttackPossible(network, low)
        /\ robust <=> high = Whole
    BY <2>1 DEF BudgetInv
  <2>4. CASE found
    <3>1. low' = low /\ high' = Mid /\ robust' = FALSE
      BY <2>1, <2>4 DEF Bisect, Half
    <3>2. AttackPossible(network, high')
      BY <2>4, <3>1
    <3>3. high' # Whole
      BY <2>2, <3>1, WholeIs
    <3> HIDE DEF found
    <3>4. QED
      BY <2>1, <2>3, <3>1, <3>2, <3>3 DEF BudgetInv
  <2>5. CASE ~found
    <3>1. low' = Mid /\ high' = high /\ (robust' <=> robust)
      BY <2>1, <2>5 DEF Bisect, Half
    <3>2. ~AttackPossible(network, low')
      BY <2>5, <3>1
    <3> HIDE DEF found
    <3>3. QED
      BY <2>1, <2>3, <3>1, <3>2 DEF BudgetInv
  <2>6. QED
    BY <2>4, <2>5
<1>3. CASE BudgetFound \/ SweepDegree \/ DegreesSwept \/ BisectStake \/ StakeFound
  <2>1. phase' \in {"degrees", "stakes", "done"}
    BY <1>3 DEF BudgetFound, SweepDegree, DegreesSwept, BisectStake, StakeFound
  <2>2. QED
    BY <2>1 DEF BudgetInv
<1>4. CASE UNCHANGED vars
  BY <1>4 DEF vars, inputs, bisection, BudgetInv
<1>5. QED
  BY <1>1, <1>2, <1>3, <1>4 DEF Next

\* The loop of canAttackWithBudget finds the affordable attacks, and more
\* budget pays for no fewer.
LEMMA PossibleIs ==
    ASSUME NEW net, IsNetwork(net), net.size <= 30, NEW b \in Nat
    PROVE  /\ AttackPossible(net, b) <=>
                  \E T \in Attacks(net) : Profitable(net, T) /\ Affordable(net, T, b)
           /\ \A c \in Nat : AttackPossible(net, b) /\ b <= c => AttackPossible(net, c)
<1> DEFINE t == TotalStake(net)
<1>1. t \in Nat
  BY TotalNat DEF IsNetwork, TotalStake
<1>2. /\ \A T \in Attacks(net) : \E m \in Masks(net) : T = ServicesIn(net, m)
  BY AttacksAreMasks
<1>3. \A m : /\ AttackCost(net, m) = StakeAtRisk(net, ServicesIn(net, m))
             /\ AttackPrize(net, m) = PrizeOf(net, ServicesIn(net, m))
             /\ AttackCost(net, m) \in Nat /\ AttackPrize(net, m) \in Nat
             /\ Profitable(net, ServicesIn(net, m)) => ServicesIn(net, m) \in Attacks(net)
  BY AttackIs, MarginOf
<1>4. \A m : (/\ AttackCost(net, m) * Whole <= b * t
              /\ AttackPrize(net, m) > AttackCost(net, m))
          <=> Profitable(net, ServicesIn(net, m)) /\ Affordable(net, ServicesIn(net, m), b)
  BY <1>3 DEF Profitable, Affordable
<1>5. ASSUME AttackPossible(net, b)
      PROVE  \E T \in Attacks(net) : Profitable(net, T) /\ Affordable(net, T, b)
  BY <1>3, <1>4, <1>5 DEF AttackPossible
<1>6. ASSUME NEW T \in Attacks(net), Profitable(net, T), Affordable(net, T, b)
      PROVE  AttackPossible(net, b)
  <2>1. PICK m \in Masks(net) : T = ServicesIn(net, m)
    BY <1>2
  <2>2. QED
    BY <1>4, <1>6, <2>1 DEF AttackPossible
<1>7. ASSUME NEW c \in Nat, AttackPossible(net, b), b <= c
      PROVE  AttackPossible(net, c)
  <2>1. PICK m \in Masks(net) : /\ AttackCost(net, m) * Whole <= b * t
                                /\ AttackPrize(net, m) > AttackCost(net, m)
    BY <1>7 DEF AttackPossible
  <2>2. b * t <= c * t
    BY <1>1, <1>7, ProductMonotone
  <2>3. AttackCost(net, m) * Whole \in Nat /\ b * t \in Nat /\ c * t \in Nat
    <3>1. \A x, y \in Nat : x * y \in Nat
      OBVIOUS
    <3> HIDE DEF t
    <3>2. QED
      BY <1>1, <1>3, <3>1, WholeIs
  <2>4. AttackCost(net, m) * Whole <= c * t
    <3> HIDE DEF t
    <3>1. QED
      BY <2>1, <2>2, <2>3
  <2>5. QED
    BY <2>1, <2>4 DEF AttackPossible
<1>8. QED
  BY <1>5, <1>6, <1>7

LEMMA BudgetGiven ==
    ASSUME Within30Services, TypeInv, SubsetsInv, BudgetInv
    PROVE  BudgetIsLeast
<1> SUFFICES ASSUME BudgetSearched
             PROVE  /\ \A b \in 1 .. (Whole - 1) :
                           b >= high <=> \E T \in Attacks(network) :
                                             Profitable(network, T) /\ Affordable(network, T, b)
                    /\ robust <=> high = Whole
                    /\ NetworkSecure => robust
                    /\ robust => \A T \in Attacks(network) :
                          Profitable(network, T) => ~Affordable(network, T, Whole - 1)
  BY DEF BudgetIsLeast
<1> DEFINE Pays(b) == \E T \in Attacks(network) :
                         Profitable(network, T) /\ Affordable(network, T, b)
<1>1. IsNetwork(network) /\ network.size <= 30
  BY InputsAre, SizeWithin30 DEF TypeInv
<1>2. /\ high = Whole \/ AttackPossible(network, high)
      /\ low = 0 \/ ~AttackPossible(network, low)
      /\ robust <=> high = Whole
  BY DEF BudgetSearched, BudgetInv
<1>3. high = low + 1 /\ low \in Nat /\ high \in Nat /\ high <= Whole
  <2>1. Interval(low, high, Iterations)
    BY DEF TypeInv, BudgetSearched
  <2>2. QED
    BY <2>1, IntervalIs DEF Interval
<1>4. Whole \in Nat /\ Whole >= 2
  BY WholeIs
<1>5. \A b \in Nat : /\ AttackPossible(network, b) <=> Pays(b)
                     /\ \A c \in Nat : AttackPossible(network, b) /\ b <= c
                                           => AttackPossible(network, c)
  BY <1>1, PossibleIs
<1> HIDE DEF Pays
<1>6. ASSUME NEW b \in 1 .. (Whole - 1)
      PROVE  b >= high <=> Pays(b)
  <2>1. b \in Nat /\ b < Whole /\ b >= 1
    BY <1>4
  <2>2. ASSUME b >= high
        PROVE  Pays(b)
    <3>1. high # Whole
      BY <1>3, <1>4, <2>1, <2>2
    <3>2. AttackPossible(network, high)
      BY <1>2, <3>1
    <3>3. QED
      BY <1>3, <1>5, <2>1, <2>2, <3>2
  <2>3. ASSUME ~(b >= high)
        PROVE  ~Pays(b)
    <3>1. b <= low /\ low # 0
      BY <1>3, <2>1, <2>3
    <3>2. ~AttackPossible(network, low)
      BY <1>2, <3>1
    <3>3. QED
      BY <1>3, <1>5, <2>1, <3>1, <3>2
  <2>4. QED
    BY <2>2, <2>3
<1>7. ASSUME NetworkSecure
      PROVE  robust
  <2>1. \A T \in Attacks(network) : ~Profitable(network, T)
    BY <1>7, ReportedIsWorst DEF BudgetSearched
  <2>2. ~Pays(high)
    BY <2>1 DEF Pays
  <2>3. QED
    BY <1>2, <1>3, <1>5, <2>2
<1>8. ASSUME robust
      PROVE  ~Pays(Whole - 1)
  <2>1. high = Whole
    BY <1>2, <1>8
  <2>2. low = Whole - 1 /\ low # 0
    BY <1>3, <1>4, <2>1
  <2>3. QED
    BY <1>2, <1>3, <1>5, <2>2
<1>9. QED
  BY <1>2, <1>6, <1>7, <1>8 DEF Pays

(***************************************************************************)
(* robustness.ts:37: with any network of up to 30 services and any number  *)
(* of iterations, the bisection ends on the least budget that pays for a   *)
(* profitable attack, and the flag "robust" agrees with it and with the    *)
(* verdict.  What makes it right is that an attack a budget pays for, a    *)
(* larger one pays for as well.                                            *)
(***************************************************************************)
THEOREM BudgetsAreLeast ==
    ASSUME Within30Services
    PROVE  Spec => []BudgetIsLeast
<1>1. TypeInv /\ SubsetsInv /\ BudgetInv => BudgetIsLeast
  BY BudgetGiven
<1>2. QED
  BY <1>1, TypeAlways, SubsetsInit, SubsetsStep, BudgetInit, BudgetStep, PTL DEF Spec

-----------------------------------------------------------------------------
\* The degrees

IsRatio(x) == x.num \in Nat /\ x.den \in Nat \ {0}

LEMMA RatioOrder ==
    ASSUME NEW x, NEW y, NEW z, IsRatio(x), IsRatio(y), IsRatio(z)
    PROVE  /\ AtLeast(x, x)
           /\ Above(x, y) <=> ~AtLeast(y, x)
           /\ Above(x, y) => AtLeast(x, y)
           /\ AtLeast(x, y) /\ AtLeast(y, z) => AtLeast(x, z)
<1>1. \A a, b \in Nat : a * b \in Nat
  OBVIOUS
<1>2. x.num * y.den \in Nat /\ y.num * x.den \in Nat /\ x.num * x.den \in Nat
  BY <1>1 DEF IsRatio
<1>3. AtLeast(x, x) /\ (Above(x, y) <=> ~AtLeast(y, x)) /\ (Above(x, y) => AtLeast(x, y))
  BY <1>2 DEF AtLeast, Above
<1>4. ASSUME AtLeast(x, y), AtLeast(y, z)
      PROVE  AtLeast(x, z)
  <2>1. PICK a, b, c, k, l, m : /\ a = x.num /\ b = y.num /\ c = z.num
                                /\ k = x.den /\ l = y.den /\ m = z.den
    OBVIOUS
  <2>2. /\ a \in Int /\ b \in Int /\ c \in Int
        /\ k \in Nat \ {0} /\ l \in Nat \ {0} /\ m \in Nat \ {0}
    BY <2>1 DEF IsRatio
  <2>3. a * l >= b * k /\ b * m >= c * l
    BY <1>4, <2>1 DEF AtLeast
  <2>4. a * m >= c * k
    BY <2>2, <2>3, RatioTransitive
  <2>5. QED
    BY <2>1, <2>4 DEF AtLeast
<1>5. QED
  BY <1>3, <1>4

CostAt(d) == MinAttackCost(AtDegree(params, d))

LEMMA CostAtIs ==
    ASSUME TypeInv, params # NoParameters, NEW d \in Nat \ {0}
    PROVE  IsRatio(CostAt(d))
<1>1. AtDegree(params, d) \in Symmetric
  BY InputsAre, DegreeFields DEF TypeInv
<1>2. QED
  BY <1>1, CostIs DEF CostAt, IsRatio

\* The first best of the degrees seen.
BestInv ==
    params # NoParameters =>
        /\ degree = 1 => best.robustness = NoMargin
        /\ degree > 1 => /\ best.degree \in 1 .. (degree - 1)
                         /\ best.robustness = CostAt(best.degree)
        /\ \A d \in 1 .. (degree - 1) :
              /\ AtLeast(best.robustness, CostAt(d))
              /\ d < best.degree => Above(best.robustness, CostAt(d))

LEMMA BestInit == Init => BestInv
BY DEF Init, BestInv

LEMMA BestStep == TypeInv /\ BestInv /\ [Next]_vars => BestInv'
<1> SUFFICES ASSUME TypeInv, BestInv, [Next]_vars, params' # NoParameters
             PROVE  BestInv'
  BY DEF BestInv
<1>1. CASE SweepDegree
  <2>1. PICK r : r = CostAt(degree)
    OBVIOUS
  <2>2. /\ params' = params /\ degree' = degree + 1
        /\ best' = IF BetterDegree(r) THEN [degree |-> degree, robustness |-> r] ELSE best
    BY <1>1, <2>1 DEF SweepDegree, inputs, CostAt
  <2>3. degree \in Nat \ {0} /\ params # NoParameters
    <3>1. Len(figures) \in Nat
      BY DEF TypeInv
    <3>2. QED
      BY <2>2, <3>1 DEF TypeInv
  <2>4. \A d \in Nat \ {0} : IsRatio(CostAt(d))
    BY <2>3, CostAtIs
  <2>6. /\ degree = 1 => best.robustness = NoMargin
        /\ degree > 1 => /\ best.degree \in 1 .. (degree - 1)
                         /\ best.robustness = CostAt(best.degree)
        /\ \A d \in 1 .. (degree - 1) :
              /\ AtLeast(best.robustness, CostAt(d))
              /\ d < best.degree => Above(best.robustness, CostAt(d))
    BY <2>3 DEF BestInv
  <2>7. /\ best'.degree \in 1 .. degree /\ best'.robustness = CostAt(best'.degree)
        /\ \A d \in 1 .. degree :
              /\ AtLeast(best'.robustness, CostAt(d))
              /\ d < best'.degree => Above(best'.robustness, CostAt(d))
    <3>1. CASE BetterDegree(r)
      <4>1. best' = [degree |-> degree, robustness |-> r]
        BY <2>2, <3>1
      <4>2. best'.degree = degree /\ best'.robustness = r
        BY <4>1
      <4>3. ASSUME NEW d \in 1 .. degree, d # degree
            PROVE  Above(r, CostAt(d))
        <5>1. d \in 1 .. (degree - 1) /\ degree > 1
          BY <2>3, <4>3
        <5>2. best.degree \in Nat \ {0} /\ best.robustness = CostAt(best.degree)
          BY <2>3, <2>6, <5>1
        <5>3. IsRatio(best.robustness) /\ IsRatio(r) /\ IsRatio(CostAt(d)) /\ d \in Nat \ {0}
          BY <2>1, <2>3, <2>4, <5>1, <5>2
        <5>4. best.robustness # NoMargin
          <6>1. best.robustness = [num |-> best.robustness.num, den |-> best.robustness.den]
            BY <5>2 DEF CostAt, MinAttackCost
          <6>2. best.robustness \in [num : Int, den : Int]
            BY <5>3, <6>1 DEF IsRatio
          <6>3. QED
            BY <6>2, AnalyzerAssumption
        <5>5. Above(r, best.robustness) /\ AtLeast(best.robustness, CostAt(d))
          BY <2>6, <3>1, <5>1, <5>4 DEF BetterDegree
        <5>6. ~AtLeast(best.robustness, r)
          BY <5>3, <5>5, RatioOrder
        <5>7. ~AtLeast(CostAt(d), r)
          BY <5>3, <5>5, <5>6, RatioOrder
        <5>8. QED
          BY <5>3, <5>7, RatioOrder
      <4>4. ASSUME NEW d \in 1 .. degree
            PROVE  AtLeast(r, CostAt(d))
        <5>1. IsRatio(r) /\ IsRatio(CostAt(d))
          BY <2>1, <2>3, <2>4
        <5>2. CASE d = degree
          BY <2>1, <5>1, <5>2, RatioOrder
        <5>3. CASE d # degree
          BY <4>3, <5>1, <5>3, RatioOrder
        <5>4. QED
          BY <5>2, <5>3
      <4>5. QED
        BY <2>1, <2>3, <4>2, <4>3, <4>4
    <3>2. CASE ~BetterDegree(r)
      <4>1. best' = best
        BY <2>2, <3>2
      <4>2. best.robustness # NoMargin /\ ~Above(r, best.robustness) /\ degree > 1
        BY <2>3, <2>6, <3>2 DEF BetterDegree
      <4>3. best.degree \in 1 .. (degree - 1) /\ best.robustness = CostAt(best.degree)
        BY <2>6, <4>2
      <4>4. IsRatio(best.robustness) /\ IsRatio(r)
        BY <2>1, <2>3, <2>4, <4>3
      <4>5. AtLeast(best.robustness, r)
        BY <4>2, <4>4, RatioOrder
      <4>6. \A d \in 1 .. degree : d = degree \/ d \in 1 .. (degree - 1)
        BY <2>3
      <4>7. QED
        BY <2>1, <2>3, <2>6, <4>1, <4>3, <4>5, <4>6
    <3>3. QED
      BY <3>1, <3>2
  <2>8. degree' - 1 = degree /\ degree' > 1
    BY <2>2, <2>3
  <2>9. QED
    BY <2>2, <2>7, <2>8 DEF BestInv, CostAt
<1>2. CASE UNCHANGED <<params, degree, best>>
  BY <1>2 DEF BestInv, CostAt
<1>3. \/ SweepDegree \/ UNCHANGED <<params, degree, best>>
  BY DEF Next, CheckSubset, SubsetsChecked, BisectBudget, BudgetFound, DegreesSwept, BisectStake,
         StakeFound, vars, inputs, sweepVars
<1>4. QED
  BY <1>1, <1>2, <1>3

\* The points of each degree swept.
FiguresInv ==
    \A d \in 1 .. (degree - 1) : figures[d] = FigureOf(params, d)

LEMMA FiguresInit == Init => FiguresInv
BY DEF Init, FiguresInv

LEMMA FiguresStep == TypeInv /\ FiguresInv /\ [Next]_vars => FiguresInv'
<1> SUFFICES ASSUME TypeInv, FiguresInv, [Next]_vars
             PROVE  FiguresInv'
  OBVIOUS
<1>1. CASE SweepDegree
  <2>1. PICK e : e = FigureOf(params, degree)
    OBVIOUS
  <2>2. figures' = Append(figures, e) /\ degree' = degree + 1 /\ params' = params
    BY <1>1, <2>1 DEF SweepDegree, FigureOf, inputs
  <2> DEFINE F == {FigureOf(params, d) : d \in Nat}
  <2>3. figures \in Seq(F) /\ Len(figures) \in Nat /\ degree = Len(figures) + 1
    BY DEF TypeInv
  <2>4. e \in F
    BY <2>1, <2>3
  <2> HIDE DEF F
  <2>5. ASSUME NEW d \in 1 .. (degree' - 1)
        PROVE  figures'[d] = FigureOf(params, d)
    <3>1. CASE d = degree
      BY <2>1, <2>2, <2>3, <2>4, <3>1
    <3>2. CASE d # degree
      <4>1. d \in 1 .. Len(figures) /\ d \in 1 .. (degree - 1)
        BY <2>2, <2>3, <3>2
      <4>2. figures'[d] = figures[d]
        BY <2>2, <2>3, <2>4, <4>1
      <4>3. QED
        BY <4>1, <4>2 DEF FiguresInv
    <3>3. QED
      BY <3>1, <3>2
  <2>6. QED
    BY <2>2, <2>5 DEF FiguresInv
<1>2. CASE UNCHANGED <<params, degree, figures>>
  BY <1>2 DEF FiguresInv
<1>3. \/ SweepDegree \/ UNCHANGED <<params, degree, figures>>
  BY DEF Next, CheckSubset, SubsetsChecked, BisectBudget, BudgetFound, DegreesSwept, BisectStake,
         StakeFound, vars, inputs, sweepVars
<1>4. QED
  BY <1>1, <1>2, <1>3

\* A better cost is a better point of figures 4 and 5.
LEMMA PointsFollow ==
    ASSUME NEW p \in Symmetric, NEW q \in Symmetric, p.n = q.n, p.sigma = q.sigma,
           AtLeast(MinAttackCost(q), MinAttackCost(p))
    PROVE  /\ AtLeast(Figure5Point(q), Figure5Point(p))
           /\ \A step \in 1 .. 20 : AtLeast(Figure4Points(q)[step], Figure4Points(p)[step])
<1>1. PICK a, b, k, l, t, u : /\ a = MinAttackCost(p).num /\ k = MinAttackCost(p).den
                              /\ b = MinAttackCost(q).num /\ l = MinAttackCost(q).den
                              /\ t = p.n /\ u = p.sigma
  OBVIOUS
<1>2. /\ a \in Nat /\ b \in Nat /\ k \in Nat \ {0} /\ l \in Nat \ {0}
      /\ t \in Nat \ {0} /\ u \in Nat
      /\ u = 0 => a = 0 /\ b = 0
  <2>1. /\ a \in Nat /\ b \in Nat /\ k \in Nat \ {0} /\ l \in Nat \ {0}
        /\ a = ValidatorsHit(p, WorstSize(p)) * u /\ b = ValidatorsHit(q, WorstSize(q)) * u
    BY <1>1, CostIs
  <2>2. t \in Nat \ {0} /\ u \in Nat
    BY <1>1 DEF Symmetric
  <2>3. /\ ValidatorsHit(p, WorstSize(p)) \in Nat /\ ValidatorsHit(q, WorstSize(q)) \in Nat
    BY WorstIs, HitBounds
  <2>4. u = 0 => a = 0 /\ b = 0
    BY <2>1, <2>3
  <2>5. QED
    BY <2>1, <2>2, <2>4
<1>3. b * k >= a * l
  BY <1>1 DEF AtLeast
<1>4. PICK s : s = t * u
  OBVIOUS
<1>5. s \in Nat /\ (s = 0 => a = 0 /\ b = 0)
  BY <1>2, <1>4
<1>6. AtLeast(Figure5Point(q), Figure5Point(p))
  <2>1. /\ Figure5Point(p).num = a /\ Figure5Point(p).den = k * t * u
        /\ Figure5Point(q).num = b /\ Figure5Point(q).den = l * t * u
    BY <1>1 DEF Figure5Point, OfTotalStake, MinAttackCost
  <2>2. (a * l) * s <= (b * k) * s
    <3>1. a * l \in Int /\ b * k \in Int
      BY <1>2
    <3>2. QED
      BY <1>3, <1>5, <3>1, ProductMonotone
  <2>3. (a * l) * s = a * (l * t * u) /\ (b * k) * s = b * (k * t * u)
    BY <1>2, <1>4
  <2>4. a * (l * t * u) <= b * (k * t * u)
    BY <2>2, <2>3
  <2>5. QED
    BY <2>1, <2>4 DEF AtLeast
<1>7. ASSUME NEW step \in 1 .. 20
      PROVE  AtLeast(Figure4Points(q)[step], Figure4Points(p)[step])
  <2> DEFINE one == [num |-> 1, den |-> 1]
             beta(c, m) == [num |-> 20 * c, den |-> step * m * t * u]
             capped(x) == IF Above(x, one) THEN one ELSE x
  <2>1. /\ Figure4Points(p)[step] = capped(beta(a, k))
        /\ Figure4Points(q)[step] = capped(beta(b, l))
    BY <1>1 DEF Figure4Points, OfTotalStake
  <2>2. PICK x, y, v, w : /\ x = 20 * a /\ y = 20 * b
                          /\ v = step * k * t * u /\ w = step * l * t * u
    OBVIOUS
  <2>3. /\ x \in Nat /\ y \in Nat /\ v \in Nat /\ w \in Nat
        /\ v = (step * k) * s /\ w = (step * l) * s
    BY <1>2, <1>4, <1>5, <2>2
  <2>4. x * w <= y * v
    <3>1. PICK c : c = 20 * (step * s)
      OBVIOUS
    <3>2. c \in Nat
      BY <1>5, <3>1
    <3>3. (a * l) * c <= (b * k) * c
      <4>1. a * l \in Int /\ b * k \in Int
        BY <1>2
      <4>2. QED
        BY <1>3, <3>2, <4>1, ProductMonotone
    <3>4. (a * l) * c = x * w /\ (b * k) * c = y * v
      BY <1>2, <1>5, <2>2, <2>3, <3>1
    <3>5. QED
      BY <3>3, <3>4
  <2>5. (v = 0 => x = 0) /\ (w = 0 => y = 0)
    <3>1. \A m, n \in Nat : m # 0 /\ n # 0 => m * n # 0
      OBVIOUS
    <3>2. step * k \in Nat /\ step * l \in Nat /\ step * k # 0 /\ step * l # 0
      BY <1>2, <3>1
    <3>3. (v = 0 \/ w = 0) => s = 0
      BY <1>5, <2>3, <3>1, <3>2
    <3>4. QED
      BY <1>5, <2>2, <3>3
  <2>6. CASE y > w
    <3>1. Figure4Points(q)[step] = one
      BY <2>1, <2>2, <2>6, <2>3 DEF Above
    <3>2. CASE x > v
      <4>1. Figure4Points(p)[step] = one
        BY <2>1, <2>2, <2>3, <3>2 DEF Above
      <4>2. QED
        BY <3>1, <4>1 DEF AtLeast
    <3>3. CASE ~(x > v)
      <4>1. Figure4Points(p)[step] = [num |-> x, den |-> v]
        BY <2>1, <2>2, <2>3, <3>3 DEF Above
      <4>2. QED
        BY <2>3, <3>1, <3>3, <4>1 DEF AtLeast
    <3>4. QED
      BY <3>2, <3>3
  <2>7. CASE ~(y > w)
    <3>1. Figure4Points(q)[step] = [num |-> y, den |-> w]
      BY <2>1, <2>2, <2>3, <2>7 DEF Above
    <3>2. ~(x > v)
      <4>1. SUFFICES ASSUME x > v
                     PROVE  FALSE
        OBVIOUS
      <4>2. w # 0 \/ y = 0
        BY <2>5
      <4>3. v # 0
        BY <2>3, <2>5, <4>1
      <4>4. w # 0
        <5>1. SUFFICES ASSUME w = 0
                       PROVE  FALSE
          OBVIOUS
        <5>2. (step * l) * s = 0 /\ (step * k) * s # 0
          BY <2>3, <4>3, <5>1
        <5>3. s # 0 /\ step * l \in Nat \ {0}
          BY <1>2, <1>5, <5>2
        <5>4. QED
          BY <1>5, <5>2, <5>3
      <4>5. y * v <= w * v
        BY <2>3, <2>7, ProductMonotone
      <4>6. (v + 1) * w <= x * w
        BY <2>3, <4>1, ProductMonotone
      <4>7. (v + 1) * w = w * v + w
        BY <2>3
      <4>8. x * w \in Nat /\ y * v \in Nat /\ w * v \in Nat
        BY <2>3
      <4>9. QED
        BY <2>3, <2>4, <4>4, <4>5, <4>6, <4>7, <4>8
    <3>3. Figure4Points(p)[step] = [num |-> x, den |-> v]
      BY <2>1, <2>2, <2>3, <3>2 DEF Above
    <3>4. QED
      BY <2>4, <3>1, <3>3 DEF AtLeast
  <2>8. QED
    BY <2>6, <2>7
<1>8. QED
  BY <1>6, <1>7

LEMMA BestGiven ==
    ASSUME TypeInv, BestInv, FiguresInv
    PROVE  BestIsFirst
<1> SUFFICES ASSUME params # NoParameters
             PROVE  /\ \A d \in 1 .. (degree - 1) :
                          LET r == MinAttackCost(AtDegree(params, d)) IN
                          /\ AtLeast(best.robustness, r)
                          /\ d < best.degree => Above(best.robustness, r)
                    /\ \A d \in 2 .. (degree - 1) :
                          /\ AtLeast(figures[d].figure5, figures[d - 1].figure5)
                          /\ \A step \in 1 .. 20 :
                                AtLeast(figures[d].figure4[step], figures[d - 1].figure4[step])
                    /\ \A d \in 1 .. (degree - 1) :
                          AtLeast(figures[d].figure6.withBase, figures[d].figure6.withoutBase)
  BY DEF BestIsFirst
<1>1. params \in Symmetric /\ params.S \in Nat
  BY InputsAre DEF TypeInv, Symmetric
<1>2. degree \in Nat /\ degree <= params.S + 1
  <2>1. Len(figures) \in Nat
    BY DEF TypeInv
  <2>2. QED
    BY <2>1 DEF TypeInv
<1>3. \A d \in 1 .. (degree - 1) : /\ AtLeast(best.robustness, MinAttackCost(AtDegree(params, d)))
                                   /\ d < best.degree =>
                                         Above(best.robustness, MinAttackCost(AtDegree(params, d)))
  BY DEF BestInv, CostAt
<1>4. \A d \in 1 .. (degree - 1) :
         /\ figures[d].figure4 = Figure4Points(AtDegree(params, d))
         /\ figures[d].figure5 = Figure5Point(AtDegree(params, d))
         /\ figures[d].figure6 = Figure6Point(AtDegree(params, d))
  <2>1. ASSUME NEW d \in 1 .. (degree - 1)
        PROVE  figures[d] = FigureOf(params, d)
    BY DEF FiguresInv
  <2>2. \A d : /\ FigureOf(params, d).figure4 = Figure4Points(AtDegree(params, d))
               /\ FigureOf(params, d).figure5 = Figure5Point(AtDegree(params, d))
               /\ FigureOf(params, d).figure6 = Figure6Point(AtDegree(params, d))
    BY DEF FigureOf
  <2>3. QED
    BY <2>1, <2>2
<1>5. ASSUME NEW d \in 2 .. (degree - 1)
      PROVE  /\ AtLeast(figures[d].figure5, figures[d - 1].figure5)
             /\ \A step \in 1 .. 20 :
                   AtLeast(figures[d].figure4[step], figures[d - 1].figure4[step])
  <2>1. PICK e : e = d - 1
    OBVIOUS
  <2>2. /\ e \in Nat \ {0} /\ d = e + 1 /\ e + 1 <= params.S
        /\ e \in 1 .. (degree - 1) /\ d \in 1 .. (degree - 1) /\ d \in Nat \ {0}
    BY <1>1, <1>2, <2>1
  <2>3. AtLeast(MinAttackCost(AtDegree(params, e + 1)), MinAttackCost(AtDegree(params, e)))
    BY <1>1, <2>2, CostGrows
  <2>4. PICK p, q : p = AtDegree(params, e) /\ q = AtDegree(params, d)
    OBVIOUS
  <2>5. /\ p \in Symmetric /\ q \in Symmetric /\ p.n = q.n /\ p.sigma = q.sigma
        /\ AtLeast(MinAttackCost(q), MinAttackCost(p))
    BY <1>1, <2>2, <2>3, <2>4, DegreeFields
  <2>6. /\ AtLeast(Figure5Point(q), Figure5Point(p))
        /\ \A step \in 1 .. 20 : AtLeast(Figure4Points(q)[step], Figure4Points(p)[step])
    BY <2>5, PointsFollow
  <2>7. QED
    BY <1>4, <2>1, <2>2, <2>4, <2>6
<1>6. ASSUME NEW d \in 1 .. (degree - 1)
      PROVE  AtLeast(figures[d].figure6.withBase, figures[d].figure6.withoutBase)
  <2>1. PICK p : p = AtDegree(params, d)
    OBVIOUS
  <2>2. d \in Nat \ {0} /\ d <= params.S
    BY <1>1, <1>2
  <2>3. p \in Symmetric /\ p.d <= p.S
    BY <1>1, <2>1, <2>2, DegreeFields
  <2>4. AtLeast(MinAttackCost(WithBase(p)), MinAttackCost(p))
    BY <2>3, BaseHelps
  <2>5. PICK a, b, k, l, s : /\ a = MinAttackCost(p).num /\ k = MinAttackCost(p).den
                             /\ b = MinAttackCost(WithBase(p)).num
                             /\ l = MinAttackCost(WithBase(p)).den
                             /\ s = p.n * p.sigma
    OBVIOUS
  <2>6. WithBase(p) \in Symmetric
    BY <2>3, BaseFields
  <2>7. a \in Nat /\ b \in Nat /\ k \in Nat /\ l \in Nat /\ p.n \in Nat /\ p.sigma \in Nat
    BY <2>3, <2>5, <2>6, CostIs DEF Symmetric
  <2>8. s \in Nat
    BY <2>5, <2>7
  <2>9. b * k >= a * l
    BY <2>4, <2>5 DEF AtLeast
  <2>10. (a * l) * s <= (b * k) * s
    <3>1. a * l \in Int /\ b * k \in Int
      BY <2>7
    <3>2. QED
      BY <2>8, <2>9, <3>1, ProductMonotone
  <2>11. /\ (a * l) * s = a * (l * p.n * p.sigma)
         /\ (b * k) * s = b * (k * p.n * p.sigma)
    <3>1. PICK t, u : t = p.n /\ u = p.sigma
      OBVIOUS
    <3>2. t \in Nat /\ u \in Nat /\ s = t * u
      BY <2>5, <2>7, <3>1
    <3>3. (a * l) * s = a * (l * t * u) /\ (b * k) * s = b * (k * t * u)
      BY <2>7, <3>2
    <3>4. QED
      BY <3>1, <3>3
  <2>12. a * (l * p.n * p.sigma) <= b * (k * p.n * p.sigma)
    BY <2>10, <2>11
  <2>13. /\ Figure6Point(p).withoutBase.num = a
         /\ Figure6Point(p).withoutBase.den = k * p.n * p.sigma
         /\ Figure6Point(p).withBase.num = b
         /\ Figure6Point(p).withBase.den = l * p.n * p.sigma
    BY <2>5 DEF Figure6Point, OfTotalStake, MinAttackCost
  <2>14. AtLeast(Figure6Point(p).withBase, Figure6Point(p).withoutBase)
    BY <2>12, <2>13 DEF AtLeast
  <2>15. QED
    BY <1>4, <2>1, <2>14
<1>7. QED
  BY <1>3, <1>5, <1>6

(***************************************************************************)
(* optimal-degree.ts:29: with any parameters, the degree reported is the   *)
(* first of the most robust ones, figures 4 and 5 never fall as the degree *)
(* grows, and the base service of figure 6 never lowers robustness.  The   *)
(* worst attack is on one service or on all of them, since the share of    *)
(* the validators that an attack misses is convex in its size; and what is *)
(* hit by the attack on one grows with the degree.                         *)
(***************************************************************************)
THEOREM DegreeIsFirst == Spec => []BestIsFirst
<1>1. TypeInv /\ BestInv /\ FiguresInv => BestIsFirst
  BY BestGiven
<1>2. QED
  BY <1>1, TypeAlways, BestInit, BestStep, FiguresInit, FiguresStep, PTL DEF Spec

-----------------------------------------------------------------------------
\* The stakes

\* x/Whole of the upper bound resists at degree d: the test of the bisection.
SecureAt(d, x) ==
    LET p == AtDegree(params, d) IN
    \A k \in 1 .. p.S :
        ValidatorsHit(p, k) * x * (p.pi * p.S * 10) >= k * p.pi * ScaleOf(p) * Whole

LEMMA SecureAtIs ==
    ASSUME TypeInv, params # NoParameters, NEW d \in Nat \ {0}, NEW x \in Nat
    PROVE  /\ \A y \in Nat : SecureAt(d, x) /\ x <= y => SecureAt(d, y)
           /\ d + 1 <= params.S /\ SecureAt(d, x) => SecureAt(d + 1, x)
           /\ SecureAt(d, Whole)
           /\ SecureAt(d, x) <=> SymmetricSecure([AtDegree(params, d) EXCEPT
                      !.sigma = x * 10 * params.S * params.pi, !.pi = @ * Whole])
<1>1. PICK p : p = AtDegree(params, d)
  OBVIOUS
<1>2. /\ params \in Symmetric /\ p \in Symmetric /\ Whole \in Nat
      /\ p.S = params.S /\ p.pi = params.pi /\ p.n = params.n
  BY <1>1, InputsAre, DegreeFields, WholeIs DEF TypeInv
<1>3. PICK pr, sz, sc, wh : pr = p.pi /\ sz = p.S /\ sc = ScaleOf(p) /\ wh = Whole
  OBVIOUS
<1>4. /\ pr \in Nat /\ sz \in Nat \ {0} /\ sc \in Nat \ {0} /\ wh \in Nat
      /\ params.S = sz /\ params.pi = pr
  BY <1>2, <1>3, ScalePositive DEF Symmetric
<1>5. \A k \in 1 .. sz : ValidatorsHit(p, k) \in Nat
  BY <1>2, <1>3, HitBounds
<1>6. \A y : SecureAt(d, y) <=>
         \A k \in 1 .. sz : ValidatorsHit(p, k) * y * (pr * sz * 10) >= k * pr * sc * wh
  BY <1>1, <1>3 DEF SecureAt
<1>7. ASSUME NEW y \in Nat, SecureAt(d, x), x <= y
      PROVE  SecureAt(d, y)
  <2>1. ASSUME NEW k \in 1 .. sz
        PROVE  ValidatorsHit(p, k) * y * (pr * sz * 10) >= k * pr * sc * wh
    <3>1. PICK h, c : h = ValidatorsHit(p, k) /\ c = h * (pr * sz * 10)
      OBVIOUS
    <3>2. h \in Nat /\ c \in Nat
      BY <1>4, <1>5, <3>1
    <3>3. x * c <= y * c
      BY <1>7, <3>2, ProductMonotone
    <3>4. x * c = h * x * (pr * sz * 10) /\ y * c = h * y * (pr * sz * 10)
      BY <1>4, <3>1, <3>2
    <3>5. h * x * (pr * sz * 10) >= k * pr * sc * wh
      BY <1>6, <1>7, <3>1
    <3>6. k * pr * sc * wh \in Int /\ x * c \in Int /\ y * c \in Int
      BY <1>4, <3>2
    <3>7. QED
      BY <3>1, <3>3, <3>4, <3>5, <3>6
  <2>2. QED
    BY <1>6, <2>1
<1>8. ASSUME d + 1 <= params.S, SecureAt(d, x)
      PROVE  SecureAt(d + 1, x)
  <2>1. PICK q : q = AtDegree(params, d + 1)
    OBVIOUS
  <2>2. q \in Symmetric /\ q.S = sz /\ q.pi = pr
    BY <1>2, <1>4, <2>1, DegreeFields
  <2>3. ScaleOf(q) \in Nat \ {0}
    BY <2>2, ScalePositive
  <2>4. ASSUME NEW k \in 1 .. sz
        PROVE  ValidatorsHit(q, k) * x * (pr * sz * 10) >= k * pr * ScaleOf(q) * wh
    <3>1. PICK h, g, sq, c : /\ h = ValidatorsHit(p, k) /\ g = ValidatorsHit(q, k)
                             /\ sq = ScaleOf(q) /\ c = x * (pr * sz * 10)
      OBVIOUS
    <3>2. h \in Nat /\ g \in Nat /\ sq \in Nat \ {0} /\ c \in Nat /\ k \in Nat
      BY <1>4, <1>5, <2>2, <2>3, <3>1, HitBounds
    <3>3. h * sq <= g * sc
      BY <1>1, <1>2, <1>3, <1>8, <2>1, <3>1, HitGrows
    <3>4. h * c >= (k * pr * wh) * sc
      <4>1. h * x * (pr * sz * 10) >= k * pr * sc * wh
        BY <1>6, <1>8, <3>1
      <4>2. h * x * (pr * sz * 10) = h * c /\ k * pr * sc * wh = (k * pr * wh) * sc
        BY <1>4, <3>1, <3>2
      <4>3. QED
        BY <4>1, <4>2
    <3>5. PICK z : z = k * pr * wh
      OBVIOUS
    <3>6. z \in Nat
      BY <1>4, <3>2, <3>5
    <3>7. (z * sc) * sq <= (h * c) * sq
      <4>1. z * sc \in Int /\ h * c \in Int /\ z * sc <= h * c
        BY <1>4, <3>2, <3>4, <3>5, <3>6
      <4>2. QED
        BY <3>2, <4>1, ProductMonotone
    <3>8. (h * sq) * c <= (g * sc) * c
      <4>1. h * sq \in Int /\ g * sc \in Int
        BY <1>4, <3>2
      <4>2. QED
        BY <3>2, <3>3, <4>1, ProductMonotone
    <3>9. (z * sq) * sc <= (g * c) * sc
      <4>1. /\ (h * c) * sq = (h * sq) * c /\ (z * sc) * sq = (z * sq) * sc
            /\ (g * sc) * c = (g * c) * sc
        BY <1>4, <3>2, <3>6
      <4>2. /\ (z * sq) * sc \in Int /\ (h * sq) * c \in Int /\ (g * c) * sc \in Int
        BY <1>4, <3>2, <3>6
      <4>3. QED
        BY <3>7, <3>8, <4>1, <4>2
    <3>10. z * sq <= g * c
      <4>1. z * sq \in Int /\ g * c \in Int
        BY <3>2, <3>6
      <4>2. QED
        BY <1>4, <3>9, <4>1, ProductCancel
    <3>11. g * c = g * x * (pr * sz * 10) /\ z * sq = k * pr * sq * wh
      BY <1>4, <3>1, <3>2, <3>5
    <3>12. QED
      BY <3>1, <3>10, <3>11
  <2>5. QED
    BY <1>3, <2>1, <2>2, <2>4 DEF SecureAt
<1>9. SecureAt(d, Whole)
  <2>1. ASSUME NEW k \in 1 .. sz
        PROVE  ValidatorsHit(p, k) * wh * (pr * sz * 10) >= k * pr * sc * wh
    <3>1. PICK h, t : h = ValidatorsHit(p, k) /\ t = p.n
      OBVIOUS
    <3>2. h \in Nat /\ t \in Nat \ {0} /\ h * sz >= t * k * sc /\ k \in Nat
      BY <1>2, <1>3, <3>1, HitBounds DEF Symmetric
    <3>3. PICK c, z : c = wh * pr /\ z = k * sc
      OBVIOUS
    <3>4. c \in Nat /\ z \in Nat
      BY <1>4, <3>2, <3>3
    <3>5. z <= (h * sz) * 10
      <4>1. 1 * z <= t * z
        BY <3>2, <3>4, ProductMonotone
      <4>2. t * z = t * k * sc /\ t * z \in Nat /\ h * sz \in Nat
        BY <1>4, <3>2, <3>3, <3>4
      <4>3. QED
        BY <3>2, <3>4, <4>1, <4>2
    <3>6. z * c <= ((h * sz) * 10) * c
      <4>1. (h * sz) * 10 \in Int
        BY <1>4, <3>2
      <4>2. QED
        BY <3>4, <3>5, <4>1, ProductMonotone
    <3>7. z * c = k * pr * sc * wh /\ ((h * sz) * 10) * c = h * wh * (pr * sz * 10)
      BY <1>4, <3>2, <3>3
    <3>8. QED
      BY <3>1, <3>6, <3>7
  <2>2. QED
    BY <1>3, <1>6, <2>1
<1>10. SecureAt(d, x) <=> SymmetricSecure([p EXCEPT
                      !.sigma = x * 10 * params.S * params.pi, !.pi = @ * Whole])
  <2>1. PICK q : q = [p EXCEPT !.sigma = x * 10 * params.S * params.pi, !.pi = @ * Whole]
    OBVIOUS
  <2>2. /\ q.n = p.n /\ q.S = p.S /\ q.d = p.d
        /\ q.sigma = x * 10 * sz * pr /\ q.pi = pr * wh
    BY <1>2, <1>3, <1>4, <2>1 DEF Symmetric
  <2>3. ScaleOf(q) = sc /\ \A k : ValidatorsHit(q, k) = ValidatorsHit(p, k)
    BY <1>3, <2>2 DEF ScaleOf, ValidatorsHit, BinomRatio
  <2>4. ASSUME NEW k \in 1 .. sz
        PROVE  SymmetricMargin(q, k) >= 0
                   <=> ValidatorsHit(p, k) * x * (pr * sz * 10) >= k * pr * sc * wh
    <3>1. PICK h : h = ValidatorsHit(p, k)
      OBVIOUS
    <3>2. h \in Nat /\ k \in Nat
      BY <1>5, <3>1
    <3>3. SymmetricMargin(q, k) = h * (x * 10 * sz * pr) - k * (pr * wh) * sc
      BY <2>2, <2>3, <3>1 DEF SymmetricMargin
    <3>4. /\ h * (x * 10 * sz * pr) = h * x * (pr * sz * 10)
          /\ k * (pr * wh) * sc = k * pr * sc * wh
      BY <1>4, <3>2
    <3>5. h * x * (pr * sz * 10) \in Int /\ k * pr * sc * wh \in Int
      BY <1>4, <3>2
    <3>6. QED
      BY <3>1, <3>3, <3>4, <3>5
  <2>5. SymmetricSecure(q) <=> \A k \in 1 .. sz : SymmetricMargin(q, k) >= 0
    BY <1>3, <2>2 DEF SymmetricSecure
  <2>6. QED
    BY <1>6, <2>1, <2>4, <2>5
<1>11. QED
  BY <1>1, <1>7, <1>8, <1>9, <1>10

\* The upper bound of the search resists every attack.
LEMMA WholeSecures ==
    ASSUME TypeInv, params # NoParameters, NEW d \in Nat \ {0}
    PROVE  SecureAt(d, Whole)
<1>1. \A x \in Nat : SecureAt(d, Whole)
  BY SecureAtIs
<1>2. QED
  BY <1>1

\* The stakes found, and the ends of the interval of the one sought.
StakesInv ==
    /\ \A d \in 1 .. Len(minStake) :
          \A x \in 1 .. Whole : x >= minStake[d] <=> SecureAt(d, x)
    /\ phase = "stakes" =>
          /\ SecureAt(Len(minStake) + 1, high)
          /\ low = 0 \/ ~SecureAt(Len(minStake) + 1, low)

LEMMA StakesInit == Init => StakesInv
<1>1. Init => Len(minStake) = 0 /\ phase = "subsets"
  BY DEF Init
<1>2. QED
  BY <1>1 DEF StakesInv

LEMMA StakesStep == TypeInv /\ StakesInv /\ [Next]_vars => StakesInv'
<1> SUFFICES ASSUME TypeInv, StakesInv, [Next]_vars
             PROVE  StakesInv'
  OBVIOUS
<1>1. CASE /\ UNCHANGED <<params, minStake>>
           /\ phase' = "stakes" => phase = "stakes" /\ UNCHANGED <<low, high>>
  BY <1>1 DEF StakesInv, SecureAt
<1>2. CASE DegreesSwept
  <2>1. /\ phase = "degrees" /\ phase' = "stakes" /\ low' = 0 /\ high' = Whole
        /\ minStake' = minStake /\ params' = params
    BY <1>2 DEF DegreesSwept, inputs
  <2>2. minStake = <<>> /\ params # NoParameters
    BY <2>1 DEF TypeInv
  <2>3. SecureAt(1, Whole)
    BY <2>2, WholeSecures
  <2>4. Len(minStake') = 0
    BY <2>1, <2>2
  <2>5. SecureAt(1, Whole)'
    BY <2>1, <2>3 DEF SecureAt
  <2>6. QED
    BY <2>1, <2>4, <2>5 DEF StakesInv
<1>3. CASE BisectStake
  <2>1. PICK d : d = Len(minStake) + 1
    OBVIOUS
  <2>2. /\ phase = "stakes" /\ phase' = "stakes" /\ params' = params /\ minStake' = minStake
        /\ Bisect(SecureWithStake(Mid))
    BY <1>3 DEF BisectStake, inputs
  <2>3. SecureWithStake(Mid) <=> SecureAt(d, Mid)
    BY <2>1 DEF SecureWithStake, SecureAt
  <2>4. SecureAt(d, high) /\ (low = 0 \/ ~SecureAt(d, low))
    BY <2>1, <2>2 DEF StakesInv
  <2>5. SecureAt(d, high') /\ (low' = 0 \/ ~SecureAt(d, low'))
    <3>1. CASE SecureAt(d, Mid)
      <4>1. low' = low /\ high' = Mid
        BY <2>2, <2>3, <3>1 DEF Bisect, Half
      <4>2. QED
        BY <2>4, <3>1, <4>1
    <3>2. CASE ~SecureAt(d, Mid)
      <4>1. low' = Mid /\ high' = high
        BY <2>2, <2>3, <3>2 DEF Bisect, Half
      <4>2. QED
        BY <2>4, <3>2, <4>1
    <3>3. QED
      BY <3>1, <3>2
  <2>6. QED
    BY <2>1, <2>2, <2>5 DEF StakesInv, SecureAt
<1>4. CASE StakeFound
  <2>1. PICK d : d = Len(minStake) + 1
    OBVIOUS
  <2>2. /\ phase = "stakes" /\ iter = Iterations /\ minStake' = Append(minStake, high)
        /\ low' = 0 /\ high' = Whole /\ params' = params
    BY <1>4 DEF StakeFound, inputs
  <2>3. /\ params # NoParameters /\ minStake \in Seq(1 .. Whole)
        /\ Len(minStake) \in Nat /\ d \in Nat \ {0}
    BY <2>1, <2>2 DEF TypeInv
  <2>4. high = low + 1 /\ low \in Nat /\ high \in 1 .. Whole
    <3>1. Interval(low, high, Iterations)
      BY <2>2 DEF TypeInv
    <3>2. high = low + 1
      BY <3>1, IntervalIs
    <3>3. low \in Nat /\ high \in Nat /\ high <= Whole
      BY <3>1 DEF Interval
    <3>4. QED
      BY <3>2, <3>3, WholeIs
  <2>5. SecureAt(d, high) /\ (low = 0 \/ ~SecureAt(d, low))
    BY <2>1, <2>2 DEF StakesInv
  <2>6. \A x, y \in Nat : SecureAt(d, x) /\ x <= y => SecureAt(d, y)
    BY <2>3, SecureAtIs
  <2>7. ASSUME NEW x \in 1 .. Whole
        PROVE  x >= high <=> SecureAt(d, x)
    <3>1. x \in Nat /\ x >= 1
      BY WholeIs
    <3>2. CASE x >= high
      BY <2>4, <2>5, <2>6, <3>1, <3>2
    <3>3. CASE ~(x >= high)
      <4>1. x <= low /\ low # 0
        BY <2>4, <3>1, <3>3
      <4>2. QED
        BY <2>4, <2>5, <2>6, <3>1, <3>3, <4>1
    <3>4. QED
      BY <3>2, <3>3
  <2>8. /\ Len(minStake') = d /\ minStake'[d] = high
        /\ \A e \in 1 .. Len(minStake) : minStake'[e] = minStake[e]
    BY <2>1, <2>2, <2>3, <2>4
  <2>9. ASSUME NEW e \in 1 .. d, NEW x \in 1 .. Whole
        PROVE  x >= minStake'[e] <=> SecureAt(e, x)
    <3>1. CASE e = d
      BY <2>7, <2>8, <3>1
    <3>2. CASE e # d
      <4>1. e \in 1 .. Len(minStake)
        BY <2>1, <2>3, <3>2
      <4>2. QED
        BY <2>8, <4>1 DEF StakesInv
    <3>3. QED
      BY <3>1, <3>2
  <2>10. SecureAt(d + 1, Whole)
    <3>1. d + 1 \in Nat \ {0}
      BY <2>3
    <3>2. QED
      BY <2>3, <3>1, WholeSecures
  <2>11. QED
    BY <2>2, <2>8, <2>9, <2>10 DEF StakesInv, SecureAt
<1>5. QED
  BY <1>1, <1>2, <1>3, <1>4
     DEF Next, CheckSubset, SubsetsChecked, BisectBudget, BudgetFound, SweepDegree, vars, inputs,
         bisection

LEMMA StakesGiven ==
    ASSUME TypeInv, StakesInv
    PROVE  MinStakeIsLeast
<1> SUFFICES ASSUME NEW d \in DOMAIN minStake
             PROVE  /\ \A x \in 1 .. Whole :
                          x >= minStake[d] <=>
                              SymmetricSecure([AtDegree(params, d) EXCEPT
                                  !.sigma = x * 10 * params.S * params.pi, !.pi = @ * Whole])
                    /\ d > 1 => minStake[d] <= minStake[d - 1]
  BY DEF MinStakeIsLeast
<1>1. /\ minStake \in Seq(1 .. Whole) /\ Len(minStake) \in Nat
      /\ d \in 1 .. Len(minStake) /\ d \in Nat \ {0}
  BY DEF TypeInv
<1>2. params # NoParameters
  <2>1. Len(minStake) # 0
    BY <1>1
  <2>2. minStake # <<>>
    BY <2>1
  <2>3. QED
    BY <2>2 DEF TypeInv
<1>3. \A e \in 1 .. Len(minStake) : \A x \in 1 .. Whole : x >= minStake[e] <=> SecureAt(e, x)
  BY DEF StakesInv
<1>4. ASSUME NEW x \in 1 .. Whole
      PROVE  x >= minStake[d] <=>
                 SymmetricSecure([AtDegree(params, d) EXCEPT
                     !.sigma = x * 10 * params.S * params.pi, !.pi = @ * Whole])
  <2>1. x \in Nat
    BY WholeIs
  <2>2. QED
    BY <1>1, <1>2, <1>3, <2>1, SecureAtIs
<1>5. ASSUME d > 1
      PROVE  minStake[d] <= minStake[d - 1]
  <2>1. PICK e : e = d - 1
    OBVIOUS
  <2>2. e \in Nat \ {0} /\ d = e + 1 /\ e \in 1 .. Len(minStake)
    BY <1>1, <1>5, <2>1
  <2>3. minStake[e] \in 1 .. Whole /\ minStake[d] \in 1 .. Whole
    <3> DEFINE stakes == 1 .. Whole
    <3>1. minStake \in Seq(stakes) /\ e \in 1 .. Len(minStake) /\ d \in 1 .. Len(minStake)
      BY <1>1, <2>2
    <3> HIDE DEF stakes
    <3>2. minStake[e] \in stakes /\ minStake[d] \in stakes
      BY <3>1
    <3>3. QED
      BY <3>2 DEF stakes
  <2>4. SecureAt(e, minStake[e])
    BY <1>3, <2>2, <2>3, WholeIs
  <2>5. e + 1 <= params.S
    <3>1. Len(minStake) <= params.S /\ params.S \in Nat
      BY <1>2, InputsAre DEF TypeInv, Symmetric
    <3>2. QED
      BY <1>1, <2>2, <3>1
  <2>6. minStake[e] \in Nat
    BY <2>3, WholeIs
  <2>7. SecureAt(d, minStake[e])
    BY <1>2, <2>2, <2>4, <2>5, <2>6, SecureAtIs
  <2>8. minStake[e] >= minStake[d]
    BY <1>1, <1>3, <2>3, <2>7
  <2>9. QED
    BY <2>1, <2>3, <2>8, WholeIs
<1>6. QED
  BY <1>4, <1>5

(***************************************************************************)
(* optimal-degree.ts:97: with any parameters and any number of iterations, *)
(* the stake found for a degree is the least that resists attacks of every *)
(* size, the upper bound of the search resists them all, and a larger      *)
(* degree never needs more.                                                *)
(***************************************************************************)
THEOREM StakesAreLeast == Spec => []MinStakeIsLeast
<1>1. TypeInv /\ StakesInv => MinStakeIsLeast
  BY StakesGiven
<1>2. QED
  BY <1>1, TypeAlways, StakesInit, StakesStep, PTL DEF Spec

-----------------------------------------------------------------------------
\* The closed form

\* Without x in a set, j of it are chosen as before; with x, one fewer.
LEMMA ChoicesNext ==
    ASSUME NEW s, IsFiniteSet(s), NEW x \in s, NEW j \in Nat,
           IsFiniteSet(kSubset(j, s \ {x})), IsFiniteSet(kSubset(j + 1, s \ {x}))
    PROVE  /\ IsFiniteSet(kSubset(j + 1, s))
           /\ Cardinality(kSubset(j + 1, s)) =
                  Cardinality(kSubset(j + 1, s \ {x})) + Cardinality(kSubset(j, s \ {x}))
<1> DEFINE t   == s \ {x}
           old == kSubset(j, t)
           new == kSubset(j + 1, s) \ kSubset(j + 1, t)
           f   == [D \in old |-> D \cup {x}]
<1>1. IsFiniteSet(t)
  BY FS_Subset
<1>2. kSubset(j + 1, t) \subseteq kSubset(j + 1, s)
  BY DEF kSubset
<1>3. ASSUME NEW D \in old
      PROVE  D \cup {x} \in new /\ x \notin D
  <2>1. D \in SUBSET t /\ Cardinality(D) = j /\ IsFiniteSet(D) /\ x \notin D
    BY <1>1, FS_Subset DEF kSubset
  <2>2. Cardinality(D \cup {x}) = j + 1
    BY <2>1, FS_AddElement
  <2>3. QED
    BY <2>1, <2>2 DEF kSubset
<1>4. ASSUME NEW E \in new
      PROVE  x \in E /\ E \ {x} \in old /\ E = (E \ {x}) \cup {x}
  <2>1. E \in SUBSET s /\ Cardinality(E) = j + 1 /\ IsFiniteSet(E)
    BY FS_Subset DEF kSubset
  <2>2. x \in E
    BY <2>1 DEF kSubset
  <2>3. Cardinality(E \ {x}) = j
    <3>1. Cardinality(E \ {x}) = Cardinality(E) - 1
      BY <2>1, <2>2, FS_RemoveElement
    <3>2. QED
      BY <2>1, <3>1
  <2>4. QED
    BY <2>1, <2>2, <2>3 DEF kSubset
<1>5. f \in Bijection(old, new)
  <2> HIDE DEF old, new
  <2>1. f \in [old -> new]
    BY <1>3
  <2>2. \A D, E \in old : f[D] = f[E] => D = E
    <3>1. ASSUME NEW D \in old, NEW E \in old, D \cup {x} = E \cup {x}
          PROVE  D = E
      BY <1>3, <3>1
    <3>2. QED
      BY <3>1
  <2>3. \A E \in new : \E D \in old : f[D] = E
    <3>1. ASSUME NEW E \in new
          PROVE  \E D \in old : f[D] = E
      <4>1. E \ {x} \in old /\ E = (E \ {x}) \cup {x}
        BY <1>4
      <4>2. f[E \ {x}] = (E \ {x}) \cup {x}
        BY <4>1
      <4>3. QED
        BY <4>1, <4>2
    <3>2. QED
      BY <3>1
  <2> HIDE DEF f
  <2>4. QED
    BY <2>1, <2>2, <2>3 DEF Bijection, Injection, Surjection, IsInjective
<1>6. IsFiniteSet(new) /\ Cardinality(new) = Cardinality(old)
  <2>1. IsFiniteSet(old) /\ ExistsBijection(old, new)
    BY <1>5 DEF ExistsBijection
  <2> HIDE DEF old, new
  <2>2. QED
    BY <2>1, FS_Bijection
<1>7. kSubset(j + 1, s) = kSubset(j + 1, t) \cup new /\ kSubset(j + 1, t) \cap new = {}
  BY <1>2
<1>8. PICK a, b : a = kSubset(j + 1, t) /\ b = new
  OBVIOUS
<1>9. IsFiniteSet(a) /\ IsFiniteSet(b) /\ a \cap b = {} /\ kSubset(j + 1, s) = a \cup b
  BY <1>6, <1>7, <1>8
<1>10. IsFiniteSet(a \cup b) /\ Cardinality(a \cup b) = Cardinality(a) + Cardinality(b) - Cardinality(a \cap b)
  BY <1>9, FS_Union
<1>11. Cardinality(a \cap b) = 0 /\ Cardinality(a) \in Nat /\ Cardinality(b) \in Nat
  BY <1>9, FS_EmptySet, FS_CardinalityType
<1>12. Cardinality(b) = Cardinality(kSubset(j, t))
  <2>1. Cardinality(b) = Cardinality(old)
    <3> HIDE DEF old, new
    <3>1. QED
      BY <1>6, <1>8
  <2>2. QED
    BY <2>1
<1>13. QED
  <2>1. Cardinality(kSubset(j + 1, s)) = Cardinality(a) + Cardinality(b)
    <3>1. Cardinality(a \cup b) = Cardinality(a) + Cardinality(b)
      BY <1>10, <1>11
    <3>2. Cardinality(kSubset(j + 1, s)) = Cardinality(a \cup b)
      BY <1>9, Zenon
    <3>3. QED
      BY <3>1, <3>2
  <2>2. QED
    BY <1>8, <1>9, <1>10, <1>12, <2>1

LEMMA FallingPascal ==
    ASSUME NEW n \in Nat, NEW i \in Nat
    PROVE  /\ Falling(n + 1, i + 1) = Falling(n, i + 1) + (i + 1) * Falling(n, i)
           /\ Falling(i + 1, i + 1) = (i + 1) * Falling(i, i)
           /\ Falling(0, i + 1) = 0
<1>1. PICK a, b, c : a = Falling(n, i) /\ b = Falling(n + 1, i) /\ c = Falling(i + 1, i)
  OBVIOUS
<1>2. a \in Int /\ b \in Int /\ c \in Int /\ Falling(i, i) \in Int
  BY <1>1, FallingNext
<1>3. Falling(n, i + 1) = a * (n - i) /\ Falling(n + 1, i + 1) = b * ((n + 1) - i)
  BY <1>1, FallingNext
<1>4. b * ((n + 1) - i) = (n + 1) * a
  <2>1. n + 1 \in Int /\ (n + 1) - 1 = n
    OBVIOUS
  <2>2. Falling(n + 1, i) * ((n + 1) - i) = (n + 1) * Falling((n + 1) - 1, i)
    BY <2>1, FallingShift
  <2>3. QED
    BY <1>1, <2>1, <2>2
<1>5. (n + 1) * a = a * (n - i) + (i + 1) * a
  BY <1>2
<1>6. Falling(i + 1, i + 1) = (i + 1) * Falling(i, i)
  <2>1. i + 1 \in Int /\ (i + 1) - 1 = i /\ (i + 1) - i = 1
    OBVIOUS
  <2>2. Falling(i + 1, i) * ((i + 1) - i) = (i + 1) * Falling((i + 1) - 1, i)
    BY <2>1, FallingShift
  <2>3. Falling(i + 1, i + 1) = Falling(i + 1, i) * ((i + 1) - i)
    BY <2>1, FallingNext
  <2>4. QED
    BY <2>1, <2>2, <2>3
<1>7. Falling(0, i + 1) = 0
  <2>1. 0 \in Int /\ i + 1 \in Nat
    OBVIOUS
  <2>2. PICK z : z = Falling(0, i + 1)
    OBVIOUS
  <2>3. Falling(0, i + 1) * (0 - (i + 1)) = 0 * Falling(0 - 1, i + 1)
    BY <2>1, FallingShift
  <2>4. z \in Int /\ Falling(0 - 1, i + 1) \in Int
    BY <2>1, <2>2, FallingNext
  <2>5. z * (0 - (i + 1)) = 0
    BY <2>2, <2>3, <2>4
  <2>6. QED
    BY <2>2, <2>4, <2>5
<1>8. QED
  BY <1>1, <1>3, <1>4, <1>5, <1>6, <1>7

\* There are n (n - 1) ... (n - j + 1) / j! ways to choose j out of n.
LEMMA ChoicesCount ==
    ASSUME NEW A, IsFiniteSet(A), NEW j \in Nat
    PROVE  /\ IsFiniteSet(kSubset(j, A))
           /\ Cardinality(kSubset(j, A)) * Falling(j, j) = Falling(Cardinality(A), j)
<1> DEFINE Counted(s) == \A i \in Nat :
               /\ IsFiniteSet(kSubset(i, s))
               /\ Cardinality(kSubset(i, s)) * Falling(i, i) = Falling(Cardinality(s), i)
           Good == {s \in SUBSET A : Counted(s)}
<1>1. ASSUME NEW s \in SUBSET A
      PROVE  /\ IsFiniteSet(kSubset(0, s))
             /\ Cardinality(kSubset(0, s)) * Falling(0, 0) = Falling(Cardinality(s), 0)
  <2>1. IsFiniteSet(s) /\ Cardinality(s) \in Nat
    BY FS_Subset, FS_CardinalityType
  <2>2. kSubset(0, s) = {{}}
    <3>1. \A D \in SUBSET s : Cardinality(D) = 0 <=> D = {}
      BY <2>1, FS_Subset, FS_EmptySet
    <3>2. QED
      BY <3>1 DEF kSubset
  <2>3. IsFiniteSet(kSubset(0, s)) /\ Cardinality(kSubset(0, s)) = 1
    <3>1. IsFiniteSet({{}}) /\ Cardinality({{}}) = 1
      BY FS_Singleton, Zenon
    <3>2. QED
      BY <2>2, <3>1
  <2>4. Falling(0, 0) = 1 /\ Falling(Cardinality(s), 0) = 1
    BY <2>1, FallingNext
  <2>5. QED
    BY <2>3, <2>4
<1>2. ASSUME NEW s \in SUBSET A, \A x \in s : s \ {x} \in Good, NEW i \in Nat
      PROVE  /\ IsFiniteSet(kSubset(i + 1, s))
             /\ Cardinality(kSubset(i + 1, s)) * Falling(i + 1, i + 1) =
                    Falling(Cardinality(s), i + 1)
  <2>1. IsFiniteSet(s)
    BY FS_Subset
  <2>2. CASE s = {}
    <3>1. kSubset(i + 1, s) = {}
      BY <2>2, FS_EmptySet DEF kSubset
    <3>2. IsFiniteSet(kSubset(i + 1, s)) /\ Cardinality(kSubset(i + 1, s)) = 0 /\ Cardinality(s) = 0
      BY <2>2, <3>1, FS_EmptySet
    <3>3. Falling(0, i + 1) = 0 /\ Falling(i + 1, i + 1) \in Int
      BY FallingPascal, FallingNext
    <3>4. QED
      BY <3>2, <3>3
  <2>3. CASE s # {}
    <3>1. PICK x \in s : TRUE
      BY <2>3
    <3>2. PICK t, n : t = s \ {x} /\ n = Cardinality(t)
      OBVIOUS
    <3>3. n \in Nat /\ Cardinality(s) = n + 1
      <4>1. Cardinality(s \ {x}) = Cardinality(s) - 1 /\ IsFiniteSet(s \ {x})
        BY <2>1, <3>1, FS_RemoveElement
      <4>2. Cardinality(s) \in Nat /\ Cardinality(s \ {x}) \in Nat
        BY <2>1, <4>1, FS_CardinalityType
      <4>3. QED
        BY <3>2, <4>1, <4>2
    <3>4. Counted(t)
      BY <1>2, <3>1, <3>2
    <3>5. /\ IsFiniteSet(kSubset(i, t)) /\ IsFiniteSet(kSubset(i + 1, t))
          /\ Cardinality(kSubset(i, t)) * Falling(i, i) = Falling(n, i)
          /\ Cardinality(kSubset(i + 1, t)) * Falling(i + 1, i + 1) = Falling(n, i + 1)
      BY <3>2, <3>4
    <3>6. PICK c, e, u, v : /\ c = Cardinality(kSubset(i, t)) /\ e = Cardinality(kSubset(i + 1, t))
                            /\ u = Falling(i, i) /\ v = Falling(i + 1, i + 1)
      OBVIOUS
    <3>7. c \in Nat /\ e \in Nat /\ u \in Int /\ v \in Int
      BY <3>5, <3>6, FS_CardinalityType, FallingNext
    <3>8. IsFiniteSet(kSubset(i + 1, s)) /\ Cardinality(kSubset(i + 1, s)) = e + c
      BY <2>1, <3>1, <3>2, <3>5, <3>6, ChoicesNext
    <3>9. /\ Falling(n + 1, i + 1) = Falling(n, i + 1) + (i + 1) * Falling(n, i)
          /\ v = (i + 1) * u
      BY <3>3, <3>6, FallingPascal
    <3>10. Falling(n + 1, i + 1) = e * v + (i + 1) * (c * u)
      BY <3>5, <3>6, <3>9
    <3>11. (e + c) * v = e * v + (i + 1) * (c * u)
      <4>1. c * ((i + 1) * u) = (i + 1) * (c * u)
        BY <3>7
      <4>2. (e + c) * v = e * v + c * v
        BY <3>7
      <4>3. QED
        BY <3>9, <4>1, <4>2
    <3>12. QED
      BY <3>3, <3>6, <3>8, <3>10, <3>11
  <2>4. QED
    BY <2>2, <2>3
<1>3. ASSUME NEW s \in SUBSET A, \A x \in s : s \ {x} \in Good
      PROVE  s \in Good
  <2>1. ASSUME NEW i \in Nat
        PROVE  /\ IsFiniteSet(kSubset(i, s))
               /\ Cardinality(kSubset(i, s)) * Falling(i, i) = Falling(Cardinality(s), i)
    <3>1. CASE i = 0
      BY <1>1, <3>1
    <3>2. CASE i # 0
      <4>1. PICK h : h = i - 1
        OBVIOUS
      <4>2. h \in Nat /\ i = h + 1
        BY <3>2, <4>1
      <4>3. QED
        BY <1>2, <1>3, <4>2
    <3>3. QED
      BY <3>1, <3>2
  <2>2. QED
    BY <2>1
<1>4. Good \in SUBSET (SUBSET A)
  OBVIOUS
<1> HIDE DEF Good
<1>5. Good = SUBSET A
  BY <1>3, <1>4, SubsetInduction
<1>6. A \in Good
  BY <1>5
<1>7. QED
  BY <1>6 DEF Good

\* As many validators as there are choices, which the closed form stands for.
OneValidatorPerChoice ==
    \A p \in Parameters : p.n = Cardinality(kSubset(p.d, 0 .. (p.S - 1)))

Chosen(p) == kSubset(p.d, 0 .. (p.S - 1))

LEMMA DesignIs ==
    ASSUME NEW p \in Parameters
    PROVE  /\ p \in Symmetric /\ p.d <= p.S
           /\ ServicesOf(DesignOf(p)) = 0 .. (p.S - 1)
           /\ DOMAIN DesignOf(p).stake = Chosen(p)
           /\ \A D \in Chosen(p) :
                 /\ DesignOf(p).stake[D] = p.sigma
                 /\ \A i \in 0 .. (p.S - 1) :
                       DesignOf(p).allocation[D][i] = IF i \in D THEN p.sigma ELSE 0
           /\ \A i \in 0 .. (p.S - 1) : DesignOf(p).prize[i] = p.pi
           /\ IsFiniteSet(0 .. (p.S - 1)) /\ Cardinality(0 .. (p.S - 1)) = p.S
<1>1. p \in Symmetric /\ p.d <= p.S /\ p.S \in Nat \ {0}
  BY AnalyzerAssumption DEF Symmetric
<1>2. DesignOf(p).size = p.S
  BY DesignIsNetwork
<1>3. IsFiniteSet(0 .. (p.S - 1)) /\ Cardinality(0 .. (p.S - 1)) = p.S
  <2>1. 0 \in Int /\ p.S - 1 \in Int /\ ~(0 > p.S - 1) /\ (p.S - 1) - 0 + 1 = p.S
    BY <1>1
  <2>2. QED
    BY <2>1, FS_Interval
<1>4. /\ DesignOf(p).stake = [D \in Chosen(p) |-> p.sigma]
      /\ DesignOf(p).allocation =
             [D \in Chosen(p) |-> [i \in 0 .. (p.S - 1) |-> IF i \in D THEN p.sigma ELSE 0]]
      /\ DesignOf(p).prize = [i \in 0 .. (p.S - 1) |-> p.pi]
  BY DEF DesignOf, Chosen
<1>5. QED
  BY <1>1, <1>2, <1>3, <1>4 DEF ServicesOf

\* The stake at risk is that of the validators with one of the services.
LEMMA DesignRisk ==
    ASSUME NEW p \in Parameters, NEW T \in SUBSET (0 .. (p.S - 1))
    PROVE  /\ StakeAtRisk(DesignOf(p), T) =
                  Cardinality({D \in Chosen(p) : D \cap T # {}}) * p.sigma
           /\ PrizeOf(DesignOf(p), T) = Cardinality(T) * p.pi
<1> DEFINE V == Chosen(p)
           H == {D \in V : D \cap T # {}}
           al(D) == [i \in T |-> Greater(0, DesignOf(p).allocation[D][i])]
           risk == [D \in V |-> Lesser(DesignOf(p).stake[D], SumFunction(al(D)))]
           prizes == [i \in T |-> DesignOf(p).prize[i]]
<1>1. /\ p.sigma \in Nat /\ p.pi \in Nat /\ IsFiniteSet(T) /\ IsFiniteSet(V)
  <2>1. p.sigma \in Nat /\ p.pi \in Nat /\ IsFiniteSet(0 .. (p.S - 1)) /\ p.d \in Nat
    BY DesignIs DEF Symmetric
  <2>2. IsFiniteSet(T)
    BY <2>1, FS_Subset
  <2>3. IsFiniteSet(V)
    BY <2>1, ChoicesCount DEF Chosen
  <2>4. QED
    BY <2>1, <2>2, <2>3
<1>2. ASSUME NEW D \in V
      PROVE  /\ DesignOf(p).stake[D] = p.sigma
             /\ al(D) \in [T -> Nat] /\ al(D) \in [T -> Int]
             /\ \A i \in T : al(D)[i] = IF i \in D THEN p.sigma ELSE 0
  <2>1. /\ DesignOf(p).stake[D] = p.sigma
        /\ \A i \in T : DesignOf(p).allocation[D][i] = IF i \in D THEN p.sigma ELSE 0
    BY DesignIs
  <2>2. \A i \in T : Greater(0, DesignOf(p).allocation[D][i]) = IF i \in D THEN p.sigma ELSE 0
    BY <1>1, <2>1 DEF Greater
  <2>3. QED
    BY <1>1, <2>1, <2>2
<1>3. ASSUME NEW D \in V
      PROVE  risk[D] = IF D \in H THEN p.sigma ELSE 0
  <2>1. PICK g : g = al(D)
    OBVIOUS
  <2>2. /\ g \in [T -> Nat] /\ g \in [T -> Int]
        /\ \A i \in T : g[i] = IF i \in D THEN p.sigma ELSE 0
    BY <1>2, <2>1
  <2>3. risk[D] = Lesser(p.sigma, SumFunction(g))
    BY <1>2, <2>1
  <2>4. CASE D \in H
    <3>1. PICK i \in T : i \in D
      BY <2>4
    <3>2. SumFunction(g) \in Nat /\ g[i] <= SumFunction(g) /\ g[i] = p.sigma
      BY <1>1, <2>2, <3>1, TotalNat
    <3>3. QED
      BY <1>1, <2>3, <2>4, <3>2 DEF Lesser
  <2>5. CASE D \notin H
    <3>1. \A i \in T : g[i] = 0
      BY <2>2, <2>5
    <3>2. SumFunction(g) = 0
      BY <1>1, <2>2, <3>1, TotalZero
    <3>3. QED
      BY <1>1, <2>3, <2>5, <3>2 DEF Lesser
  <2>6. QED
    BY <2>4, <2>5
<1>4. SumFunction(risk) = Cardinality(H) * p.sigma
  <2>1. DOMAIN risk = V /\ risk = [D \in V |-> risk[D]] /\ H \in SUBSET V
    OBVIOUS
  <2> HIDE DEF risk, H, V
  <2>2. risk \in [V -> Int] /\ (\A D \in H : risk[D] = p.sigma) /\ (\A D \in V \ H : risk[D] = 0)
    BY <1>1, <1>3, <2>1
  <2>3. QED
    BY <1>1, <2>1, <2>2, TotalCount
<1>5. StakeAtRisk(DesignOf(p), T) = SumFunction(risk)
  <2>1. DOMAIN DesignOf(p).stake = V
    BY DesignIs
  <2>2. QED
    BY <2>1 DEF StakeAtRisk
<1>6. PrizeOf(DesignOf(p), T) = SumFunction(prizes)
  BY DEF PrizeOf
<1>7. SumFunction(prizes) = Cardinality(T) * p.pi
  <2>1. prizes \in [T -> Int] /\ \A i \in T : prizes[i] = p.pi
    BY <1>1, DesignIs
  <2>2. PICK g : g = prizes
    OBVIOUS
  <2>3. g \in [T -> Int] /\ \A i \in T : g[i] = p.pi
    BY <2>1, <2>2
  <2>4. SumFunction(g) = Cardinality(T) * p.pi
    BY <1>1, <2>3, TotalConstant
  <2>5. QED
    BY <2>2, <2>4
<1>8. QED
  BY <1>4, <1>5, <1>6, <1>7

\* ValidatorsHit counts them, whichever services are attacked.
LEMMA HitsAreCounted ==
    ASSUME OneValidatorPerChoice, NEW p \in Parameters, NEW T \in SUBSET (0 .. (p.S - 1)), T # {}
    PROVE  /\ Cardinality(T) \in 1 .. p.S
           /\ Cardinality({D \in Chosen(p) : D \cap T # {}}) \in Nat
           /\ Cardinality({D \in Chosen(p) : D \cap T # {}}) * ScaleOf(p) =
                  ValidatorsHit(p, Cardinality(T))
<1> DEFINE A == 0 .. (p.S - 1)
           V == Chosen(p)
           H == {D \in V : D \cap T # {}}
           M == kSubset(p.d, A \ T)
<1>1. /\ p.S \in Nat \ {0} /\ p.d \in Nat \ {0} /\ p.d <= p.S
      /\ IsFiniteSet(A) /\ Cardinality(A) = p.S
  BY DesignIs DEF Symmetric
<1>2. PICK k : k = Cardinality(T)
  OBVIOUS
<1>3. IsFiniteSet(T) /\ IsFiniteSet(A \ T) /\ k \in 1 .. p.S /\ Cardinality(A \ T) = p.S - k
  <2> HIDE DEF A
  <2>1. T \in SUBSET A
    BY DEF A
  <2>2. IsFiniteSet(T) /\ Cardinality(T) \in Nat /\ Cardinality(T) <= Cardinality(A) /\ Cardinality(T) # 0
    BY <1>1, <2>1, FS_Subset, FS_CardinalityType, FS_EmptySet
  <2>3. IsFiniteSet(A \ T) /\ Cardinality(A \ T) = Cardinality(A) - Cardinality(A \cap T)
    BY <1>1, FS_Difference
  <2>4. A \cap T = T
    BY <2>1
  <2>5. QED
    BY <1>1, <1>2, <2>2, <2>3, <2>4
<1>4. /\ IsFiniteSet(V) /\ IsFiniteSet(M)
      /\ Cardinality(V) * Falling(p.d, p.d) = Falling(p.S, p.d)
      /\ Cardinality(M) * Falling(p.d, p.d) = Falling(p.S - k, p.d)
  <2> HIDE DEF A
  <2>1. p.d \in Nat
    BY <1>1
  <2>2. /\ IsFiniteSet(kSubset(p.d, A))
        /\ Cardinality(kSubset(p.d, A)) * Falling(p.d, p.d) = Falling(p.S, p.d)
    BY <1>1, <2>1, ChoicesCount
  <2>3. IsFiniteSet(M) /\ Cardinality(M) * Falling(p.d, p.d) = Falling(p.S - k, p.d)
    BY <1>3, <2>1, ChoicesCount
  <2>4. V = kSubset(p.d, A)
    BY DEF Chosen, A
  <2>5. QED
    BY <2>2, <2>3, <2>4
<1>5. Cardinality(H) = Cardinality(V) - Cardinality(M) /\ Cardinality(V) = p.n
  <2>1. M = V \ H /\ H \subseteq V
    BY DEF Chosen, kSubset
  <2>2. Cardinality(V) = p.n
    BY DEF OneValidatorPerChoice, Chosen
  <2> HIDE DEF V, H, M
  <2>3. IsFiniteSet(H) /\ Cardinality(H) \in Nat
    BY <1>4, <2>1, FS_Subset, FS_CardinalityType
  <2>4. Cardinality(V \ H) = Cardinality(V) - Cardinality(V \cap H) /\ V \cap H = H
    BY <1>4, <2>1, FS_Difference
  <2>5. Cardinality(V) \in Nat
    BY <1>4, FS_CardinalityType
  <2>6. QED
    BY <2>1, <2>2, <2>3, <2>4, <2>5
<1>6. p.S - k < p.d => Cardinality(M) = 0
  <2>1. ASSUME p.S - k < p.d
        PROVE  M = {}
    <3>1. ASSUME NEW D \in M
          PROVE  FALSE
      <4> HIDE DEF A
      <4>1. D \in SUBSET (A \ T) /\ Cardinality(D) = p.d
        BY DEF kSubset
      <4>2. Cardinality(D) <= Cardinality(A \ T)
        BY <1>3, <4>1, FS_Subset
      <4>3. QED
        BY <1>1, <1>3, <2>1, <4>1, <4>2
    <3>2. QED
      BY <3>1
  <2>2. QED
    BY <2>1, FS_EmptySet
<1>7. PICK m, n, h, c, u : /\ m = Cardinality(M) /\ n = p.n /\ h = Cardinality(H)
                           /\ c = ScaleOf(p) /\ u = Falling(p.d, p.d)
  OBVIOUS
<1> HIDE DEF V, H, M
<1>8. m \in Nat /\ n \in Nat /\ c \in Nat /\ u \in Int /\ h = n - m /\ h \in Nat
  <2>1. m \in Nat /\ Cardinality(V) \in Nat
    BY <1>4, <1>7, FS_CardinalityType
  <2>2. c \in Nat
    BY <1>7, DesignIs, ScalePositive
  <2>3. u \in Int
    <3>1. p.d \in Int /\ p.d \in Nat
      BY <1>1
    <3>2. Falling(p.d, p.d) \in Int
      BY <3>1, FallingNext
    <3>3. QED
      BY <1>7, <3>2
  <2>4. IsFiniteSet(H)
    BY <1>4, FS_Subset DEF H
  <2>5. Cardinality(H) \in Nat
    BY <2>4, FS_CardinalityType
  <2>6. QED
    BY <1>5, <1>7, <2>1, <2>2, <2>3, <2>5
<1>9. h * c = ValidatorsHit(p, k)
  <2>1. CASE p.S - k < p.d
    <3>1. m = 0 /\ h = n
      BY <1>6, <1>7, <1>8, <2>1
    <3>2. ValidatorsHit(p, k) = n * c
      <4>1. CASE k >= p.S \/ p.d >= p.S
        BY <1>7, <4>1 DEF ValidatorsHit
      <4>2. CASE ~(k >= p.S \/ p.d >= p.S)
        <5>1. BinomRatio(p, k) = 0
          BY <2>1 DEF BinomRatio
        <5>2. ValidatorsHit(p, k) = n * (c - 0)
          BY <1>7, <4>2, <5>1 DEF ValidatorsHit
        <5>3. QED
          BY <1>8, <5>2
      <4>3. QED
        BY <4>1, <4>2
    <3>3. QED
      BY <3>1, <3>2
  <2>2. CASE ~(p.S - k < p.d)
    <3>1. k < p.S /\ p.d < p.S /\ p.S - k \in Int
      BY <1>1, <1>3, <2>2
    <3>2. c = Falling(p.S, p.d)
      BY <1>1, <1>7, <3>1 DEF ScaleOf
    <3>3. PICK b : b = Falling(p.S - k, p.d)
      OBVIOUS
    <3>4. BinomRatio(p, k) = b
      BY <2>2, <3>3 DEF BinomRatio
    <3>5. ValidatorsHit(p, k) = n * (c - b)
      BY <1>1, <1>3, <1>7, <3>1, <3>4 DEF ValidatorsHit
    <3>6. m * u = b /\ n * u = c
      BY <1>4, <1>5, <1>7, <3>2, <3>3
    <3>7. b \in Int
      BY <1>8, <3>6
    <3>8. m * c = n * b
      <4>1. m * (n * u) = n * (m * u)
        BY <1>8
      <4>2. QED
        BY <3>6, <4>1
    <3>9. (n - m) * c = n * (c - b)
      <4>1. (n - m) * c = n * c - m * c /\ n * (c - b) = n * c - n * b
        BY <1>8, <3>7
      <4>2. QED
        BY <3>8, <4>1
    <3>10. QED
      BY <1>8, <3>5, <3>9
  <2>3. QED
    BY <2>1, <2>2
<1>10. QED
  BY <1>2, <1>3, <1>7, <1>8, <1>9 DEF H, V


\* Its margin, over the scale, depends on how many services are attacked only.
LEMMA DesignMargin ==
    ASSUME OneValidatorPerChoice, NEW p \in Parameters, NEW T \in Attacks(DesignOf(p))
    PROVE  /\ Cardinality(T) \in 1 .. p.S
           /\ (StakeAtRisk(DesignOf(p), T) - PrizeOf(DesignOf(p), T)) * ScaleOf(p) =
                  SymmetricMargin(p, Cardinality(T))
<1>1. T \in SUBSET (0 .. (p.S - 1)) /\ T # {}
  BY DesignIs DEF Attacks
<1>2. PICK h, k, c, s, a : /\ h = Cardinality({D \in Chosen(p) : D \cap T # {}})
                           /\ k = Cardinality(T) /\ c = ScaleOf(p) /\ s = p.sigma /\ a = p.pi
  OBVIOUS
<1>3. k \in 1 .. p.S /\ h \in Nat /\ h * c = ValidatorsHit(p, k)
  BY <1>1, <1>2, HitsAreCounted
<1>4. c \in Nat /\ s \in Nat /\ a \in Nat /\ k \in Nat
  <2>1. p \in Symmetric /\ p.S \in Nat
    BY DesignIs DEF Symmetric
  <2>2. c \in Nat
    BY <1>2, <2>1, ScalePositive
  <2>3. QED
    BY <1>2, <1>3, <2>1, <2>2 DEF Symmetric
<1>5. StakeAtRisk(DesignOf(p), T) = h * s /\ PrizeOf(DesignOf(p), T) = k * a
  BY <1>1, <1>2, DesignRisk
<1>6. SymmetricMargin(p, k) = (h * c) * s - k * a * c
  BY <1>2, <1>3 DEF SymmetricMargin
<1>7. (h * s - k * a) * c = (h * c) * s - k * a * c
  BY <1>3, <1>4
<1>8. QED
  BY <1>2, <1>3, <1>5, <1>6, <1>7

\* There is an attack on each number of services.
LEMMA DesignSizes ==
    ASSUME NEW p \in Parameters, NEW k \in 1 .. p.S
    PROVE  \E T \in Attacks(DesignOf(p)) : Cardinality(T) = k
<1>1. p.S \in Nat /\ ServicesOf(DesignOf(p)) = 0 .. (p.S - 1)
  BY DesignIs DEF Symmetric
<1>2. k \in Nat /\ k >= 1 /\ k <= p.S
  BY <1>1
<1>3. Cardinality(0 .. (k - 1)) = k
  <2>1. 0 \in Int /\ k - 1 \in Int /\ ~(0 > k - 1) /\ (k - 1) - 0 + 1 = k
    BY <1>2
  <2>2. QED
    BY <2>1, FS_Interval
<1>4. 0 .. (k - 1) \in SUBSET (0 .. (p.S - 1)) /\ 0 \in 0 .. (k - 1)
  BY <1>1, <1>2
<1>5. 0 .. (k - 1) \in Attacks(DesignOf(p))
  BY <1>1, <1>4 DEF Attacks
<1>6. QED
  BY <1>3, <1>5

\* A mask other than 0 stands for some services, mask 1 for the first one.
LEMMA SomeBit ==
    ASSUME NEW n \in Nat, NEW m \in 1 .. (2 ^ n - 1)
    PROVE  \E i \in 0 .. (n - 1) : InMask(m, i)
<1> DEFINE Good == {j \in 0 .. n : \A a \in 1 .. (2 ^ j - 1) : \E i \in 0 .. (j - 1) : InMask(a, i)}
<1>1. 0 \in Good
  <2>1. 2 ^ 0 = 1 /\ 1 .. (1 - 1) = {} /\ 0 \in 0 .. n
    OBVIOUS
  <2>2. 1 .. (2 ^ 0 - 1) = {}
    BY <2>1
  <2>3. QED
    BY <2>1, <2>2
<1>2. ASSUME NEW j \in 0 .. n, j \in Good, j < n
      PROVE  j + 1 \in Good
  <2>1. j \in Nat /\ (j + 1) - 1 = j /\ j + 1 \in 0 .. n
    BY <1>2
  <2>2. PICK b : b = 2 ^ j
    OBVIOUS
  <2>3. b \in Nat \ {0} /\ 2 ^ (j + 1) = 2 * b
    BY <2>1, <2>2, PowerIs, PowerNext
  <2>4. ASSUME NEW a \in 1 .. (2 ^ (j + 1) - 1)
        PROVE  \E i \in 0 .. j : InMask(a, i)
    <3>1. a \in Nat /\ a >= 1 /\ a < 2 * b
      BY <2>3
    <3>2. CASE a < b
      <4>1. a \in 1 .. (2 ^ j - 1)
        BY <2>2, <2>3, <3>1, <3>2
      <4>2. PICK i \in 0 .. (j - 1) : InMask(a, i)
        BY <1>2, <4>1
      <4>3. i \in 0 .. j
        BY <2>1, <4>2
      <4>4. QED
        BY <4>2, <4>3
    <3>3. CASE ~(a < b)
      <4>1. PICK r : r = a - b
        OBVIOUS
      <4>2. r \in 0 .. (2 ^ j - 1) /\ a = r + 2 ^ j
        BY <2>2, <2>3, <3>1, <3>3, <4>1
      <4>3. InMask(a, j)
        BY <2>1, <4>2, TopBit
      <4>4. j \in 0 .. j
        BY <2>1
      <4>5. QED
        BY <4>3, <4>4
    <3>4. QED
      BY <3>2, <3>3
  <2>5. QED
    BY <2>1, <2>4
<1>3. 0 .. n \subseteq Good
  <2> HIDE DEF Good
  <2>1. QED
    BY <1>1, <1>2, IntervalInduction
<1>4. n \in Good
  <2> HIDE DEF Good
  <2>1. QED
    BY <1>3
<1>5. QED
  BY <1>4

LEMMA FirstMask ==
    ASSUME NEW i \in Nat
    PROVE  InMask(1, i) <=> i = 0
<1>1. InMask(1, 0)
  <2>1. 0 \in 0 .. (2 ^ 0 - 1) /\ 0 + 2 ^ 0 = 1 /\ 0 \in Nat
    OBVIOUS
  <2>2. InMask(0 + 2 ^ 0, 0)
    BY <2>1, TopBit
  <2>3. QED
    BY <2>1, <2>2
<1>2. ASSUME i # 0
      PROVE  ~InMask(1, i)
  <2>1. i - 1 \in Nat /\ i = (i - 1) + 1
    BY <1>2
  <2>2. 2 ^ i = 2 * 2 ^ (i - 1) /\ 2 ^ (i - 1) \in Nat \ {0}
    BY <2>1, PowerNext, PowerIs
  <2>3. 1 \in 0 .. (2 ^ i - 1)
    BY <2>2
  <2>4. QED
    BY <2>3, TopBit
<1>3. QED
  BY <1>1, <1>2

-----------------------------------------------------------------------------
\* The closed form

\* The subset in hand is the first of its margin.
FirstInv ==
    mask > 1 =>
        /\ worst.subset \in 1 .. (mask - 1)
        /\ \A m \in 1 .. (worst.subset - 1) : worst.margin < Margin(network, m)

LEMMA FirstInit == Init => FirstInv
BY DEF Init, FirstInv

LEMMA FirstStep == TypeInv /\ SubsetsInv /\ FirstInv /\ [Next]_vars => FirstInv'
<1> SUFFICES ASSUME TypeInv, SubsetsInv, FirstInv, [Next]_vars
             PROVE  FirstInv'
  OBVIOUS
<1>1. IsNetwork(network) /\ network.size \in Nat
  BY InputsAre DEF TypeInv
<1>2. mask \in Nat \ {0}
  <2>1. 2 ^ network.size \in Nat
    BY <1>1, PowerIs
  <2>2. QED
    BY <2>1 DEF TypeInv
<1>3. CASE CheckSubset
  <2>1. PICK margin : margin = Margin(network, mask)
    OBVIOUS
  <2>2. /\ worst' = IF Improves(margin, worst.margin)
                    THEN [subset |-> mask, margin |-> margin] ELSE worst
        /\ mask' = mask + 1 /\ network' = network
    BY <1>3, <2>1 DEF CheckSubset, inputs
  <2>3. \A m : Margin(network, m) \in Int
    BY <1>1, MarginOf
  <2>4. CASE Improves(margin, worst.margin)
    <3>1. worst'.margin = margin /\ worst'.subset = mask
      BY <2>2, <2>4
    <3>2. ASSUME NEW m \in 1 .. (mask - 1)
          PROVE  margin < Margin(network, m)
      <4>1. /\ mask > 1 /\ worst.margin = Margin(network, worst.subset)
            /\ worst.margin <= Margin(network, m)
        BY <1>2, <3>2 DEF SubsetsInv
      <4>2. worst.margin \in Int /\ margin \in Int /\ Margin(network, m) \in Int
        BY <2>1, <2>3, <4>1
      <4>3. margin < worst.margin
        BY <2>4, <4>2, AnalyzerAssumption DEF Improves
      <4>4. QED
        BY <4>1, <4>2, <4>3
    <3>3. mask \in 1 .. (mask' - 1)
      BY <1>2, <2>2
    <3>4. QED
      BY <2>2, <3>1, <3>2, <3>3 DEF FirstInv
  <2>5. CASE ~Improves(margin, worst.margin)
    <3>1. worst' = worst
      BY <2>2, <2>5
    <3>2. worst.margin # NoMargin
      BY <2>5 DEF Improves
    <3>3. mask > 1
      BY <1>2, <3>2 DEF SubsetsInv
    <3>4. worst.subset \in 1 .. (mask' - 1)
      BY <1>2, <2>2, <3>3 DEF FirstInv
    <3>5. QED
      BY <2>2, <3>1, <3>3, <3>4 DEF FirstInv
  <2>6. QED
    BY <2>4, <2>5
<1>4. CASE ~CheckSubset
  <2>1. UNCHANGED <<network, mask, worst>>
    BY <1>4 DEF Next, SubsetsChecked, BisectBudget, BudgetFound, SweepDegree, DegreesSwept,
                BisectStake, StakeFound, inputs, subsetVars, vars
  <2>2. QED
    BY <2>1 DEF FirstInv
<1>5. QED
  BY <1>3, <1>4

\* The services reported are an attack, one of the least margin.
LEMMA ReportedIs ==
    ASSUME Within30Services, TypeInv, SubsetsInv, FirstInv, phase # "subsets"
    PROVE  /\ ServicesIn(network, worst.subset) \in Attacks(network)
           /\ worst.subset \in Nat \ {0}
           /\ worst.subset # 1 => worst.margin < Margin(network, 1)
           /\ network.size \in Nat \ {0}
<1>1. IsNetwork(network) /\ network.size \in Nat \ {0} /\ network.size <= 30
  BY InputsAre, SizeWithin30 DEF TypeInv
<1>2. PICK w : w = 2 ^ network.size
  OBVIOUS
<1>3. ShiftOne(network.size) = w /\ w \in Nat /\ w >= 2
  BY <1>1, <1>2, AttacksAreMasks
<1>4. mask = w
  BY <1>2, <1>3 DEF TypeInv, SubsetsInv
<1>5. /\ worst.subset \in 1 .. (w - 1)
      /\ \A m \in 1 .. (worst.subset - 1) : worst.margin < Margin(network, m)
  BY <1>3, <1>4 DEF FirstInv
<1>6. \E i \in 0 .. (network.size - 1) : InMask(worst.subset, i)
  BY <1>1, <1>2, <1>5, SomeBit
<1>7. ServicesIn(network, worst.subset) \in Attacks(network)
  BY <1>6 DEF Attacks, ServicesIn, ServicesOf
<1>8. worst.subset # 1 => 1 \in 1 .. (worst.subset - 1)
  BY <1>3, <1>5
<1>9. QED
  BY <1>1, <1>3, <1>5, <1>7, <1>8

LEMMA ClosedGiven ==
    ASSUME Within30Services, OneValidatorPerChoice, TypeInv, SubsetsInv, FirstInv
    PROVE  ClosedFormIsExact
<1> SUFFICES ASSUME params # NoParameters, phase # "subsets"
             PROVE  /\ NetworkSecure <=> SymmetricSecure(params)
                    /\ worst.margin * ScaleOf(params) = SymmetricMargin(params, WorstSize(params))
                    /\ Cardinality({i \in ServicesOf(network) : InMask(worst.subset, i)})
                           = WorstSize(params)
  BY DEF ClosedFormIsExact
<1>1. PICK p : p = params
  OBVIOUS
<1>2. p \in Parameters /\ network = DesignOf(p)
  BY <1>1 DEF TypeInv, Inputs
<1>3. p \in Symmetric /\ p.d <= p.S /\ p.S \in Nat \ {0}
  BY <1>2, DesignIs DEF Symmetric
<1>4. PICK c, g, w, R, k : /\ c = ScaleOf(p) /\ g = worst.margin /\ w = WorstSize(p)
                           /\ R = ServicesIn(network, worst.subset) /\ k = Cardinality(R)
  OBVIOUS
<1>5. c \in Nat \ {0}
  BY <1>3, <1>4, ScalePositive
<1>6. /\ w \in 1 .. p.S
      /\ \A j \in 1 .. p.S :
            /\ SymmetricMargin(p, w) <= SymmetricMargin(p, j)
            /\ j < w => SymmetricMargin(p, w) < SymmetricMargin(p, j)
  BY <1>3, <1>4, WorstIs
<1>7. \A j \in 1 .. p.S : SymmetricMargin(p, j) \in Int
  BY <1>3, MarginIs
<1>8. IsNetwork(network)
  BY InputsAre DEF TypeInv
<1>9. /\ g \in Int /\ g = Margin(network, worst.subset)
      /\ NetworkSecure <=> g >= 0
      /\ \A T \in Attacks(network) : g <= StakeAtRisk(network, T) - PrizeOf(network, T)
  BY <1>4, ReportedIsWorst
<1>10. R \in Attacks(network)
  BY <1>4, ReportedIs
<1>11. k \in 1 .. p.S /\ g * c = SymmetricMargin(p, k)
  <2>1. g = StakeAtRisk(network, R) - PrizeOf(network, R)
    BY <1>4, <1>8, <1>9, MarginOf
  <2>2. QED
    BY <1>2, <1>4, <1>10, <2>1, DesignMargin
<1>12. g * c <= SymmetricMargin(p, w)
  <2>1. PICK T \in Attacks(network) : Cardinality(T) = w
    BY <1>2, <1>6, DesignSizes
  <2>2. PICK h : h = StakeAtRisk(network, T) - PrizeOf(network, T)
    OBVIOUS
  <2>3. h * c = SymmetricMargin(p, w) /\ g <= h
    BY <1>2, <1>4, <1>9, <2>1, <2>2, DesignMargin
  <2>4. h \in Int
    <3>1. \E m : T = ServicesIn(network, m)
      BY <1>8, AttacksAreMasks, InputsAre, SizeWithin30 DEF TypeInv
    <3>2. QED
      BY <1>8, <2>2, <3>1, MarginOf
  <2>5. g * c <= h * c
    BY <1>5, <1>9, <2>3, <2>4, ProductMonotone
  <2>6. QED
    BY <2>3, <2>5
<1>13. g * c = SymmetricMargin(p, w) /\ ~(k < w)
  <2>1. /\ SymmetricMargin(p, w) \in Int /\ SymmetricMargin(p, k) \in Int
        /\ SymmetricMargin(p, w) <= SymmetricMargin(p, k)
        /\ k < w => SymmetricMargin(p, w) < SymmetricMargin(p, k)
    BY <1>6, <1>7, <1>11
  <2>2. QED
    BY <1>11, <1>12, <2>1
<1>14. g >= 0 <=> g * c >= 0
  <2>1. g >= 0 => g * c >= 0
    <3>1. g >= 0 => 0 * c <= g * c
      BY <1>5, <1>9, ProductMonotone
    <3>2. 0 * c = 0 /\ g * c \in Int
      BY <1>5, <1>9
    <3>3. QED
      BY <3>1, <3>2
  <2>2. g * c >= 0 => g >= 0
    <3>1. 0 * c = 0 /\ g * c \in Int
      BY <1>5, <1>9
    <3>2. 0 * c <= g * c => 0 <= g
      BY <1>5, <1>9, ProductCancel
    <3>3. QED
      BY <1>9, <3>1, <3>2
  <2>3. QED
    BY <2>1, <2>2
<1>15. SymmetricSecure(p) <=> SymmetricMargin(p, w) >= 0
  <2>1. SymmetricSecure(p) => SymmetricMargin(p, w) >= 0
    BY <1>6 DEF SymmetricSecure
  <2>2. ASSUME SymmetricMargin(p, w) >= 0, NEW j \in 1 .. p.S
        PROVE  SymmetricMargin(p, j) >= 0
    BY <1>6, <1>7, <2>2
  <2>3. QED
    BY <2>1, <2>2 DEF SymmetricSecure
<1>16. k = w
  <2>1. w \in {1, p.S}
    BY <1>3, <1>4, WorstIsExtreme
  <2>2. CASE w = p.S
    BY <1>3, <1>11, <1>13, <2>2
  <2>3. CASE w = 1
    <3>1. PICK F : F = ServicesIn(network, 1)
      OBVIOUS
    <3>2. F = {0}
      <4>1. network.size \in Nat \ {0}
        BY ReportedIs
      <4>2. \A i \in ServicesOf(network) : i \in Nat
        BY <4>1 DEF ServicesOf
      <4>3. 0 \in ServicesOf(network)
        BY <4>1 DEF ServicesOf
      <4>4. \A i \in ServicesOf(network) : InMask(1, i) <=> i = 0
        BY <4>2, FirstMask
      <4>5. QED
        BY <3>1, <4>3, <4>4, Zenon DEF ServicesIn
    <3>3. F \in Attacks(network) /\ Cardinality(F) = 1
      <4>1. Cardinality(F) = 1
        BY <3>2, FS_Singleton
      <4>2. 0 \in ServicesOf(network)
        BY ReportedIs DEF ServicesOf
      <4>3. QED
        BY <3>2, <4>1, <4>2 DEF Attacks
    <3>4. PICK h : h = Margin(network, 1)
      OBVIOUS
    <3>5. h \in Int /\ h = StakeAtRisk(network, F) - PrizeOf(network, F)
      BY <1>8, <3>1, <3>4, MarginOf
    <3>6. h * c = SymmetricMargin(p, 1)
      BY <1>2, <1>4, <3>3, <3>5, DesignMargin
    <3>7. h * c <= g * c
      BY <1>5, <1>9, <1>13, <2>3, <3>5, <3>6
    <3>8. h <= g
      BY <1>5, <1>9, <3>5, <3>7, ProductCancel
    <3>9. worst.subset = 1
      BY <1>4, <1>9, <3>4, <3>5, <3>8, ReportedIs
    <3>10. QED
      BY <1>4, <2>3, <3>1, <3>3, <3>9
  <2>4. QED
    BY <2>1, <2>2, <2>3
<1>17. QED
  BY <1>1, <1>4, <1>9, <1>13, <1>14, <1>15, <1>16 DEF ServicesIn

(***************************************************************************)
(* symmetric-network.ts: with any parameters, as many validators as there  *)
(* are choices of d services and up to 30 of these, the closed form gives  *)
(* the verdict, the least margin and the size of the attack that the       *)
(* enumeration of all sets of services finds in the network itself.        *)
(***************************************************************************)
THEOREM ClosedFormExact ==
    ASSUME Within30Services, OneValidatorPerChoice
    PROVE  Spec => []ClosedFormIsExact
<1>1. TypeInv /\ SubsetsInv /\ FirstInv => ClosedFormIsExact
  BY ClosedGiven
<1>2. QED
  BY <1>1, TypeAlways, SubsetsInit, SubsetsStep, FirstInit, FirstStep, PTL DEF Spec

=============================================================================
