------------------------ MODULE NetworkAnalysisProofs ------------------------
(***************************************************************************)
(* The closed form of a symmetric network (NetworkAnalysis), for any       *)
(* number of validators and services, any degree and any amounts.          *)
(***************************************************************************)
EXTENDS NetworkAnalysis, SumTheorems

Symmetric == [n : Nat \ {0}, S : Nat \ {0}, d : Nat \ {0}, sigma : Nat, pi : Nat]

-----------------------------------------------------------------------------
\* Falling products

\* What the recursion of Falling gives, up to j.
LEMMA FallingIs ==
    ASSUME NEW x \in Int, NEW n \in Nat
    PROVE  \E g \in [0 .. n -> Int] :
              /\ g[0] = 1
              /\ \A i \in 1 .. n : g[i] = g[i - 1] * (x - (i - 1))
              /\ \A j \in 0 .. n : Falling(x, j) = g[j]
<1> DEFINE h == [i \in 1 .. n |-> x - (i - 1)]
<1>1. h \in [1 .. n -> Int]
  OBVIOUS
<1>2. PICK g \in [0 .. n -> Int] : IsProduct(g, h, n)
  <2> HIDE DEF h
  <2>1. QED
    BY <1>1, ProductExists
<1>3. g[0] = 1 /\ \A i \in 1 .. n : g[i] = g[i - 1] * (x - (i - 1))
  <2>1. \A i \in 0 .. n : g[i] = IF i = 0 THEN 1 ELSE g[i - 1] * h[i]
    BY <1>2 DEF IsProduct
  <2>2. \A i \in 1 .. n : i \in 0 .. n /\ i # 0 /\ h[i] = x - (i - 1)
    OBVIOUS
  <2> HIDE DEF h
  <2>3. 0 \in 0 .. n
    OBVIOUS
  <2>4. QED
    BY <2>1, <2>2, <2>3
<1>4. ASSUME NEW j \in 0 .. n
      PROVE  Falling(x, j) = g[j]
  <2> DEFINE Is(f) == f = [i \in 0 .. j |-> IF i = 0 THEN 1 ELSE f[i - 1] * (x - (i - 1))]
             part == [i \in 0 .. j |-> g[i]]
             product == CHOOSE f : Is(f)
  <2>1. Is(part)
    <3>1. \A i \in 0 .. j : part[i] = g[i] /\ (i # 0 => i \in 1 .. n /\ part[i - 1] = g[i - 1])
      OBVIOUS
    <3>2. \A i \in 0 .. j : part[i] = IF i = 0 THEN 1 ELSE part[i - 1] * (x - (i - 1))
      BY <1>3, <3>1
    <3>3. QED
      BY <3>2
  <2>2. Is(product)
    <3> HIDE DEF part, Is
    <3>1. QED
      BY <2>1, Zenon
  <2>3. Falling(x, j) = product[j]
    BY Zenon DEF Falling
  <2>4. \A i \in 0 .. j : product[i] = IF i = 0 THEN 1 ELSE product[i - 1] * (x - (i - 1))
    <3> HIDE DEF product
    <3>1. QED
      BY <2>2
  <2> DEFINE Good == {i \in 0 .. j : product[i] = g[i]}
  <2>5. 0 \in Good
    <3> HIDE DEF product
    <3>1. QED
      BY <1>3, <2>4
  <2>6. ASSUME NEW i \in 0 .. j, i \in Good, i < j
        PROVE  i + 1 \in Good
    <3>1. i + 1 \in 1 .. n /\ i + 1 \in 0 .. j /\ i + 1 # 0 /\ (i + 1) - 1 = i
      BY <2>6
    <3> HIDE DEF product
    <3>2. product[i + 1] = product[i] * (x - i) /\ g[i + 1] = g[i] * (x - i)
      BY <1>3, <2>4, <3>1
    <3>3. product[i] = g[i]
      BY <2>6
    <3>4. QED
      BY <3>1, <3>2, <3>3
  <2>7. 0 .. j \subseteq Good
    <3> HIDE DEF Good, product
    <3>1. j \in Nat
      OBVIOUS
    <3>2. QED
      BY <2>5, <2>6, <3>1, IntervalInduction
  <2>8. j \in Good
    <3> HIDE DEF Good
    <3>1. QED
      BY <2>7
  <2>9. QED
    BY <2>3, <2>8
<1>5. QED
  BY <1>3, <1>4

LEMMA FallingNext ==
    ASSUME NEW x \in Int, NEW j \in Nat
    PROVE  /\ Falling(x, 0) = 1
           /\ Falling(x, j) \in Int
           /\ Falling(x, j + 1) = Falling(x, j) * (x - j)
<1>1. j + 1 \in Nat /\ {0, j, j + 1} \subseteq 0 .. (j + 1) /\ j + 1 \in 1 .. (j + 1)
      /\ (j + 1) - 1 = j
  OBVIOUS
<1>2. PICK g \in [0 .. (j + 1) -> Int] :
         /\ g[0] = 1
         /\ \A i \in 1 .. (j + 1) : g[i] = g[i - 1] * (x - (i - 1))
         /\ \A i \in 0 .. (j + 1) : Falling(x, i) = g[i]
  BY <1>1, FallingIs
<1>3. g[j + 1] = g[j] * (x - j)
  BY <1>1, <1>2
<1>4. QED
  BY <1>1, <1>2, <1>3

\* Positive as long as no factor is zero.
LEMMA FallingPositive ==
    ASSUME NEW x \in Nat, NEW j \in Nat, j <= x
    PROVE  Falling(x, j) \in Nat \ {0}
<1> DEFINE Good == {i \in 0 .. j : Falling(x, i) \in Nat \ {0}}
<1>1. 0 \in Good
  BY FallingNext
<1>2. ASSUME NEW i \in 0 .. j, i \in Good, i < j
      PROVE  i + 1 \in Good
  <2>1. Falling(x, i + 1) = Falling(x, i) * (x - i)
    BY FallingNext
  <2>2. x - i \in Nat \ {0} /\ Falling(x, i) \in Nat \ {0} /\ i + 1 \in 0 .. j
    BY <1>2
  <2>3. \A a, b \in Nat \ {0} : a * b \in Nat \ {0}
    OBVIOUS
  <2>4. QED
    BY <2>1, <2>2, <2>3
<1>3. 0 .. j \subseteq Good
  <2> HIDE DEF Good
  <2>1. QED
    BY <1>1, <1>2, IntervalInduction
<1>4. QED
  BY <1>3

\* a (a-1) ... / b (b-1) ... is at most its first factor a/b.
LEMMA FallingRatio ==
    ASSUME NEW a \in Nat, NEW b \in Nat, a <= b, NEW j \in Nat, 1 <= j, j <= a
    PROVE  /\ Falling(a, j) * b <= a * Falling(b, j)
           /\ Falling(a, j) <= Falling(b, j)
<1> DEFINE F(i) == Falling(a, i)
           G(i) == Falling(b, i)
           Good == {i \in 0 .. j : i = 0 \/ F(i) * b <= a * G(i)}
<1>1. \A i \in 0 .. j : F(i) \in Nat \ {0} /\ G(i) \in Nat \ {0}
  BY FallingPositive
<1>2. \A i \in 0 .. j : F(i + 1) = F(i) * (a - i) /\ G(i + 1) = G(i) * (b - i)
  BY FallingNext
<1>3. F(0) = 1 /\ G(0) = 1
  BY FallingNext
<1>4. 0 \in Good
  OBVIOUS
<1>5. ASSUME NEW i \in 0 .. j, i \in Good, i < j
      PROVE  i + 1 \in Good
  <2>1. CASE i = 0
    <3> HIDE DEF F, G
    <3>1. F(0 + 1) = 1 * (a - 0) /\ G(0 + 1) = 1 * (b - 0)
      BY <1>2, <1>3
    <3>2. QED
      BY <1>5, <2>1, <3>1
  <2>2. CASE i # 0
    <3>1. PICK f, g, f1, g1 : f = F(i) /\ g = G(i) /\ f1 = F(i + 1) /\ g1 = G(i + 1)
      OBVIOUS
    <3> HIDE DEF F, G
    <3>2. f \in Nat /\ g \in Nat /\ f * b <= a * g
      BY <1>1, <1>5, <2>2, <3>1
    <3>3. f1 = f * (a - i) /\ g1 = g * (b - i)
      BY <1>2, <3>1
    <3>4. (f * b) * (a - i) <= (a * g) * (a - i)
      <4>1. a - i \in Nat /\ f * b \in Int /\ a * g \in Int
        BY <1>5, <3>2
      <4>2. QED
        BY <3>2, <4>1, ProductMonotone
    <3>5. (a - i) * (a * g) <= (b - i) * (a * g)
      <4>1. a * g \in Nat /\ a - i \in Int /\ b - i \in Int /\ a - i <= b - i
        BY <3>2
      <4>2. QED
        BY <4>1, ProductMonotone
    <3>6. f1 * b = (f * b) * (a - i) /\ a * g1 = (b - i) * (a * g)
          /\ (a * g) * (a - i) = (a - i) * (a * g)
      BY <3>2, <3>3
    <3>7. f1 * b <= a * g1
      <4>1. (f * b) * (a - i) \in Int /\ (a - i) * (a * g) \in Int /\ (b - i) * (a * g) \in Int
        BY <3>2
      <4>2. QED
        BY <3>4, <3>5, <3>6, <4>1
    <3>8. QED
      BY <1>5, <3>1, <3>7
  <2>3. QED
    BY <2>1, <2>2
<1>6. 0 .. j \subseteq Good
  <2> HIDE DEF Good
  <2>1. QED
    BY <1>4, <1>5, IntervalInduction
<1>7. F(j) * b <= a * G(j)
  BY <1>6
<1>8. F(j) <= G(j)
  <2>1. PICK f, g : f = F(j) /\ g = G(j)
    OBVIOUS
  <2>2. f \in Nat /\ g \in Nat /\ f * b <= a * g /\ b > 0
    <3> HIDE DEF F, G
    <3>1. QED
      BY <1>1, <1>7, <2>1
  <2>3. a * g <= b * g
    BY <2>2, ProductMonotone
  <2>4. f * b <= g * b
    <3>1. b * g = g * b /\ f * b \in Int /\ a * g \in Int /\ g * b \in Int
      BY <2>2
    <3>2. QED
      BY <2>2, <2>3, <3>1
  <2>5. f <= g
    BY <2>2, <2>4, ProductCancel
  <2>6. QED
    BY <2>1, <2>5
<1>9. QED
  BY <1>7, <1>8

\* x (x-1) ... (x-j), grouped from either end.
LEMMA FallingShift ==
    ASSUME NEW x \in Int, NEW j \in Nat
    PROVE  Falling(x, j) * (x - j) = x * Falling(x - 1, j)
<1> DEFINE F(i) == Falling(x, i)
           G(i) == Falling(x - 1, i)
           Good == {i \in 0 .. j : F(i) * (x - i) = x * G(i)}
<1>1. \A i \in 0 .. j : /\ F(i) \in Int /\ G(i) \in Int
                        /\ F(i + 1) = F(i) * (x - i)
                        /\ G(i + 1) = G(i) * ((x - 1) - i)
  BY FallingNext
<1>2. F(0) = 1 /\ G(0) = 1
  BY FallingNext
<1>3. 0 \in Good
  BY <1>2
<1>4. ASSUME NEW i \in 0 .. j, i \in Good, i < j
      PROVE  i + 1 \in Good
  <2>1. PICK f, g, f1, g1 : f = F(i) /\ g = G(i) /\ f1 = F(i + 1) /\ g1 = G(i + 1)
    OBVIOUS
  <2> HIDE DEF F, G
  <2>2. /\ f \in Int /\ g \in Int /\ f * (x - i) = x * g
        /\ f1 = f * (x - i) /\ g1 = g * ((x - 1) - i)
    BY <1>1, <1>4, <2>1
  <2>3. f1 * (x - (i + 1)) = (x * g) * (x - (i + 1))
    BY <2>2
  <2>4. x * g1 = (x * g) * (x - (i + 1))
    BY <2>2
  <2>5. QED
    BY <1>4, <2>1, <2>3, <2>4
<1>5. 0 .. j \subseteq Good
  <2> HIDE DEF Good
  <2>1. QED
    BY <1>3, <1>4, IntervalInduction
<1>6. QED
  BY <1>5

-----------------------------------------------------------------------------
\* Validators hit

LEMMA ScalePositive ==
    ASSUME NEW p \in Symmetric
    PROVE  ScaleOf(p) \in Nat \ {0}
BY FallingPositive DEF ScaleOf, Symmetric

\* The part that is missed falls at least as fast as the services left.
LEMMA MissedBounds ==
    ASSUME NEW p \in Symmetric, p.d < p.S, NEW k \in 1 .. p.S
    PROVE  /\ BinomRatio(p, k) \in Nat
           /\ BinomRatio(p, k) <= ScaleOf(p)
           /\ BinomRatio(p, k) * p.S <= (p.S - k) * ScaleOf(p)
           /\ BinomRatio(p, k) * (p.S - 1) <= (p.S - k) * BinomRatio(p, 1)
<1>1. /\ p.S \in Nat \ {0} /\ p.d \in Nat \ {0} /\ p.S - k \in Nat /\ p.S - 1 \in Nat
      /\ p.S - k <= p.S /\ p.S - k <= p.S - 1 /\ p.d <= p.S - 1
  BY DEF Symmetric
<1>2. ScaleOf(p) = Falling(p.S, p.d) /\ ScaleOf(p) \in Nat
  <2>1. ~(p.d >= p.S)
    BY <1>1
  <2>2. QED
    BY <2>1, ScalePositive DEF ScaleOf
<1>3. BinomRatio(p, 1) = Falling(p.S - 1, p.d) /\ BinomRatio(p, 1) \in Nat
  BY <1>1, FallingPositive DEF BinomRatio
<1>4. CASE p.S - k < p.d
  <2>1. BinomRatio(p, k) = 0
    BY <1>4 DEF BinomRatio
  <2>2. \A a, b \in Nat : a * b \in Nat /\ 0 * a = 0
    OBVIOUS
  <2>3. (p.S - k) * ScaleOf(p) \in Nat /\ (p.S - k) * BinomRatio(p, 1) \in Nat
    BY <1>1, <1>2, <1>3, <2>2
  <2>4. QED
    BY <1>1, <1>2, <2>1, <2>2, <2>3
<1>5. CASE p.S - k >= p.d
  <2>1. BinomRatio(p, k) = Falling(p.S - k, p.d)
    BY <1>1, <1>5 DEF BinomRatio
  <2>2. BinomRatio(p, k) \in Nat
    BY <1>1, <1>5, <2>1, FallingPositive
  <2>3. p.d <= p.S - k /\ 1 <= p.d
    BY <1>1, <1>5
  <2>4. /\ Falling(p.S - k, p.d) * p.S <= (p.S - k) * Falling(p.S, p.d)
        /\ Falling(p.S - k, p.d) <= Falling(p.S, p.d)
    BY <1>1, <2>3, FallingRatio
  <2>5. Falling(p.S - k, p.d) * (p.S - 1) <= (p.S - k) * Falling(p.S - 1, p.d)
    BY <1>1, <2>3, FallingRatio
  <2>6. QED
    BY <1>2, <1>3, <2>1, <2>2, <2>4, <2>5
<1>6. QED
  BY <1>1, <1>4, <1>5

\* An attack on k services hits at least k of every S validators, and all of them
\* when it is on all services.
LEMMA HitBounds ==
    ASSUME NEW p \in Symmetric, NEW k \in 1 .. p.S
    PROVE  /\ ValidatorsHit(p, k) \in Nat
           /\ ValidatorsHit(p, k) <= p.n * ScaleOf(p)
           /\ ValidatorsHit(p, k) * p.S >= p.n * k * ScaleOf(p)
           /\ ValidatorsHit(p, p.S) = p.n * ScaleOf(p)
<1>1. PICK n, S, c, H : n = p.n /\ S = p.S /\ c = ScaleOf(p) /\ H = ValidatorsHit(p, k)
  OBVIOUS
<1>2. n \in Nat \ {0} /\ S \in Nat \ {0} /\ c \in Nat /\ k \in Nat /\ k <= S
  BY <1>1, ScalePositive DEF Symmetric
<1>3. ValidatorsHit(p, p.S) = p.n * ScaleOf(p)
  BY <1>1, <1>2 DEF ValidatorsHit
<1>4. CASE k >= S \/ p.d >= S
  <2>1. H = n * c
    BY <1>1, <1>4 DEF ValidatorsHit
  <2>2. n * c \in Nat
    BY <1>2
  <2>3. k * (n * c) <= S * (n * c)
    BY <1>2, <2>2, ProductMonotone
  <2>4. H * S >= n * k * c
    BY <1>2, <2>1, <2>3
  <2>5. QED
    BY <1>1, <1>2, <1>3, <2>1, <2>2, <2>4
<1>5. CASE ~(k >= S \/ p.d >= S)
  <2>1. PICK r : r = BinomRatio(p, k)
    OBVIOUS
  <2>2. r \in Nat /\ r <= c /\ r * S <= (S - k) * c
    <3>1. p.d < p.S
      BY <1>1, <1>5 DEF Symmetric
    <3>2. QED
      BY <1>1, <2>1, <3>1, MissedBounds
  <2>3. H = n * (c - r)
    BY <1>1, <1>5, <2>1 DEF ValidatorsHit
  <2>4. c - r \in Nat /\ c - r <= c
    BY <1>2, <2>2
  <2>5. H \in Nat
    <3>1. \A a, b \in Nat : a * b \in Nat
      OBVIOUS
    <3>2. QED
      BY <1>2, <2>3, <2>4, <3>1
  <2>6. H <= n * c
    <3>1. (c - r) * n <= c * n
      BY <1>2, <2>4, ProductMonotone
    <3>2. QED
      BY <1>2, <2>2, <2>3, <3>1
  <2>7. H * S >= n * k * c
    <3>1. k * c <= (c - r) * S
      BY <1>2, <2>2
    <3>2. (k * c) * n <= ((c - r) * S) * n
      <4>1. k * c \in Int /\ (c - r) * S \in Int /\ n \in Nat
        BY <1>2, <2>2
      <4>2. QED
        BY <3>1, <4>1, ProductMonotone
    <3>3. (k * c) * n = n * k * c /\ ((c - r) * S) * n = (n * (c - r)) * S
      BY <1>2, <2>2
    <3>4. QED
      BY <2>3, <3>2, <3>3
  <2>8. QED
    BY <1>1, <1>3, <2>5, <2>6, <2>7
<1>6. QED
  BY <1>4, <1>5

\* An attack on one service hits d validators of every S.
LEMMA HitOne ==
    ASSUME NEW p \in Symmetric, p.d <= p.S
    PROVE  ValidatorsHit(p, 1) * p.S = p.n * p.d * ScaleOf(p)
<1>1. PICK n, S, d, c, H : n = p.n /\ S = p.S /\ d = p.d /\ c = ScaleOf(p) /\ H = ValidatorsHit(p, 1)
  OBVIOUS
<1>2. n \in Nat \ {0} /\ S \in Nat \ {0} /\ d \in Nat \ {0} /\ c \in Nat /\ d <= S
  BY <1>1, ScalePositive DEF Symmetric
<1>3. CASE 1 >= S \/ d >= S
  <2>1. H = n * c
    BY <1>1, <1>3 DEF ValidatorsHit
  <2>2. d = S
    BY <1>2, <1>3
  <2>3. QED
    BY <1>1, <1>2, <2>1, <2>2
<1>4. CASE ~(1 >= S \/ d >= S)
  <2>1. PICK r : r = Falling(S - 1, d)
    OBVIOUS
  <2>2. BinomRatio(p, 1) = r
    BY <1>1, <1>2, <1>4, <2>1 DEF BinomRatio
  <2>3. c = Falling(S, d)
    BY <1>1, <1>4 DEF ScaleOf
  <2>4. r \in Int /\ c * (S - d) = S * r
    BY <1>2, <2>1, <2>3, FallingNext, FallingShift
  <2>5. H = n * (c - r)
    BY <1>1, <1>4, <2>2 DEF ValidatorsHit
  <2>6. (c - r) * S = d * c
    BY <1>2, <2>4
  <2>7. (n * (c - r)) * S = n * ((c - r) * S) /\ n * (d * c) = n * d * c
    BY <1>2, <2>4
  <2>8. QED
    BY <1>1, <2>5, <2>6, <2>7
<1>5. QED
  BY <1>3, <1>4

\* Between one service and all of them, at least the chord.
LEMMA HitChord ==
    ASSUME NEW p \in Symmetric, p.d <= p.S, NEW k \in 1 .. p.S
    PROVE  ValidatorsHit(p, k) * (p.S - 1)
               >= (p.S - k) * ValidatorsHit(p, 1) + (k - 1) * (p.n * ScaleOf(p))
<1>1. PICK n, S, d, c, H, H1 : n = p.n /\ S = p.S /\ d = p.d /\ c = ScaleOf(p)
                               /\ H = ValidatorsHit(p, k) /\ H1 = ValidatorsHit(p, 1)
  OBVIOUS
<1>2. n \in Nat \ {0} /\ S \in Nat \ {0} /\ d \in Nat \ {0} /\ c \in Nat /\ k \in Nat
      /\ d <= S /\ k <= S /\ 1 <= k /\ H1 \in Nat
  <2>1. 1 \in 1 .. p.S
    BY DEF Symmetric
  <2>2. QED
    BY <1>1, <2>1, ScalePositive, HitBounds DEF Symmetric
<1>3. CASE k = S
  <2>1. H = n * c
    BY <1>1, <1>3, HitBounds
  <2>2. (S - k) * H1 = 0
    BY <1>2, <1>3
  <2>3. (n * c) * (S - 1) = (k - 1) * (n * c) /\ (n * c) * (S - 1) \in Int
    BY <1>2, <1>3
  <2>4. QED
    BY <1>1, <2>1, <2>2, <2>3
<1>4. CASE d = S
  <2>1. H = n * c /\ H1 = n * c
    BY <1>1, <1>4 DEF ValidatorsHit
  <2>2. PICK t : t = n * c
    OBVIOUS
  <2>3. t \in Int
    BY <1>2, <2>2
  <2>4. t * (S - 1) = (S - k) * t + (k - 1) * t /\ t * (S - 1) \in Int
    BY <1>2, <2>3
  <2>5. QED
    BY <1>1, <2>1, <2>2, <2>4
<1>5. CASE k < S /\ d < S
  <2>1. PICK r, r1 : r = BinomRatio(p, k) /\ r1 = BinomRatio(p, 1)
    OBVIOUS
  <2>2. r \in Nat /\ r1 \in Nat /\ r * (S - 1) <= (S - k) * r1
    <3>1. p.d < p.S /\ 1 \in 1 .. p.S
      BY <1>1, <1>2, <1>5
    <3>2. QED
      BY <1>1, <2>1, <3>1, MissedBounds
  <2>3. H = n * (c - r) /\ H1 = n * (c - r1)
    <3>1. ~(k >= p.S \/ p.d >= p.S) /\ ~(1 >= p.S \/ p.d >= p.S)
      BY <1>1, <1>2, <1>5
    <3>2. QED
      BY <1>1, <2>1, <3>1 DEF ValidatorsHit
  <2>4. (S - k) * (c - r1) + (k - 1) * c <= (c - r) * (S - 1)
    BY <1>2, <2>2
  <2>5. PICK low, high : low = (S - k) * (c - r1) + (k - 1) * c /\ high = (c - r) * (S - 1)
    OBVIOUS
  <2>6. low \in Int /\ high \in Int
    BY <1>2, <2>2, <2>5
  <2>7. low * n <= high * n
    BY <1>2, <2>4, <2>5, <2>6, ProductMonotone
  <2>8. high * n = (n * (c - r)) * (S - 1)
    BY <1>2, <2>2, <2>5
  <2>9. low * n = (S - k) * (n * (c - r1)) + (k - 1) * (n * c)
    BY <1>2, <2>2, <2>5
  <2>10. QED
    BY <1>1, <2>3, <2>7, <2>8, <2>9
<1>6. QED
  BY <1>2, <1>3, <1>4, <1>5

LEMMA DegreeFields ==
    ASSUME NEW p \in Symmetric, NEW d \in Nat \ {0}
    PROVE  /\ AtDegree(p, d) \in Symmetric
           /\ AtDegree(p, d).n = p.n /\ AtDegree(p, d).S = p.S /\ AtDegree(p, d).d = d
           /\ AtDegree(p, d).sigma = p.sigma /\ AtDegree(p, d).pi = p.pi
BY DEF AtDegree, Symmetric

\* One degree more, and an attack of the same size hits as large a part.
LEMMA HitGrows ==
    ASSUME NEW p \in Symmetric, NEW e \in Nat \ {0}, e + 1 <= p.S, NEW k \in 1 .. p.S
    PROVE  ValidatorsHit(AtDegree(p, e), k) * ScaleOf(AtDegree(p, e + 1))
               <= ValidatorsHit(AtDegree(p, e + 1), k) * ScaleOf(AtDegree(p, e))
<1> DEFINE p1 == AtDegree(p, e)
           p2 == AtDegree(p, e + 1)
<1>1. /\ p1 \in Symmetric /\ p1.n = p.n /\ p1.S = p.S /\ p1.d = e
      /\ p2 \in Symmetric /\ p2.n = p.n /\ p2.S = p.S /\ p2.d = e + 1
  BY DegreeFields
<1> HIDE DEF p1, p2
<1>2. PICK n, S, c, c2, H, H2 :
         /\ n = p.n /\ S = p.S /\ c = ScaleOf(p1) /\ c2 = ScaleOf(p2)
         /\ H = ValidatorsHit(p1, k) /\ H2 = ValidatorsHit(p2, k)
  OBVIOUS
<1>3. /\ n \in Nat \ {0} /\ S \in Nat \ {0} /\ c \in Nat /\ c2 \in Nat /\ k \in Nat
      /\ e + 1 <= S /\ 1 <= k /\ k <= S
      /\ H \in Nat /\ H2 \in Nat /\ H <= n * c
  BY <1>1, <1>2, ScalePositive, HitBounds DEF Symmetric
<1>4. CASE k = S \/ e + 1 = S
  <2>1. H2 = n * c2
    BY <1>1, <1>2, <1>4 DEF ValidatorsHit
  <2>2. H * c2 <= (n * c) * c2
    BY <1>3, ProductMonotone
  <2>3. (n * c) * c2 = (n * c2) * c
    BY <1>3
  <2>4. QED
    BY <1>2, <2>1, <2>2, <2>3 DEF p1, p2
<1>5. CASE k < S /\ e + 1 < S
  <2>1. PICK r, r2 : r = BinomRatio(p1, k) /\ r2 = BinomRatio(p2, k)
    OBVIOUS
  <2>2. r \in Nat /\ r2 \in Nat
    <3>1. p1.d < p1.S /\ p2.d < p2.S /\ k \in 1 .. p1.S /\ k \in 1 .. p2.S
      BY <1>1, <1>2, <1>3, <1>5
    <3>2. QED
      BY <1>1, <2>1, <3>1, MissedBounds
  <2>3. H = n * (c - r) /\ H2 = n * (c2 - r2)
    BY <1>1, <1>2, <1>3, <1>5, <2>1 DEF ValidatorsHit
  <2>4. c2 = c * (S - e)
    <3>1. c = Falling(S, e) /\ c2 = Falling(S, e + 1)
      BY <1>1, <1>2, <1>3, <1>5 DEF ScaleOf
    <3>2. QED
      BY <1>3, <3>1, FallingNext
  <2>5. r2 * c <= r * c2
    <3>1. r * c2 \in Nat
      <4>1. \A a, b \in Nat : a * b \in Nat
        OBVIOUS
      <4>2. QED
        BY <1>3, <2>2, <4>1
    <3>2. CASE S - k < e + 1
      <4>1. r2 = 0
        BY <1>1, <1>2, <2>1, <3>2 DEF BinomRatio
      <4>2. r2 * c = 0
        BY <1>3, <4>1
      <4>3. QED
        BY <3>1, <4>2
    <3>3. CASE S - k >= e + 1
      <4>1. ~(S - k < e + 1) /\ ~(S - k < e)
        BY <1>3, <3>3
      <4>2. r = Falling(S - k, e) /\ r2 = Falling(S - k, e + 1)
        BY <1>1, <1>2, <2>1, <4>1 DEF BinomRatio
      <4>3. r2 = r * (S - k - e)
        <5>1. S - k \in Int
          BY <1>3
        <5>2. QED
          BY <4>2, <5>1, FallingNext
      <4>4. (S - k - e) * (r * c) <= (S - e) * (r * c)
        <5>1. r * c \in Nat
          <6>1. \A a, b \in Nat : a * b \in Nat
            OBVIOUS
          <6>2. QED
            BY <1>3, <2>2, <6>1
        <5>2. S - k - e \in Int /\ S - e \in Int /\ S - k - e <= S - e
          BY <1>3
        <5>3. QED
          BY <5>1, <5>2, ProductMonotone
      <4>5. r2 * c = (S - k - e) * (r * c) /\ r * c2 = (S - e) * (r * c)
        BY <1>3, <2>2, <2>4, <4>3
      <4>6. QED
        BY <4>4, <4>5
    <3>4. QED
      BY <1>3, <3>2, <3>3
  <2>6. (r2 * c) * n <= (r * c2) * n
    BY <1>3, <2>2, <2>5, ProductMonotone
  <2>7. /\ H * c2 = n * c * c2 - (r * c2) * n
        /\ H2 * c = n * c * c2 - (r2 * c) * n
    BY <1>3, <2>2, <2>3
  <2>8. n * c * c2 \in Int /\ (r * c2) * n \in Int /\ (r2 * c) * n \in Int
    BY <1>3, <2>2
  <2>9. H * c2 <= H2 * c
    BY <2>6, <2>7, <2>8
  <2>10. QED
    BY <1>2, <2>9 DEF p1, p2
<1>6. QED
  BY <1>3, <1>4, <1>5

-----------------------------------------------------------------------------
\* The worst attack

LEMMA MarginIs ==
    ASSUME NEW p \in Symmetric, NEW k \in 1 .. p.S
    PROVE  /\ SymmetricMargin(p, k) \in Int
           /\ SymmetricMargin(p, k) = ValidatorsHit(p, k) * p.sigma - k * p.pi * ScaleOf(p)
BY HitBounds, ScalePositive DEF SymmetricMargin, Symmetric

\* The first size of the least margin.
LEMMA WorstIs ==
    ASSUME NEW p \in Symmetric
    PROVE  /\ WorstSize(p) \in 1 .. p.S
           /\ \A j \in 1 .. p.S :
                 /\ SymmetricMargin(p, WorstSize(p)) <= SymmetricMargin(p, j)
                 /\ j < WorstSize(p) => SymmetricMargin(p, WorstSize(p)) < SymmetricMargin(p, j)
<1> DEFINE m(k) == SymmetricMargin(p, k)
           R == {z \in (1 .. p.S) \X (1 .. p.S) : m(z[1]) <= m(z[2])}
<1>1. \A k \in 1 .. p.S : m(k) \in Int
  BY MarginIs
<1>2. p.S \in Nat /\ p.S > 0
  BY DEF Symmetric
<1>3. \A i, j \in 1 .. p.S : <<i, j>> \in R <=> m(i) <= m(j)
  OBVIOUS
<1>4. /\ \A i, j \in 1 .. p.S : <<i, j>> \in R \/ <<j, i>> \in R
      /\ \A i, j, k \in 1 .. p.S : <<i, j>> \in R /\ <<j, k>> \in R => <<i, k>> \in R
  <2> HIDE DEF m, R
  <2>1. QED
    BY <1>1, <1>3
<1>5. PICK k \in 1 .. p.S : \A j \in 1 .. p.S : <<k, j>> \in R /\ (j < k => <<j, k>> \notin R)
  <2> HIDE DEF R
  <2>1. QED
    BY <1>2, <1>4, FirstBest
<1>6. ASSUME NEW j \in 1 .. p.S
      PROVE  m(k) <= m(j) /\ (j < k => m(k) < m(j))
  <2> HIDE DEF m, R
  <2>1. <<k, j>> \in R /\ (j < k => <<j, k>> \notin R)
    BY <1>5
  <2>2. m(k) <= m(j) /\ (j < k => ~(m(j) <= m(k)))
    BY <1>3, <2>1
  <2>3. m(k) \in Int /\ m(j) \in Int
    BY <1>1
  <2>4. QED
    BY <2>2, <2>3
<1>7. \E w \in 1 .. p.S : \A j \in 1 .. p.S :
         /\ SymmetricMargin(p, w) <= SymmetricMargin(p, j)
         /\ j < w => SymmetricMargin(p, w) < SymmetricMargin(p, j)
  BY <1>6, Zenon
<1>8. QED
  BY <1>7, Zenon DEF WorstSize

\* It is on one service or on all of them.
LEMMA WorstIsExtreme ==
    ASSUME NEW p \in Symmetric, p.d <= p.S
    PROVE  WorstSize(p) \in {1, p.S}
<1>1. PICK w, S, n, c, s, a, H, H1, m, m1, mS :
         /\ w = WorstSize(p) /\ S = p.S /\ n = p.n /\ c = ScaleOf(p) /\ s = p.sigma
         /\ a = p.pi * ScaleOf(p) /\ H = ValidatorsHit(p, w) /\ H1 = ValidatorsHit(p, 1)
         /\ m = SymmetricMargin(p, w) /\ m1 = SymmetricMargin(p, 1)
         /\ mS = SymmetricMargin(p, S)
  OBVIOUS
<1>2. w \in 1 .. S /\ 1 \in 1 .. S /\ S \in 1 .. S /\ S \in Nat \ {0} /\ w \in Nat
  BY <1>1, WorstIs DEF Symmetric
<1>3. SUFFICES ASSUME 1 < w, w < S
               PROVE  FALSE
  BY <1>1, <1>2
<1>4. n \in Nat /\ c \in Nat /\ s \in Nat /\ a \in Nat /\ H \in Nat /\ H1 \in Nat
  <2>1. \A x, y \in Nat : x * y \in Nat
    OBVIOUS
  <2>2. QED
    BY <1>1, <1>2, <2>1, HitBounds, ScalePositive DEF Symmetric
<1>5. m = H * s - w * a /\ m1 = H1 * s - a /\ mS = (n * c) * s - S * a
  <2>1. p.pi \in Int /\ c \in Int
    BY <1>1, <1>4 DEF Symmetric
  <2>2. /\ m = H * s - w * p.pi * c /\ m1 = H1 * s - 1 * p.pi * c
        /\ mS = ValidatorsHit(p, S) * s - S * p.pi * c
    BY <1>1, <1>2, MarginIs
  <2>3. ValidatorsHit(p, S) = n * c
    BY <1>1, <1>2, HitBounds
  <2>4. w * p.pi * c = w * a /\ 1 * p.pi * c = a /\ S * p.pi * c = S * a
    BY <1>1, <1>2, <2>1
  <2>5. QED
    BY <2>2, <2>3, <2>4
<1>6. m < m1 /\ m <= mS
  BY <1>1, <1>2, <1>3, WorstIs
<1>7. m \in Int /\ m1 \in Int /\ mS \in Int
  BY <1>2, <1>4, <1>5
<1>8. (S - w) * H1 + (w - 1) * (n * c) <= H * (S - 1)
  BY <1>1, <1>2, HitChord
<1>9. ((S - w) * H1 + (w - 1) * (n * c)) * s <= (H * (S - 1)) * s
  <2>1. (S - w) * H1 + (w - 1) * (n * c) \in Int /\ H * (S - 1) \in Int
    BY <1>2, <1>4
  <2>2. QED
    BY <1>4, <1>8, <2>1, ProductMonotone
<1>10. /\ (S - w) * m1 + (w - 1) * mS
             = ((S - w) * H1 + (w - 1) * (n * c)) * s - (S - w) * a - (w - 1) * (S * a)
       /\ m * (S - 1) = (H * (S - 1)) * s - (w * a) * (S - 1)
  BY <1>2, <1>4, <1>5
<1>11. (S - w) * a + (w - 1) * (S * a) = (w * a) * (S - 1)
  BY <1>2, <1>4
<1>12. (S - w) * m1 + (w - 1) * mS <= m * (S - 1)
  <2>1. PICK x, y, z, u : /\ x = ((S - w) * H1 + (w - 1) * (n * c)) * s
                          /\ y = (H * (S - 1)) * s
                          /\ z = (w * a) * (S - 1)
                          /\ u = (S - w) * a /\ z - u = (w - 1) * (S * a)
    BY <1>2, <1>4, <1>11
  <2>2. x \in Int /\ y \in Int /\ z \in Int /\ u \in Int
    BY <1>2, <1>4, <2>1
  <2>3. x <= y
    BY <1>9, <2>1
  <2>4. (S - w) * m1 + (w - 1) * mS = x - u - (z - u) /\ m * (S - 1) = y - z
    BY <1>10, <2>1
  <2>5. QED
    BY <2>2, <2>3, <2>4
<1>13. (m + 1) * (S - w) <= m1 * (S - w) /\ m * (w - 1) <= mS * (w - 1)
  <2>1. S - w \in Nat /\ w - 1 \in Nat /\ m + 1 <= m1
    BY <1>2, <1>3, <1>6, <1>7
  <2>2. QED
    BY <1>6, <1>7, <2>1, ProductMonotone
<1>14. (m + 1) * (S - w) + m * (w - 1) = m * (S - 1) + (S - w)
  BY <1>2, <1>7
<1>15. /\ m1 * (S - w) = (S - w) * m1 /\ mS * (w - 1) = (w - 1) * mS
       /\ m1 * (S - w) \in Int /\ mS * (w - 1) \in Int /\ m * (S - 1) \in Int
       /\ (m + 1) * (S - w) \in Int /\ m * (w - 1) \in Int
  BY <1>2, <1>7
<1>16. QED
  BY <1>2, <1>3, <1>12, <1>13, <1>14, <1>15

-----------------------------------------------------------------------------
\* The least cost of an attack

LEMMA CostIs ==
    ASSUME NEW p \in Symmetric
    PROVE  /\ MinAttackCost(p).num = ValidatorsHit(p, WorstSize(p)) * p.sigma
           /\ MinAttackCost(p).den = ScaleOf(p)
           /\ MinAttackCost(p).num \in Nat /\ MinAttackCost(p).den \in Nat \ {0}
           /\ MinAttackCost(p).num <= (p.n * ScaleOf(p)) * p.sigma
<1>1. PICK H : H = ValidatorsHit(p, WorstSize(p))
  OBVIOUS
<1>2. H \in Nat /\ H <= p.n * ScaleOf(p) /\ p.n * ScaleOf(p) \in Int
  BY <1>1, WorstIs, HitBounds, ScalePositive DEF Symmetric
<1>3. p.sigma \in Nat /\ ScaleOf(p) \in Nat \ {0}
  BY ScalePositive DEF Symmetric
<1>4. H * p.sigma \in Nat
  <2>1. \A a, b \in Nat : a * b \in Nat
    OBVIOUS
  <2>2. QED
    BY <1>2, <1>3, <2>1
<1>5. H * p.sigma <= (p.n * ScaleOf(p)) * p.sigma
  BY <1>2, <1>3, ProductMonotone
<1>6. QED
  BY <1>1, <1>3, <1>4, <1>5 DEF MinAttackCost

\* Of two networks of the same validators, amounts and prizes, the one in which an
\* attack on one service hits a larger part costs at least as much to attack, if it
\* has no fewer services.
LEMMA CostsMore ==
    ASSUME NEW p \in Symmetric, NEW q \in Symmetric, p.d <= p.S, q.d <= q.S, p.S <= q.S,
           p.n = q.n, p.sigma = q.sigma, p.pi = q.pi,
           ValidatorsHit(p, 1) * ScaleOf(q) <= ValidatorsHit(q, 1) * ScaleOf(p)
    PROVE  AtLeast(MinAttackCost(q), MinAttackCost(p))
<1>1. PICK n, s, a, S, T, c, e, v, w :
         /\ n = p.n /\ s = p.sigma /\ a = p.pi /\ S = p.S /\ T = q.S
         /\ c = ScaleOf(p) /\ e = ScaleOf(q) /\ v = WorstSize(p) /\ w = WorstSize(q)
  OBVIOUS
<1>2. PICK H, K, x, y : /\ H = ValidatorsHit(p, 1) /\ K = ValidatorsHit(q, 1)
                        /\ x = MinAttackCost(p).num /\ y = MinAttackCost(q).num
  OBVIOUS
<1>3. /\ n \in Nat /\ s \in Nat /\ a \in Nat /\ S \in Nat \ {0} /\ T \in Nat \ {0} /\ S <= T
      /\ c \in Nat \ {0} /\ e \in Nat \ {0} /\ 1 \in 1 .. S /\ 1 \in 1 .. T
      /\ S \in 1 .. S /\ T \in 1 .. T
  BY <1>1, ScalePositive DEF Symmetric
<1>4. H \in Nat /\ K \in Nat /\ H * e <= K * c
  BY <1>1, <1>2, <1>3, HitBounds
<1>5. /\ x \in Nat /\ y \in Nat /\ x <= (n * c) * s
      /\ x = ValidatorsHit(p, v) * s /\ y = ValidatorsHit(q, w) * s
      /\ MinAttackCost(p).den = c /\ MinAttackCost(q).den = e
  BY <1>1, <1>2, CostIs
<1>6. v \in {1, S} /\ w \in {1, T}
  BY <1>1, WorstIsExtreme
<1>7. CASE w = T
  <2>1. y = (n * e) * s
    BY <1>1, <1>3, <1>5, <1>7, HitBounds
  <2>2. x * e <= ((n * c) * s) * e
    <3>1. (n * c) * s \in Int
      BY <1>3
    <3>2. QED
      BY <1>3, <1>5, <3>1, ProductMonotone
  <2>3. ((n * c) * s) * e = ((n * e) * s) * c
    BY <1>3
  <2>4. x * e <= y * c
    BY <2>1, <2>2, <2>3
  <2>5. QED
    BY <1>2, <1>5, <2>4 DEF AtLeast
<1>8. CASE w = 1 /\ w # T
  <2>1. K * s - a * e <= (n * e) * s - T * a * e
    <3>1. SymmetricMargin(q, 1) <= SymmetricMargin(q, T)
      BY <1>1, <1>3, <1>8, WorstIs
    <3>2. SymmetricMargin(q, 1) = K * s - 1 * a * e
      BY <1>1, <1>2, <1>3, MarginIs
    <3>3. SymmetricMargin(q, T) = (n * e) * s - T * a * e
      BY <1>1, <1>3, MarginIs, HitBounds
    <3>4. 1 * a * e = a * e
      BY <1>3
    <3>5. QED
      BY <3>1, <3>2, <3>3, <3>4
  <2>2. H * s - a * c <= (n * c) * s - S * a * c
    <3>1. (H * e) * s <= (K * c) * s
      <4>1. H * e \in Int /\ K * c \in Int
        BY <1>3, <1>4
      <4>2. QED
        BY <1>3, <1>4, <4>1, ProductMonotone
    <3>2. (K * s - a * e) * c <= ((n * e) * s - T * a * e) * c
      <4>1. K * s - a * e \in Int /\ (n * e) * s - T * a * e \in Int
        BY <1>3, <1>4
      <4>2. QED
        BY <1>3, <2>1, <4>1, ProductMonotone
    <3>3. S * (a * c * e) <= T * (a * c * e)
      <4>1. a * c * e \in Nat
        <5>1. \A i, j \in Nat : i * j \in Nat
          OBVIOUS
        <5>2. QED
          BY <1>3, <5>1
      <4>2. QED
        BY <1>3, <4>1, ProductMonotone
    <3>4. PICK he, kc, ace, sa, ta, nn :
             /\ he = (H * e) * s /\ kc = (K * c) * s /\ ace = a * c * e
             /\ sa = S * (a * c * e) /\ ta = T * (a * c * e) /\ nn = n * c * e * s
      OBVIOUS
    <3>5. he \in Int /\ kc \in Int /\ ace \in Int /\ sa \in Int /\ ta \in Int /\ nn \in Int
      BY <1>3, <1>4, <3>4
    <3>6. /\ (K * s - a * e) * c = kc - ace
          /\ ((n * e) * s - T * a * e) * c = nn - ta
      BY <1>3, <1>4, <3>4
    <3>7. he - ace <= nn - sa
      BY <3>1, <3>2, <3>3, <3>4, <3>5, <3>6
    <3>8. /\ (H * s - a * c) * e = he - ace
          /\ ((n * c) * s - S * a * c) * e = nn - sa
      BY <1>3, <1>4, <3>4
    <3>9. (H * s - a * c) * e <= ((n * c) * s - S * a * c) * e
      BY <3>7, <3>8
    <3>10. H * s - a * c \in Int /\ (n * c) * s - S * a * c \in Int /\ e \in Nat /\ e > 0
      BY <1>3, <1>4
    <3>11. QED
      BY <3>9, <3>10, ProductCancel
  <2>3. SymmetricMargin(p, 1) <= SymmetricMargin(p, S)
    <3>1. SymmetricMargin(p, 1) = H * s - 1 * a * c
      BY <1>1, <1>2, <1>3, MarginIs
    <3>2. SymmetricMargin(p, S) = (n * c) * s - S * a * c
      BY <1>1, <1>3, MarginIs, HitBounds
    <3>3. 1 * a * c = a * c
      BY <1>3
    <3>4. QED
      BY <2>2, <3>1, <3>2, <3>3
  <2>4. v = 1
    <3>1. SUFFICES ASSUME v = S, 1 < S
                   PROVE  FALSE
      BY <1>3, <1>6
    <3>2. SymmetricMargin(p, S) < SymmetricMargin(p, 1)
      BY <1>1, <1>3, <3>1, WorstIs
    <3>3. SymmetricMargin(p, S) \in Int /\ SymmetricMargin(p, 1) \in Int
      BY <1>1, <1>3, MarginIs
    <3>4. QED
      BY <2>3, <3>2, <3>3
  <2>5. x = H * s /\ y = K * s
    BY <1>2, <1>5, <1>8, <2>4
  <2>6. (H * e) * s <= (K * c) * s
    <3>1. H * e \in Int /\ K * c \in Int
      BY <1>3, <1>4
    <3>2. QED
      BY <1>3, <1>4, <3>1, ProductMonotone
  <2>7. (H * e) * s = x * e /\ (K * c) * s = y * c
    BY <1>3, <1>4, <2>5
  <2>8. QED
    BY <1>2, <1>5, <2>6, <2>7 DEF AtLeast
<1>9. QED
  BY <1>6, <1>7, <1>8

\* Robustness never falls as the degree grows.
LEMMA CostGrows ==
    ASSUME NEW p \in Symmetric, NEW e \in Nat \ {0}, e + 1 <= p.S
    PROVE  AtLeast(MinAttackCost(AtDegree(p, e + 1)), MinAttackCost(AtDegree(p, e)))
<1> DEFINE p1 == AtDegree(p, e)
           p2 == AtDegree(p, e + 1)
<1>1. /\ p1 \in Symmetric /\ p1.n = p.n /\ p1.S = p.S /\ p1.d = e
      /\ p1.sigma = p.sigma /\ p1.pi = p.pi
      /\ p2 \in Symmetric /\ p2.n = p.n /\ p2.S = p.S /\ p2.d = e + 1
      /\ p2.sigma = p.sigma /\ p2.pi = p.pi
  BY DegreeFields
<1>2. ValidatorsHit(p1, 1) * ScaleOf(p2) <= ValidatorsHit(p2, 1) * ScaleOf(p1)
  <2>1. 1 \in 1 .. p.S
    BY DEF Symmetric
  <2>2. QED
    BY <2>1, HitGrows
<1>3. p.S \in Nat
  BY DEF Symmetric
<1> HIDE DEF p1, p2
<1>4. AtLeast(MinAttackCost(p2), MinAttackCost(p1))
  BY <1>1, <1>2, <1>3, CostsMore
<1>5. QED
  BY <1>4 DEF p1, p2

LEMMA BaseFields ==
    ASSUME NEW p \in Symmetric
    PROVE  /\ WithBase(p) \in Symmetric
           /\ WithBase(p).n = p.n /\ WithBase(p).S = p.S + 1 /\ WithBase(p).d = p.d + 1
           /\ WithBase(p).sigma = p.sigma /\ WithBase(p).pi = p.pi
<1> DEFINE q == WithBase(p)
           r == [p EXCEPT !.S = p.S + 1]
<1>1. /\ r \in Symmetric /\ r.n = p.n /\ r.S = p.S + 1 /\ r.d = p.d
      /\ r.sigma = p.sigma /\ r.pi = p.pi
  BY DEF Symmetric
<1>2. q = [r EXCEPT !.d = r.d + 1]
  BY <1>1, Zenon DEF WithBase
<1> HIDE DEF q, r
<1>3. q \in Symmetric /\ q.n = p.n /\ q.S = p.S + 1 /\ q.d = p.d + 1
      /\ q.sigma = p.sigma /\ q.pi = p.pi
  BY <1>1, <1>2 DEF Symmetric
<1>4. QED
  BY <1>3 DEF q

\* Nor does it fall when every validator allocates to one service more.
LEMMA BaseHelps ==
    ASSUME NEW p \in Symmetric, p.d <= p.S
    PROVE  AtLeast(MinAttackCost(WithBase(p)), MinAttackCost(p))
<1> DEFINE q == WithBase(p)
<1>1. /\ q \in Symmetric /\ q.n = p.n /\ q.S = p.S + 1 /\ q.d = p.d + 1
      /\ q.sigma = p.sigma /\ q.pi = p.pi
  BY BaseFields
<1> HIDE DEF q
<1>2. PICK n, S, d, c, e, H, K : /\ n = p.n /\ S = p.S /\ d = p.d /\ c = ScaleOf(p)
                                 /\ e = ScaleOf(q) /\ H = ValidatorsHit(p, 1)
                                 /\ K = ValidatorsHit(q, 1)
  OBVIOUS
<1>3. /\ n \in Nat /\ S \in Nat \ {0} /\ d \in Nat \ {0} /\ c \in Nat /\ e \in Nat /\ d <= S
      /\ H \in Nat /\ K \in Nat
  <2>1. 1 \in 1 .. p.S /\ 1 \in 1 .. q.S
    BY <1>1 DEF Symmetric
  <2>2. QED
    BY <1>1, <1>2, <2>1, ScalePositive, HitBounds DEF Symmetric
<1>4. H * S = n * d * c /\ K * (S + 1) = n * (d + 1) * e
  BY <1>1, <1>2, <1>3, HitOne
<1>5. d * (S + 1) <= (d + 1) * S
  BY <1>3
<1>6. (d * (S + 1)) * (n * c * e) <= ((d + 1) * S) * (n * c * e)
  <2>1. n * c * e \in Nat /\ d * (S + 1) \in Int /\ (d + 1) * S \in Int
    <3>1. \A i, j \in Nat : i * j \in Nat
      OBVIOUS
    <3>2. QED
      BY <1>3, <3>1
  <2>2. QED
    BY <1>5, <2>1, ProductMonotone
<1>7. (H * e) * (S * (S + 1)) = (d * (S + 1)) * (n * c * e)
  <2>1. (H * e) * (S * (S + 1)) = (H * S) * (e * (S + 1))
    BY <1>3
  <2>2. (n * d * c) * (e * (S + 1)) = (d * (S + 1)) * (n * c * e)
    BY <1>3
  <2>3. QED
    BY <1>4, <2>1, <2>2
<1>8. (K * c) * (S * (S + 1)) = ((d + 1) * S) * (n * c * e)
  <2>1. (K * c) * (S * (S + 1)) = (K * (S + 1)) * (c * S)
    BY <1>3
  <2>2. (n * (d + 1) * e) * (c * S) = ((d + 1) * S) * (n * c * e)
    BY <1>3
  <2>3. QED
    BY <1>4, <2>1, <2>2
<1>9. H * e <= K * c
  <2>1. (H * e) * (S * (S + 1)) <= (K * c) * (S * (S + 1))
    BY <1>6, <1>7, <1>8
  <2>2. H * e \in Int /\ K * c \in Int /\ S * (S + 1) \in Nat /\ S * (S + 1) > 0
    <3>1. \A i, j \in Nat \ {0} : i * j \in Nat \ {0}
      OBVIOUS
    <3>2. QED
      BY <1>3, <3>1
  <2>3. QED
    BY <2>1, <2>2, ProductCancel
<1>10. AtLeast(MinAttackCost(q), MinAttackCost(p))
  <2>1. q.d <= q.S /\ p.S <= q.S
    BY <1>1, <1>2, <1>3
  <2>2. QED
    BY <1>1, <1>2, <1>9, <2>1, CostsMore
<1>11. QED
  BY <1>10 DEF q

\* The symmetric networks in which cost exceeds the prize of everything are secure.
LEMMA CostlyIsSecure ==
    ASSUME NEW p \in Symmetric, MinAttackCost(p).num > p.pi * p.S * MinAttackCost(p).den
    PROVE  SymmetricSecure(p)
<1> DEFINE w == WorstSize(p)
           m == SymmetricMargin(p, w)
<1>1. w \in 1 .. p.S /\ \A k \in 1 .. p.S : m <= SymmetricMargin(p, k)
  BY WorstIs
<1>2. m = ValidatorsHit(p, w) * p.sigma - w * p.pi * ScaleOf(p)
  BY DEF SymmetricMargin
<1>3. ValidatorsHit(p, w) * p.sigma > p.pi * p.S * ScaleOf(p)
  BY DEF MinAttackCost
<1>4. /\ ScaleOf(p) \in Nat /\ p.pi \in Nat /\ p.S \in Nat /\ p.sigma \in Int
      /\ ValidatorsHit(p, w) \in Int /\ m \in Int /\ w \in Nat /\ w <= p.S
  BY <1>1, ScalePositive, HitBounds, MarginIs DEF Symmetric
<1>5. w * p.pi * ScaleOf(p) <= p.pi * p.S * ScaleOf(p)
  <2>1. w * (p.pi * ScaleOf(p)) <= p.S * (p.pi * ScaleOf(p))
    <3>1. p.pi * ScaleOf(p) \in Nat
      BY <1>4
    <3>2. QED
      BY <1>4, <3>1, ProductMonotone
  <2>2. QED
    BY <1>4, <2>1
<1>6. m >= 0
  <2> HIDE DEF w, m
  <2>1. QED
    BY <1>2, <1>3, <1>4, <1>5
<1>7. \A k \in 1 .. p.S : SymmetricMargin(p, k) \in Int
  BY MarginIs
<1> HIDE DEF w, m
<1>8. QED
  BY <1>1, <1>4, <1>6, <1>7 DEF SymmetricSecure

=============================================================================
