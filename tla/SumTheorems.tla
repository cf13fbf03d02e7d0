---------------------------- MODULE SumTheorems ----------------------------
(***************************************************************************)
(* Facts about SumFunction (Functions.tla), by which the totals the        *)
(* accounts keep are compared with the accounts.  A sum is a recursive     *)
(* function over the subsets of its domain; the inductions below go        *)
(* through the set of the subsets for which the fact holds.                *)
(***************************************************************************)
EXTENDS Integers, FiniteSets, Functions, FiniteSetTheorems, TLAPS

-----------------------------------------------------------------------------
\* Induction

\* A non-empty set of natural numbers has a least element.
LEMMA LeastElement ==
    ASSUME NEW T \in SUBSET Nat, T # {}
    PROVE  \E n \in T : \A m \in T : n <= m
<1>1. PICK n \in T : \A m \in T : <<m, n>> \notin OpToRel(<, Nat)
  BY NatLessThanWellFounded, WFMin, Zenon
<1>2. ASSUME NEW m \in T
      PROVE  n <= m
  <2>1. <<m, n>> \notin {ss \in Nat \X Nat : ss[1] < ss[2]}
    BY <1>1 DEF OpToRel
  <2>2. QED
    BY <2>1
<1>3. QED
  BY <1>2

\* A property of the subsets of a finite set, given as the set of the subsets
\* that have it, holds of all of them if removing one element preserves it
\* backwards.
LEMMA SubsetInduction ==
    ASSUME NEW D, IsFiniteSet(D), NEW Good \in SUBSET (SUBSET D),
           \A s \in SUBSET D : (\A x \in s : s \ {x} \in Good) => s \in Good
    PROVE  Good = SUBSET D
<1> DEFINE Bad   == (SUBSET D) \ Good
           Sizes == {n \in Nat : \E s \in Bad : Cardinality(s) = n}
<1>1. \A s \in SUBSET D : IsFiniteSet(s) /\ Cardinality(s) \in Nat
  BY FS_Subset, FS_CardinalityType
<1>2. SUFFICES ASSUME Bad # {}
               PROVE  FALSE
  OBVIOUS
<1>3. Sizes # {}
  BY <1>1, <1>2
<1>4. PICK n \in Sizes : \A m \in Sizes : n <= m
  <2> Sizes \in SUBSET Nat
    OBVIOUS
  <2> HIDE DEF Sizes
  <2>1. QED
    BY <1>3, LeastElement
<1>5. PICK s \in Bad : Cardinality(s) = n
  OBVIOUS
<1>6. PICK x \in s : s \ {x} \notin Good
  OBVIOUS
<1>7. s \ {x} \in Bad
  BY <1>6
<1>8. Cardinality(s \ {x}) = Cardinality(s) - 1
  BY <1>1, FS_RemoveElement
<1>9. Cardinality(s \ {x}) \in Sizes
  BY <1>1, <1>7
<1>10. n \in Nat
  OBVIOUS
<1>11. n <= n - 1
  <2> HIDE DEF Sizes
  <2>1. QED
    BY <1>4, <1>5, <1>8, <1>9
<1>12. QED
  BY <1>10, <1>11

-----------------------------------------------------------------------------
\* The recursion of a sum

\* The element a fold takes next.
Next1(s) == CHOOSE x \in s : TRUE

\* g gives every subset of D the sum of f over it.
Unfolds(g, f, D) ==
    g = [s \in SUBSET D |-> IF s = {} THEN 0 ELSE f[Next1(s)] + g[s \ {Next1(s)}]]

LEMMA Next1In ==
    ASSUME NEW s, s # {}
    PROVE  Next1(s) \in s
BY DEF Next1

\* Two such functions agree where both are defined.
LEMMA UnfoldsUnique ==
    ASSUME NEW D, IsFiniteSet(D), NEW E \in SUBSET D, NEW f,
           NEW g, Unfolds(g, f, D), NEW h, Unfolds(h, f, E)
    PROVE  \A s \in SUBSET E : g[s] = h[s]
<1> DEFINE Good == {s \in SUBSET E : g[s] = h[s]}
<1>1. IsFiniteSet(E)
  BY FS_Subset
<1>2. ASSUME NEW s \in SUBSET E, \A x \in s : s \ {x} \in Good
      PROVE  s \in Good
  <2>1. CASE s = {}
    BY <2>1 DEF Unfolds
  <2>2. CASE s # {}
    <3>1. Next1(s) \in s
      BY <2>2, Next1In
    <3>2. g[s \ {Next1(s)}] = h[s \ {Next1(s)}]
      BY <1>2, <3>1
    <3>3. g[s] = f[Next1(s)] + g[s \ {Next1(s)}]
      BY <2>2 DEF Unfolds
    <3>4. h[s] = f[Next1(s)] + h[s \ {Next1(s)}]
      BY <2>2 DEF Unfolds
    <3>5. QED
      BY <3>2, <3>3, <3>4
  <2>3. QED
    BY <2>1, <2>2
<1>3. Good = SUBSET E
  <2> HIDE DEF Good
  <2>1. Good \in SUBSET (SUBSET E)
    BY DEF Good
  <2>2. QED
    BY <1>1, <1>2, <2>1, SubsetInduction
<1>4. QED
  BY <1>3

\* There is one, put together from those of the strict subsets.
LEMMA UnfoldsExists ==
    ASSUME NEW D, IsFiniteSet(D), NEW f
    PROVE  \E g : Unfolds(g, f, D)
<1> DEFINE Good == {E \in SUBSET D : \A t \in SUBSET E : \E g : Unfolds(g, f, t)}
           part(t) == CHOOSE g : Unfolds(g, f, t)
<1>1. ASSUME NEW E \in SUBSET D, \A x \in E : E \ {x} \in Good
      PROVE  E \in Good
  <2> DEFINE whole == [s \in SUBSET E |->
                 IF s = {} THEN 0 ELSE f[Next1(s)] + part(s \ {Next1(s)})[s \ {Next1(s)}]]
  <2>1. \A t \in (SUBSET E) \ {E} : IsFiniteSet(t) /\ \E g : Unfolds(g, f, t)
    <3>1. ASSUME NEW t \in (SUBSET E) \ {E}
          PROVE  IsFiniteSet(t) /\ \E g : Unfolds(g, f, t)
      <4>1. PICK x \in E : t \in SUBSET (E \ {x})
        OBVIOUS
      <4>2. \E g : Unfolds(g, f, t)
        BY <1>1, <4>1
      <4>3. QED
        BY <4>2, FS_Subset
    <3>2. QED
      BY <3>1
  <2>2. \A t \in (SUBSET E) \ {E} : Unfolds(part(t), f, t)
    BY <2>1
  <2> HIDE DEF part
  <2>3. \A t \in (SUBSET E) \ {E} : part(t)[t] = whole[t]
    <3>1. ASSUME NEW t \in (SUBSET E) \ {E}, t = {}
          PROVE  part(t)[t] = 0
      BY <2>2, <3>1 DEF Unfolds
    <3>2. ASSUME NEW t \in (SUBSET E) \ {E}, t # {}
          PROVE  part(t)[t] = f[Next1(t)] + part(t \ {Next1(t)})[t \ {Next1(t)}]
      <4> DEFINE r == t \ {Next1(t)}
      <4>1. Next1(t) \in t
        BY <3>2, Next1In
      <4>2. r \in (SUBSET E) \ {E} /\ r \in SUBSET t
        BY <4>1
      <4>3. part(t)[t] = f[Next1(t)] + part(t)[r]
        BY <2>2, <3>2 DEF Unfolds
      <4>4. part(t)[r] = part(r)[r]
        <5> HIDE DEF r
        <5>1. Unfolds(part(t), f, t) /\ Unfolds(part(r), f, r) /\ IsFiniteSet(t)
          BY <2>1, <2>2, <4>2
        <5>2. QED
          BY <4>2, <5>1, UnfoldsUnique
      <4>5. QED
        BY <4>3, <4>4
    <3>3. QED
      BY <3>1, <3>2
  <2>4. \A s \in SUBSET E : s # {} =>
           part(s \ {Next1(s)})[s \ {Next1(s)}] = whole[s \ {Next1(s)}]
    BY <2>3, Next1In
  <2>5. Unfolds(whole, f, E)
    <3>1. whole = [s \in SUBSET E |-> IF s = {} THEN 0
                     ELSE f[Next1(s)] + whole[s \ {Next1(s)}]]
      BY <2>4
    <3> HIDE DEF whole
    <3>2. QED
      BY <3>1 DEF Unfolds
  <2>6. \A t \in SUBSET E : \E g : Unfolds(g, f, t)
    BY <2>1, <2>5
  <2>7. QED
    BY <2>6
<1>2. Good = SUBSET D
  <2> HIDE DEF Good
  <2>1. Good \in SUBSET (SUBSET D)
    BY DEF Good
  <2>2. QED
    BY <1>1, <2>1, SubsetInduction
<1>3. D \in Good
  BY <1>2
<1>4. QED
  BY <1>3

LEMMA SumUnfolds ==
    ASSUME NEW D, IsFiniteSet(D), NEW f
    PROVE  \E g : Unfolds(g, f, D) /\ SumFunctionOnSet(f, D) = g[D]
<1> DEFINE iter == CHOOSE g : g = [s \in SUBSET D |->
                      IF s = {} THEN 0 ELSE f[Next1(s)] + g[s \ {Next1(s)}]]
<1>1. SumFunctionOnSet(f, D) = iter[D]
  BY Zenon DEF SumFunctionOnSet, FoldFunctionOnSet, MapThenFoldSet, Next1
<1>2. Unfolds(iter, f, D)
  <2>1. PICK g : Unfolds(g, f, D)
    BY UnfoldsExists
  <2>2. g = [s \in SUBSET D |-> IF s = {} THEN 0 ELSE f[Next1(s)] + g[s \ {Next1(s)}]]
    BY <2>1, Zenon DEF Unfolds
  <2>3. iter = [s \in SUBSET D |->
                  IF s = {} THEN 0 ELSE f[Next1(s)] + iter[s \ {Next1(s)}]]
    BY <2>2, Zenon
  <2>4. QED
    BY <2>3, Zenon DEF Unfolds
<1>3. QED
  BY <1>1, <1>2, Zenon

LEMMA SumEmpty ==
    ASSUME NEW f
    PROVE  SumFunctionOnSet(f, {}) = 0
<1>1. PICK g : Unfolds(g, f, {}) /\ SumFunctionOnSet(f, {}) = g[{}]
  BY SumUnfolds, FS_EmptySet, Zenon
<1>2. QED
  BY <1>1 DEF Unfolds

\* The recursion equation.
LEMMA SumNext ==
    ASSUME NEW D, IsFiniteSet(D), NEW f, D # {}
    PROVE  SumFunctionOnSet(f, D) = f[Next1(D)] + SumFunctionOnSet(f, D \ {Next1(D)})
<1> DEFINE r == D \ {Next1(D)}
<1>1. IsFiniteSet(r) /\ r \in SUBSET D
  BY FS_RemoveElement
<1>2. PICK g : Unfolds(g, f, D) /\ SumFunctionOnSet(f, D) = g[D]
  BY SumUnfolds
<1>3. PICK h : Unfolds(h, f, r) /\ SumFunctionOnSet(f, r) = h[r]
  BY <1>1, SumUnfolds
<1>4. g[r] = h[r]
  <2> HIDE DEF r
  <2>1. QED
    BY <1>1, <1>2, <1>3, UnfoldsUnique
<1>5. g[D] = f[Next1(D)] + g[r]
  BY <1>2 DEF Unfolds
<1>6. QED
  BY <1>2, <1>3, <1>4, <1>5

-----------------------------------------------------------------------------
\* Sums over subsets

LEMMA SumType ==
    ASSUME NEW D, IsFiniteSet(D), NEW f, \A x \in D : f[x] \in Int
    PROVE  SumFunctionOnSet(f, D) \in Int
<1> DEFINE Good == {s \in SUBSET D : SumFunctionOnSet(f, s) \in Int}
<1>1. ASSUME NEW s \in SUBSET D, \A x \in s : s \ {x} \in Good
      PROVE  s \in Good
  <2>1. CASE s = {}
    BY <2>1, SumEmpty
  <2>2. CASE s # {}
    <3> DEFINE y == Next1(s)
               r == s \ {y}
    <3>1. y \in s
      BY <2>2, Next1In
    <3>2. SumFunctionOnSet(f, s) = f[y] + SumFunctionOnSet(f, r)
      BY <2>2, SumNext, FS_Subset
    <3>3. SumFunctionOnSet(f, r) \in Int /\ f[y] \in Int
      BY <1>1, <3>1
    <3> HIDE DEF y, r
    <3>4. QED
      BY <3>2, <3>3
  <2>3. QED
    BY <2>1, <2>2
<1>2. Good = SUBSET D
  <2> HIDE DEF Good
  <2>1. Good \in SUBSET (SUBSET D)
    BY DEF Good
  <2>2. QED
    BY <1>1, <2>1, SubsetInduction
<1>3. QED
  BY <1>2

\* The order in which the elements are added does not matter.
LEMMA SumRemove ==
    ASSUME NEW D, IsFiniteSet(D), NEW f, \A x \in D : f[x] \in Int, NEW e \in D
    PROVE  SumFunctionOnSet(f, D) = f[e] + SumFunctionOnSet(f, D \ {e})
<1> DEFINE Good == {s \in SUBSET D : \A x \in s :
                SumFunctionOnSet(f, s) = f[x] + SumFunctionOnSet(f, s \ {x})}
<1>1. ASSUME NEW s \in SUBSET D, \A x \in s : s \ {x} \in Good
      PROVE  s \in Good
  <2>1. ASSUME NEW x \in s, x # Next1(s)
        PROVE  SumFunctionOnSet(f, s) = f[x] + SumFunctionOnSet(f, s \ {x})
    <3> DEFINE y    == Next1(s)
               rest == (s \ {y}) \ {x}
    <3>1. y \in s
      BY Next1In
    <3>2. SumFunctionOnSet(f, s) = f[y] + SumFunctionOnSet(f, s \ {y})
      BY SumNext, FS_Subset
    <3>3. SumFunctionOnSet(f, s \ {y}) = f[x] + SumFunctionOnSet(f, rest)
      BY <1>1, <2>1, <3>1
    <3>4. SumFunctionOnSet(f, s \ {x}) = f[y] + SumFunctionOnSet(f, rest)
      <4>1. SumFunctionOnSet(f, s \ {x}) = f[y] + SumFunctionOnSet(f, (s \ {x}) \ {y})
        BY <1>1, <2>1, <3>1
      <4>2. (s \ {x}) \ {y} = rest
        OBVIOUS
      <4>3. QED
        BY <4>1, <4>2, Zenon
    <3>5. f[x] \in Int /\ f[y] \in Int /\ SumFunctionOnSet(f, rest) \in Int
      <4>1. IsFiniteSet(rest)
        BY FS_Subset
      <4>2. QED
        BY <3>1, <4>1, SumType
    <3> HIDE DEF y, rest
    <3>6. QED
      BY <3>2, <3>3, <3>4, <3>5
  <2>2. \A x \in s : SumFunctionOnSet(f, s) = f[x] + SumFunctionOnSet(f, s \ {x})
    <3>1. ASSUME NEW x \in s, x = Next1(s)
          PROVE  SumFunctionOnSet(f, s) = f[x] + SumFunctionOnSet(f, s \ {x})
      <4>1. IsFiniteSet(s) /\ s # {}
        BY FS_Subset
      <4>2. SumFunctionOnSet(f, s) = f[Next1(s)] + SumFunctionOnSet(f, s \ {Next1(s)})
        BY <4>1, SumNext
      <4>3. QED
        BY <3>1, <4>2, Zenon
    <3>2. QED
      BY <2>1, <3>1
  <2>3. QED
    BY <2>2
<1>2. Good = SUBSET D
  <2> HIDE DEF Good
  <2>1. Good \in SUBSET (SUBSET D)
    BY DEF Good
  <2>2. QED
    BY <1>1, <2>1, SubsetInduction
<1>3. QED
  BY <1>2

\* A sum depends on the values in its domain only, and is monotone in them.
LEMMA SumMonotone ==
    ASSUME NEW D, IsFiniteSet(D), NEW f, NEW g,
           \A x \in D : f[x] \in Int /\ g[x] \in Int /\ f[x] <= g[x]
    PROVE  SumFunctionOnSet(f, D) <= SumFunctionOnSet(g, D)
<1> DEFINE Good == {s \in SUBSET D : SumFunctionOnSet(f, s) <= SumFunctionOnSet(g, s)}
<1>1. ASSUME NEW s \in SUBSET D, \A x \in s : s \ {x} \in Good
      PROVE  s \in Good
  <2>1. CASE s = {}
    BY <2>1, SumEmpty
  <2>2. CASE s # {}
    <3> DEFINE y == Next1(s)
               r == s \ {y}
    <3>1. y \in s
      BY <2>2, Next1In
    <3>2. SumFunctionOnSet(f, s) = f[y] + SumFunctionOnSet(f, r)
      BY <2>2, SumNext, FS_Subset
    <3>3. SumFunctionOnSet(g, s) = g[y] + SumFunctionOnSet(g, r)
      BY <2>2, SumNext, FS_Subset
    <3>4. SumFunctionOnSet(f, r) <= SumFunctionOnSet(g, r)
      BY <1>1, <3>1
    <3>5. IsFiniteSet(r)
      BY FS_Subset
    <3>6. SumFunctionOnSet(f, r) \in Int /\ SumFunctionOnSet(g, r) \in Int
      BY <3>5, SumType
    <3>7. f[y] \in Int /\ g[y] \in Int /\ f[y] <= g[y]
      BY <3>1
    <3> HIDE DEF y, r
    <3>8. QED
      BY <3>2, <3>3, <3>4, <3>6, <3>7
  <2>3. QED
    BY <2>1, <2>2
<1>2. Good = SUBSET D
  <2> HIDE DEF Good
  <2>1. Good \in SUBSET (SUBSET D)
    BY DEF Good
  <2>2. QED
    BY <1>1, <2>1, SubsetInduction
<1>3. QED
  BY <1>2

LEMMA SumAgree ==
    ASSUME NEW D, IsFiniteSet(D), NEW f, NEW g,
           \A x \in D : f[x] \in Int /\ g[x] = f[x]
    PROVE  SumFunctionOnSet(f, D) = SumFunctionOnSet(g, D)
<1>1. /\ SumFunctionOnSet(f, D) <= SumFunctionOnSet(g, D)
      /\ SumFunctionOnSet(g, D) <= SumFunctionOnSet(f, D)
  BY SumMonotone
<1>2. SumFunctionOnSet(f, D) \in Int /\ SumFunctionOnSet(g, D) \in Int
  BY SumType
<1>3. QED
  BY <1>1, <1>2
\* Sums of two fields are added field by field.
LEMMA SumPlus ==
    ASSUME NEW D, IsFiniteSet(D), NEW f, NEW g, NEW h,
           \A x \in D : f[x] \in Int /\ g[x] \in Int /\ h[x] = f[x] + g[x]
    PROVE  SumFunctionOnSet(h, D) = SumFunctionOnSet(f, D) + SumFunctionOnSet(g, D)
<1> DEFINE Good == {s \in SUBSET D :
        SumFunctionOnSet(h, s) = SumFunctionOnSet(f, s) + SumFunctionOnSet(g, s)}
<1>1. ASSUME NEW s \in SUBSET D, \A x \in s : s \ {x} \in Good
      PROVE  s \in Good
  <2>1. CASE s = {}
    <3>1. /\ SumFunctionOnSet(f, {}) = 0 /\ SumFunctionOnSet(g, {}) = 0
          /\ SumFunctionOnSet(h, {}) = 0
      BY SumEmpty
    <3>2. QED
      BY <2>1, <3>1
  <2>2. CASE s # {}
    <3> DEFINE y == Next1(s)
               r == s \ {y}
    <3>1. y \in s /\ IsFiniteSet(s) /\ IsFiniteSet(r)
      BY <2>2, Next1In, FS_Subset
    <3>2. SumFunctionOnSet(f, s) = f[y] + SumFunctionOnSet(f, r)
      BY <2>2, <3>1, SumNext
    <3>3. SumFunctionOnSet(g, s) = g[y] + SumFunctionOnSet(g, r)
      BY <2>2, <3>1, SumNext
    <3>4. SumFunctionOnSet(h, s) = h[y] + SumFunctionOnSet(h, r)
      BY <2>2, <3>1, SumNext
    <3>5. SumFunctionOnSet(h, r) = SumFunctionOnSet(f, r) + SumFunctionOnSet(g, r)
      BY <1>1, <3>1
    <3>6. SumFunctionOnSet(f, r) \in Int /\ SumFunctionOnSet(g, r) \in Int
      BY <3>1, SumType
    <3>7. f[y] \in Int /\ g[y] \in Int /\ h[y] = f[y] + g[y]
      BY <3>1
    <3> HIDE DEF y, r
    <3>8. QED
      BY <3>2, <3>3, <3>4, <3>5, <3>6, <3>7
  <2>3. QED
    BY <2>1, <2>2
<1>2. Good = SUBSET D
  <2> HIDE DEF Good
  <2>1. Good \in SUBSET (SUBSET D)
    BY DEF Good
  <2>2. QED
    BY <1>1, <2>1, SubsetInduction
<1>3. QED
  BY <1>2

\* Elements whose value is zero may be left out.
LEMMA SumPart ==
    ASSUME NEW D, IsFiniteSet(D), NEW P \in SUBSET D, NEW f,
           \A x \in D : f[x] \in Int, \A x \in D \ P : f[x] = 0
    PROVE  SumFunctionOnSet(f, D) = SumFunctionOnSet(f, P)
<1> DEFINE Good == {s \in SUBSET D : SumFunctionOnSet(f, s) = SumFunctionOnSet(f, s \cap P)}
<1>1. ASSUME NEW s \in SUBSET D, \A x \in s : s \ {x} \in Good
      PROVE  s \in Good
  <2> DEFINE y == Next1(s)
             r == s \ {y}
  <2>1. CASE s = {}
    BY <2>1
  <2>2. ASSUME s # {}
        PROVE  /\ y \in s /\ IsFiniteSet(s) /\ IsFiniteSet(r) /\ IsFiniteSet(s \cap P)
               /\ SumFunctionOnSet(f, s) = f[y] + SumFunctionOnSet(f, r)
               /\ SumFunctionOnSet(f, r) = SumFunctionOnSet(f, r \cap P)
               /\ SumFunctionOnSet(f, r \cap P) \in Int
    <3>1. y \in s
      BY <2>2, Next1In
    <3>2. IsFiniteSet(s) /\ IsFiniteSet(r) /\ IsFiniteSet(s \cap P) /\ IsFiniteSet(r \cap P)
      BY FS_Subset
    <3>3. SumFunctionOnSet(f, s) = f[y] + SumFunctionOnSet(f, r)
      BY <2>2, <3>2, SumNext
    <3>4. SumFunctionOnSet(f, r) = SumFunctionOnSet(f, r \cap P)
      BY <1>1, <3>1
    <3>5. SumFunctionOnSet(f, r \cap P) \in Int
      <4>1. \A x \in r \cap P : f[x] \in Int
        OBVIOUS
      <4> HIDE DEF r
      <4>2. QED
        BY <3>2, <4>1, SumType
    <3>6. QED
      BY <3>1, <3>2, <3>3, <3>4, <3>5
  <2>3. CASE s # {} /\ y \in P
    <3>1. y \in s \cap P /\ \A x \in s \cap P : f[x] \in Int
      BY <2>2, <2>3
    <3>2. SumFunctionOnSet(f, s \cap P) = f[y] + SumFunctionOnSet(f, (s \cap P) \ {y})
      <4> HIDE DEF y
      <4>1. QED
        BY <2>2, <2>3, <3>1, SumRemove
    <3>3. (s \cap P) \ {y} = r \cap P
      OBVIOUS
    <3>4. SumFunctionOnSet(f, s \cap P) = f[y] + SumFunctionOnSet(f, r \cap P)
      BY <3>2, <3>3, Zenon
    <3> HIDE DEF y, r
    <3>5. SumFunctionOnSet(f, s) = SumFunctionOnSet(f, s \cap P)
      BY <2>2, <2>3, <3>4
    <3>6. QED
      BY <3>5
  <2>4. CASE s # {} /\ y \notin P
    <3>1. f[y] = 0
      BY <2>2, <2>4
    <3>2. s \cap P = r \cap P
      BY <2>4
    <3> HIDE DEF y, r
    <3>3. SumFunctionOnSet(f, s) = SumFunctionOnSet(f, r \cap P)
      BY <2>2, <2>4, <3>1
    <3>4. SumFunctionOnSet(f, s) = SumFunctionOnSet(f, s \cap P)
      BY <3>2, <3>3, Zenon
    <3>5. QED
      BY <3>4
  <2>5. QED
    BY <2>1, <2>3, <2>4
<1>2. Good = SUBSET D
  <2> HIDE DEF Good
  <2>1. Good \in SUBSET (SUBSET D)
    BY DEF Good
  <2>2. QED
    BY <1>1, <2>1, SubsetInduction
<1>3. D \cap P = P
  OBVIOUS
<1>4. SumFunctionOnSet(f, D) = SumFunctionOnSet(f, D \cap P)
  BY <1>2
<1>5. QED
  BY <1>3, <1>4, Zenon

-----------------------------------------------------------------------------
\* Totals: the sum over the domain of a function

LEMMA TotalInt ==
    ASSUME NEW D, IsFiniteSet(D), NEW f \in [D -> Int]
    PROVE  SumFunction(f) \in Int
BY SumType DEF SumFunction

LEMMA TotalZero ==
    ASSUME NEW D, IsFiniteSet(D), NEW f \in [D -> Int], \A x \in D : f[x] = 0
    PROVE  SumFunction(f) = 0
<1>1. SumFunctionOnSet(f, D) = SumFunctionOnSet(f, {})
  BY SumPart
<1>2. QED
  BY <1>1, SumEmpty DEF SumFunction

LEMMA TotalMonotone ==
    ASSUME NEW D, IsFiniteSet(D), NEW f \in [D -> Int], NEW g \in [D -> Int],
           \A x \in D : f[x] <= g[x]
    PROVE  SumFunction(f) <= SumFunction(g)
BY SumMonotone DEF SumFunction

LEMMA TotalPlus ==
    ASSUME NEW D, IsFiniteSet(D), NEW f \in [D -> Int], NEW g \in [D -> Int],
           NEW h \in [D -> Int], \A x \in D : h[x] = f[x] + g[x]
    PROVE  SumFunction(h) = SumFunction(f) + SumFunction(g)
BY SumPlus DEF SumFunction

LEMMA TotalPart ==
    ASSUME NEW D, IsFiniteSet(D), NEW P \in SUBSET D, NEW f \in [D -> Int],
           NEW g \in [P -> Int], \A x \in P : f[x] = g[x], \A x \in D \ P : f[x] = 0
    PROVE  SumFunction(f) = SumFunction(g)
<1>1. SumFunctionOnSet(f, D) = SumFunctionOnSet(f, P)
  BY SumPart
<1>2. IsFiniteSet(P)
  BY FS_Subset
<1>3. SumFunctionOnSet(f, P) = SumFunctionOnSet(g, P)
  BY <1>2, SumAgree
<1>4. QED
  BY <1>1, <1>3 DEF SumFunction

\* A total counts every account, and one of natural numbers bounds each of them.
LEMMA TotalNat ==
    ASSUME NEW D, IsFiniteSet(D), NEW f \in [D -> Nat]
    PROVE  /\ SumFunction(f) \in Nat
           /\ \A x \in D : f[x] <= SumFunction(f)
<1>1. ASSUME NEW P \in SUBSET D
      PROVE  SumFunctionOnSet(f, P) \in Nat
  <2> DEFINE zero == [x \in P |-> 0]
  <2>1. IsFiniteSet(P)
    BY FS_Subset
  <2>2. SumFunctionOnSet(zero, P) <= SumFunctionOnSet(f, P)
    BY <2>1, SumMonotone
  <2>3. SumFunctionOnSet(zero, P) = 0
    <3>1. SumFunctionOnSet(zero, P) = SumFunctionOnSet(zero, {})
      BY <2>1, SumPart
    <3>2. QED
      BY <3>1, SumEmpty
  <2>4. SumFunctionOnSet(f, P) \in Int
    BY <2>1, SumType
  <2> HIDE DEF zero
  <2>5. QED
    BY <2>2, <2>3, <2>4
<1>2. ASSUME NEW x \in D
      PROVE  f[x] <= SumFunctionOnSet(f, D)
  <2>1. SumFunctionOnSet(f, D) = f[x] + SumFunctionOnSet(f, D \ {x})
    BY SumRemove
  <2>2. SumFunctionOnSet(f, D \ {x}) \in Nat /\ f[x] \in Nat
    BY <1>1
  <2>3. QED
    BY <2>1, <2>2
<1>3. QED
  BY <1>1, <1>2 DEF SumFunction

\* A constant added up over a part counts it.
LEMMA TotalCount ==
    ASSUME NEW D, IsFiniteSet(D), NEW P \in SUBSET D, NEW c \in Nat, NEW f \in [D -> Int],
           \A x \in P : f[x] = c, \A x \in D \ P : f[x] = 0
    PROVE  SumFunction(f) = Cardinality(P) * c
<1>1. IsFiniteSet(P)
  BY FS_Subset
<1> DEFINE g == [x \in P |-> c]
<1>2. g \in [P -> Int] /\ \A x \in P : g[x] = c
  OBVIOUS
<1>3. SumFunction(f) = SumFunction(g)
  <2> HIDE DEF g
  <2>1. \A x \in P : f[x] = g[x]
    BY <1>2
  <2>2. QED
    BY <1>2, <2>1, TotalPart
<1>4. SumFunction(g) = SumFunctionOnSet(g, P)
  BY DEF SumFunction
<1> HIDE DEF g
<1> DEFINE Good == {s \in SUBSET P : SumFunctionOnSet(g, s) = Cardinality(s) * c}
<1>5. ASSUME NEW s \in SUBSET P, \A x \in s : s \ {x} \in Good
      PROVE  s \in Good
  <2>1. CASE s = {}
    <3>1. SumFunctionOnSet(g, s) = 0 /\ Cardinality(s) = 0
      BY <2>1, SumEmpty, FS_EmptySet
    <3>2. QED
      BY <3>1
  <2>2. CASE s # {}
    <3>1. PICK e \in s : TRUE
      BY <2>2
    <3>2. IsFiniteSet(s) /\ IsFiniteSet(s \ {e}) /\ \A x \in s : g[x] \in Int
      BY <1>1, <1>2, FS_Subset
    <3>3. SumFunctionOnSet(g, s) = g[e] + SumFunctionOnSet(g, s \ {e})
      BY <3>1, <3>2, SumRemove
    <3>4. /\ Cardinality(s \ {e}) = Cardinality(s) - 1
          /\ Cardinality(s) \in Nat /\ Cardinality(s \ {e}) \in Nat
      BY <3>1, <3>2, FS_RemoveElement, FS_CardinalityType
    <3>5. SumFunctionOnSet(g, s \ {e}) = Cardinality(s \ {e}) * c
      BY <1>5, <3>1
    <3>6. g[e] = c
      BY <1>2, <3>1
    <3>7. PICK k : k = Cardinality(s)
      OBVIOUS
    <3>8. k \in Nat /\ c + (k - 1) * c = k * c
      BY <3>4, <3>7
    <3>9. QED
      BY <3>3, <3>4, <3>5, <3>6, <3>7, <3>8
  <2>3. QED
    BY <2>1, <2>2
<1>6. Good \in SUBSET (SUBSET P)
  OBVIOUS
<1> HIDE DEF Good
<1>7. Good = SUBSET P
  BY <1>1, <1>5, <1>6, SubsetInduction
<1>8. P \in Good
  BY <1>7
<1>9. QED
  BY <1>3, <1>4, <1>8 DEF Good

\* So does one added up over all.
LEMMA TotalConstant ==
    ASSUME NEW D, IsFiniteSet(D), NEW c \in Nat, NEW f \in [D -> Int], \A x \in D : f[x] = c
    PROVE  SumFunction(f) = Cardinality(D) * c
<1>1. D \in SUBSET D /\ \A x \in D \ D : f[x] = 0
  OBVIOUS
<1>2. QED
  BY <1>1, TotalCount

\* A step that changes one account changes the total by the same difference.
LEMMA TotalUpdate ==
    ASSUME NEW D, IsFiniteSet(D), NEW f \in [D -> Int], NEW g \in [D -> Int],
           NEW e \in D, \A x \in D \ {e} : g[x] = f[x]
    PROVE  /\ SumFunction(f) \in Int /\ SumFunction(g) \in Int
           /\ SumFunction(g) - g[e] = SumFunction(f) - f[e]
<1>1. /\ SumFunctionOnSet(f, D) = f[e] + SumFunctionOnSet(f, D \ {e})
      /\ SumFunctionOnSet(g, D) = g[e] + SumFunctionOnSet(g, D \ {e})
  BY SumRemove
<1>2. IsFiniteSet(D \ {e})
  BY FS_Subset
<1>3. SumFunctionOnSet(f, D \ {e}) = SumFunctionOnSet(g, D \ {e})
  BY <1>2, SumAgree
<1>4. SumFunctionOnSet(f, D \ {e}) \in Int
  BY <1>2, SumType
<1>5. SumFunction(f) = SumFunctionOnSet(f, D) /\ SumFunction(g) = SumFunctionOnSet(g, D)
  BY DEF SumFunction
<1>6. f[e] \in Int /\ g[e] \in Int
  OBVIOUS
<1>7. QED
  BY <1>1, <1>3, <1>4, <1>5, <1>6

LEMMA TotalExcept ==
    ASSUME NEW D, IsFiniteSet(D), NEW f \in [D -> Int], NEW e \in D, NEW n \in Int
    PROVE  /\ SumFunction(f) \in Int
           /\ SumFunction([f EXCEPT ![e] = n]) = SumFunction(f) + n - f[e]
<1> DEFINE g == [f EXCEPT ![e] = n]
<1>1. g \in [D -> Int] /\ g[e] = n /\ f[e] \in Int /\ \A x \in D \ {e} : g[x] = f[x]
  OBVIOUS
<1> HIDE DEF g
<1>2. /\ SumFunction(f) \in Int /\ SumFunction(g) \in Int
      /\ SumFunction(g) - g[e] = SumFunction(f) - f[e]
  BY <1>1, TotalUpdate
<1>3. SumFunction(g) = SumFunction(f) + n - f[e]
  BY <1>1, <1>2
<1>4. QED
  BY <1>2, <1>3 DEF g

-----------------------------------------------------------------------------
\* Tables: a field kept per pair of accounts

\* A write of one account, and the difference it makes.
LEMMA TotalWrite ==
    ASSUME NEW D, IsFiniteSet(D), NEW e \in D, NEW f \in [D -> Int], NEW g \in [D -> Int],
           \A x \in D \ {e} : g[x] = f[x], NEW d, d = g[e] - f[e]
    PROVE  SumFunction(f) \in Int /\ SumFunction(g) = SumFunction(f) + d
BY TotalUpdate

\* The totals of a table's row and of its column.
RowTotal(f, r, B)    == SumFunction([y \in B |-> f[r][y]])
ColumnTotal(f, A, c) == SumFunction([x \in A |-> f[x][c]])

\* Writing one entry moves the total of its row, and no other, by the difference.
LEMMA RowWritten ==
    ASSUME NEW A, NEW B, IsFiniteSet(B), NEW f, NEW g, NEW a \in A, NEW b \in B,
           \A x \in A, y \in B : f[x][y] \in Int /\ g[x][y] \in Int,
           \A x \in A, y \in B : x # a \/ y # b => g[x][y] = f[x][y], NEW r \in A
    PROVE  /\ RowTotal(f, r, B) \in Int
           /\ RowTotal(g, r, B) =
                RowTotal(f, r, B) + (IF r = a THEN g[a][b] - f[a][b] ELSE 0)
<1> DEFINE before == [y \in B |-> f[r][y]]
           after  == [y \in B |-> g[r][y]]
           d      == IF r = a THEN g[a][b] - f[a][b] ELSE 0
<1>1. /\ before \in [B -> Int] /\ after \in [B -> Int]
      /\ \A y \in B \ {b} : after[y] = before[y]
  OBVIOUS
<1>2. d = after[b] - before[b]
  OBVIOUS
<1> HIDE DEF before, after, d
<1>3. SumFunction(before) \in Int /\ SumFunction(after) = SumFunction(before) + d
  BY <1>1, <1>2, TotalWrite
<1>4. QED
  BY <1>3 DEF before, after, d, RowTotal

\* The same for its column.
LEMMA ColumnWritten ==
    ASSUME NEW A, IsFiniteSet(A), NEW B, NEW f, NEW g, NEW a \in A, NEW b \in B,
           \A x \in A, y \in B : f[x][y] \in Int /\ g[x][y] \in Int,
           \A x \in A, y \in B : x # a \/ y # b => g[x][y] = f[x][y], NEW c \in B
    PROVE  /\ ColumnTotal(f, A, c) \in Int
           /\ ColumnTotal(g, A, c) =
                ColumnTotal(f, A, c) + (IF c = b THEN g[a][b] - f[a][b] ELSE 0)
<1> DEFINE before == [x \in A |-> f[x][c]]
           after  == [x \in A |-> g[x][c]]
           d      == IF c = b THEN g[a][b] - f[a][b] ELSE 0
<1>1. /\ before \in [A -> Int] /\ after \in [A -> Int]
      /\ \A x \in A \ {a} : after[x] = before[x]
  OBVIOUS
<1>2. d = after[a] - before[a]
  OBVIOUS
<1> HIDE DEF before, after, d
<1>3. SumFunction(before) \in Int /\ SumFunction(after) = SumFunction(before) + d
  BY <1>1, <1>2, TotalWrite
<1>4. QED
  BY <1>3 DEF before, after, d, ColumnTotal

-----------------------------------------------------------------------------
\* Counts

\* A set that gains or loses one element counts one more or one less.
LEMMA CountUpdate ==
    ASSUME NEW S, IsFiniteSet(S), NEW T, NEW e, T \ {e} = S \ {e}
    PROVE  /\ IsFiniteSet(T)
           /\ Cardinality(S) \in Nat /\ Cardinality(T) \in Nat
           /\ Cardinality(T) = Cardinality(S) + (IF e \in T THEN 1 ELSE 0)
                                              - (IF e \in S THEN 1 ELSE 0)
           /\ e \in S => Cardinality(S) > 0
<1>1. /\ IsFiniteSet(S \ {e})
      /\ Cardinality(S \ {e}) = IF e \in S THEN Cardinality(S) - 1 ELSE Cardinality(S)
  BY FS_RemoveElement
<1>2. T = IF e \in T THEN (S \ {e}) \cup {e} ELSE S \ {e}
  OBVIOUS
<1>3. /\ IsFiniteSet((S \ {e}) \cup {e})
      /\ Cardinality((S \ {e}) \cup {e}) = Cardinality(S \ {e}) + 1
  BY <1>1, FS_AddElement
<1>4. /\ IsFiniteSet(T)
      /\ Cardinality(T) = Cardinality(S \ {e}) + (IF e \in T THEN 1 ELSE 0)
  <2>1. CASE e \in T
    BY <1>2, <1>3, <2>1
  <2>2. CASE e \notin T
    <3>1. T = S \ {e} /\ Cardinality(S \ {e}) \in Nat
      BY <1>1, <1>2, <2>2, FS_CardinalityType
    <3>2. QED
      BY <1>1, <2>2, <3>1
  <2>3. QED
    BY <2>1, <2>2
<1>5. /\ Cardinality(S) \in Nat /\ Cardinality(T) \in Nat
      /\ Cardinality(S \ {e}) \in Nat
  BY <1>1, <1>4, FS_CardinalityType
<1>6. QED
  BY <1>1, <1>4, <1>5

-----------------------------------------------------------------------------
\* Intervals

\* Induction up to a bound, for a property given as the set of the numbers that
\* have it.
LEMMA IntervalInduction ==
    ASSUME NEW n \in Nat, NEW Good, 0 \in Good,
           \A i \in 0 .. n : i \in Good /\ i < n => i + 1 \in Good
    PROVE  0 .. n \subseteq Good
<1> DEFINE Bad == (0 .. n) \ Good
<1>1. SUFFICES ASSUME Bad # {}
               PROVE  FALSE
  OBVIOUS
<1>2. Bad \in SUBSET Nat
  OBVIOUS
<1>3. PICK m \in Bad : \A k \in Bad : m <= k
  <2> HIDE DEF Bad
  <2>1. QED
    BY <1>1, <1>2, LeastElement
<1>4. m \in Nat /\ m # 0 /\ m <= n
  OBVIOUS
<1>5. m - 1 \in Good
  BY <1>3, <1>4
<1>6. m \in Good
  <2>1. m - 1 \in 0 .. n /\ m - 1 < n /\ (m - 1) + 1 = m
    BY <1>4
  <2>2. (m - 1) + 1 \in Good
    BY <1>5, <2>1
  <2>3. QED
    BY <2>1, <2>2
<1>7. QED
  BY <1>6

\* A function on 0 .. n may be defined from its value at 0 and, at i, from its
\* value at i - 1.
Recurs(g, b, h, n) == g = [i \in 0 .. n |-> IF i = 0 THEN b ELSE h[<<i, g[i - 1]>>]]

LEMMA IntervalRecursion ==
    ASSUME NEW n \in Nat, NEW V, NEW b \in V, NEW h \in [(1 .. n) \X V -> V]
    PROVE  \E g \in [0 .. n -> V] : Recurs(g, b, h, n)
<1> DEFINE Is(g, m) == g = [i \in 0 .. m |-> IF i = 0 THEN b ELSE h[<<i, g[i - 1]>>]]
           Good == {m \in 0 .. n : \E g \in [0 .. m -> V] : Is(g, m)}
<1>1. 0 \in Good
  <2> DEFINE g == [i \in 0 .. 0 |-> b]
  <2>1. g \in [0 .. 0 -> V] /\ Is(g, 0)
    OBVIOUS
  <2> HIDE DEF g, Is
  <2>2. QED
    BY <2>1
<1>2. ASSUME NEW m \in 0 .. n, m \in Good, m < n
      PROVE  m + 1 \in Good
  <2>1. PICK g \in [0 .. m -> V] : Is(g, m)
    BY <1>2
  <2> DEFINE f == [i \in 0 .. (m + 1) |-> IF i <= m THEN g[i] ELSE h[<<i, g[i - 1]>>]]
  <2>2. f \in [0 .. (m + 1) -> V]
    BY <1>2
  <2>3. \A i \in 0 .. (m + 1) : f[i] = IF i = 0 THEN b ELSE h[<<i, f[i - 1]>>]
    <3>1. ASSUME NEW i \in 0 .. m
          PROVE  f[i] = IF i = 0 THEN b ELSE h[<<i, f[i - 1]>>]
      <4>1. f[i] = g[i] /\ i \in Int
        OBVIOUS
      <4>2. g[i] = IF i = 0 THEN b ELSE h[<<i, g[i - 1]>>]
        BY <2>1
      <4>3. i # 0 => f[i - 1] = g[i - 1]
        OBVIOUS
      <4>4. QED
        BY <4>1, <4>2, <4>3
    <3>2. f[m + 1] = h[<<m + 1, f[m]>>] /\ (m + 1) - 1 = m /\ m + 1 # 0
      OBVIOUS
    <3>3. \A i \in 0 .. (m + 1) : i \in 0 .. m \/ i = m + 1
      OBVIOUS
    <3> HIDE DEF f
    <3>4. QED
      BY <3>1, <3>2, <3>3
  <2>4. Is(f, m + 1)
    <3>1. f = [i \in 0 .. (m + 1) |-> f[i]]
      OBVIOUS
    <3> HIDE DEF f
    <3>2. QED
      BY <2>3, <3>1
  <2> HIDE DEF f, Is
  <2>5. QED
    BY <1>2, <2>2, <2>4
<1>3. 0 .. n \subseteq Good
  <2> HIDE DEF Good
  <2>1. QED
    BY <1>1, <1>2, IntervalInduction
<1>4. n \in Good
  BY <1>3
<1>5. QED
  BY <1>4 DEF Recurs

\* Of the numbers 1 .. n, ranked by the total preorder R (given as the set of the
\* pairs whose left part is at least as good), there is a first best one.
LEMMA FirstBest ==
    ASSUME NEW n \in Nat, n > 0, NEW R,
           \A i, j \in 1 .. n : <<i, j>> \in R \/ <<j, i>> \in R,
           \A i, j, k \in 1 .. n : <<i, j>> \in R /\ <<j, k>> \in R => <<i, k>> \in R
    PROVE  \E b \in 1 .. n : \A j \in 1 .. n :
              <<b, j>> \in R /\ (j < b => <<j, b>> \notin R)
<1> DEFINE First(b, m) == \A j \in 1 .. m : <<b, j>> \in R /\ (j < b => <<j, b>> \notin R)
           Good == {m \in 0 .. n : m = 0 \/ \E b \in 1 .. m : First(b, m)}
<1>1. 0 \in Good
  OBVIOUS
<1>2. ASSUME NEW m \in 0 .. n, m \in Good, m < n
      PROVE  m + 1 \in Good
  <2>1. CASE m = 0
    <3>1. First(1, 1)
      OBVIOUS
    <3> HIDE DEF First
    <3>2. QED
      BY <2>1, <3>1
  <2>2. CASE m # 0
    <3>1. PICK b \in 1 .. m : First(b, m)
      BY <1>2, <2>2
    <3>2. CASE <<b, m + 1>> \in R
      <4>1. First(b, m + 1)
        BY <3>1, <3>2
      <4> HIDE DEF First
      <4>2. QED
        BY <1>2, <4>1
    <3>3. CASE <<b, m + 1>> \notin R
      <4>1. \A j \in 1 .. m : <<m + 1, j>> \in R /\ <<j, m + 1>> \notin R
        <5>1. ASSUME NEW j \in 1 .. m
              PROVE  <<m + 1, j>> \in R /\ <<j, m + 1>> \notin R
          <6>1. {b, j, m + 1} \subseteq 1 .. n
            BY <1>2
          <6>2. <<b, j>> \in R /\ <<m + 1, b>> \in R
            BY <3>1, <3>3, <6>1
          <6>3. QED
            BY <3>3, <6>1, <6>2
        <5>2. QED
          BY <5>1
      <4>2. First(m + 1, m + 1)
        BY <1>2, <4>1
      <4> HIDE DEF First
      <4>3. QED
        BY <1>2, <4>2
    <3>4. QED
      BY <3>2, <3>3
  <2>3. QED
    BY <2>1, <2>2
<1>3. 0 .. n \subseteq Good
  <2> HIDE DEF Good
  <2>1. QED
    BY <1>1, <1>2, IntervalInduction
<1>4. n \in Good
  <2> HIDE DEF Good
  <2>1. QED
    BY <1>3
<1>5. PICK b \in 1 .. n : First(b, n)
  <2> HIDE DEF First
  <2>1. QED
    BY <1>4
<1>6. QED
  BY <1>5

-----------------------------------------------------------------------------
\* Products

IsProduct(g, h, n) == g = [i \in 0 .. n |-> IF i = 0 THEN 1 ELSE g[i - 1] * h[i]]

LEMMA ProductExists ==
    ASSUME NEW n \in Nat, NEW h \in [1 .. n -> Int]
    PROVE  \E g \in [0 .. n -> Int] : IsProduct(g, h, n)
<1> DEFINE k == [z \in (1 .. n) \X Int |-> z[2] * h[z[1]]]
<1>1. k \in [(1 .. n) \X Int -> Int]
  OBVIOUS
<1>2. PICK g \in [0 .. n -> Int] : Recurs(g, 1, k, n)
  <2> HIDE DEF k
  <2>1. 1 \in Int
    OBVIOUS
  <2>2. QED
    BY <1>1, <2>1, IntervalRecursion
<1>3. \A i \in 1 .. n : i - 1 \in 0 .. n /\ k[<<i, g[i - 1]>>] = g[i - 1] * h[i]
  OBVIOUS
<1> HIDE DEF k
<1>4. \A i \in 0 .. n : g[i] = IF i = 0 THEN 1 ELSE k[<<i, g[i - 1]>>]
  BY <1>2, Zenon DEF Recurs
<1>5. \A i \in 0 .. n : g[i] = IF i = 0 THEN 1 ELSE g[i - 1] * h[i]
  <2>1. \A i \in 0 .. n : i # 0 => i \in 1 .. n
    OBVIOUS
  <2>2. QED
    BY <1>3, <1>4, <2>1
<1>6. g = [i \in 0 .. n |-> g[i]]
  OBVIOUS
<1>7. g = [i \in 0 .. n |-> IF i = 0 THEN 1 ELSE g[i - 1] * h[i]]
  BY <1>5, <1>6
<1>8. QED
  BY <1>7 DEF IsProduct

\* Of positive factors.
LEMMA ProductPositive ==
    ASSUME NEW n \in Nat, NEW h \in [1 .. n -> Nat \ {0}], NEW g, IsProduct(g, h, n)
    PROVE  \A i \in 0 .. n : g[i] \in Nat \ {0}
<1> DEFINE Good == {i \in 0 .. n : g[i] \in Nat \ {0}}
<1>1. \A i \in 0 .. n : g[i] = IF i = 0 THEN 1 ELSE g[i - 1] * h[i]
  BY DEF IsProduct
<1>2. 0 \in Good
  BY <1>1
<1>3. ASSUME NEW i \in 0 .. n, i \in Good, i < n
      PROVE  i + 1 \in Good
  <2>1. i + 1 \in 1 .. n /\ (i + 1) - 1 = i
    BY <1>3
  <2>2. g[i + 1] = g[i] * h[i + 1]
    BY <1>1, <2>1
  <2>3. g[i] \in Nat \ {0} /\ h[i + 1] \in Nat \ {0}
    BY <1>3, <2>1
  <2>4. \A x, y \in Nat \ {0} : x * y \in Nat \ {0}
    OBVIOUS
  <2>5. QED
    BY <2>1, <2>2, <2>3, <2>4
<1>4. 0 .. n \subseteq Good
  <2> HIDE DEF Good
  <2>1. QED
    BY <1>2, <1>3, IntervalInduction
<1>5. QED
  BY <1>4

-----------------------------------------------------------------------------
\* Ratios, compared by cross-multiplication

LEMMA ProductMonotone ==
    ASSUME NEW a \in Int, NEW b \in Int, a <= b, NEW c \in Nat
    PROVE  a * c <= b * c
OBVIOUS

LEMMA ProductCancel ==
    ASSUME NEW a \in Int, NEW b \in Int, NEW c \in Nat, c > 0, a * c <= b * c
    PROVE  a <= b
<1>1. SUFFICES ASSUME b + 1 <= a
               PROVE  FALSE
  OBVIOUS
<1>2. (b + 1) * c <= a * c
  BY <1>1, ProductMonotone
<1>3. (b + 1) * c = b * c + c
  OBVIOUS
<1>4. QED
  BY <1>2, <1>3

\* a/x >= b/y >= c/z
LEMMA RatioTransitive ==
    ASSUME NEW a \in Int, NEW b \in Int, NEW c \in Int,
           NEW x \in Nat \ {0}, NEW y \in Nat \ {0}, NEW z \in Nat \ {0},
           a * y >= b * x, b * z >= c * y
    PROVE  a * z >= c * x
<1>1. (b * x) * z <= (a * y) * z
  BY ProductMonotone
<1>2. (c * y) * x <= (b * z) * x
  BY ProductMonotone
<1>3. (b * x) * z = (b * z) * x /\ (a * y) * z = (a * z) * y /\ (c * y) * x = (c * x) * y
  OBVIOUS
<1>4. (c * x) * y <= (a * z) * y
  BY <1>1, <1>2, <1>3
<1>5. QED
  BY <1>4, ProductCancel

=============================================================================
