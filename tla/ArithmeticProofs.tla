--------------------------- MODULE ArithmeticProofs ---------------------------
(***************************************************************************)
(* The arithmetic the theorems rest on: what truncation loses, for every   *)
(* expScale, and what changing, comparing, adding or multiplying finite    *)
(* functions with natural values does to their Totals.                     *)
(***************************************************************************)
EXTENDS Exponential, Totals, FiniteSetTheorems, TLAPS

(* Truncation. *)

\* The quotient of two naturals is a natural, and brackets the dividend.
LEMMA DivBounds ==
  ASSUME NEW a \in Nat, NEW b \in Nat \ {0}
  PROVE  /\ a \div b \in Nat
         /\ (a \div b) * b <= a
         /\ a < (a \div b) * b + b
  OBVIOUS

\* Multiplication is monotone on the naturals.
LEMMA MulMonotone ==
  ASSUME NEW a \in Nat, NEW b \in Nat, NEW c \in Nat, a <= b
  PROVE  a * c <= b * c
  OBVIOUS

\* A quotient that times b does not exceed a is at most a \div b.
LEMMA DivGreatest ==
  ASSUME NEW a \in Nat, NEW b \in Nat \ {0}, NEW q \in Int, q * b <= a
  PROVE  q <= a \div b
<1>1. a \div b \in Nat /\ a < (a \div b) * b + b
  BY DivBounds
<1>2. SUFFICES ASSUME q >= (a \div b) + 1 PROVE FALSE
  BY <1>1
<1> DEFINE d == a \div b
<1>3. d \in Nat
  BY <1>1
<1> HIDE DEF d
<1>4. q * b >= (d + 1) * b
  BY <1>1, <1>2, <1>3 DEF d
<1> QED BY <1>1, <1>4, <1>3 DEF d

\* A common positive factor can be cancelled.
LEMMA MulCancel ==
  ASSUME NEW a \in Nat, NEW b \in Nat, NEW c \in Nat \ {0}
  PROVE  /\ a * c <= b * c => a <= b
         /\ a * c < b * c => a < b
<1>1. ASSUME a > b PROVE a * c > b * c
  <2>1. a >= b + 1
    BY <1>1
  <2>2. a * c >= (b + 1) * c
    BY <2>1
  <2> QED BY <2>2
<1>2. ASSUME a >= b PROVE a * c >= b * c
  BY <1>2
<1> QED BY <1>1, <1>2

\* A truncated product of an Exp with a scalar loses less than one unit.
LEMMA MulScalarBounds ==
  ASSUME NEW a \in Nat, NEW s \in Nat
  PROVE  /\ mulScalarTruncate(a, s) \in Nat
         /\ mulScalarTruncate(a, s) * expScale <= a * s
         /\ a * s < mulScalarTruncate(a, s) * expScale + expScale
<1>1. a * s \in Nat
  OBVIOUS
<1> QED BY <1>1, DivBounds, ExpScaleAssumption DEF mulScalarTruncate, truncate

\* With a factor of at most one the truncated product is at most the scalar.
LEMMA MulFraction ==
  ASSUME NEW a \in 0 .. expScale, NEW s \in Nat
  PROVE  mulScalarTruncate(a, s) \in 0 .. s
<1>1. a \in Nat /\ expScale \in Nat \ {0}
  BY ExpScaleAssumption
<1> DEFINE p == mulScalarTruncate(a, s)
<1>2. p \in Nat /\ p * expScale <= a * s
  BY <1>1, MulScalarBounds
<1>3. a * s <= expScale * s
  BY <1>1, MulMonotone
<1> HIDE DEF p
<1>4. p * expScale <= s * expScale
  BY <1>1, <1>2, <1>3
<1>5. p <= s
  BY <1>1, <1>2, <1>4, MulCancel
<1> QED BY <1>2, <1>5 DEF p

\* A truncated quotient of a scalar by an Exp: the number t of whole shares
\* of price d that s buys.  The intermediate truncation of getExp does not
\* lose anything that the final one would have kept.
LEMMA DivScalarBounds ==
  ASSUME NEW s \in Nat, NEW d \in Nat \ {0}
  PROVE  /\ divScalarByExpTruncate(s, d) \in Nat
         /\ divScalarByExpTruncate(s, d) * d <= s * expScale
         /\ s * expScale < (divScalarByExpTruncate(s, d) + 1) * d
<1> DEFINE K == expScale
           n == (K * s) * K
           q == n \div d
           t == q \div K
<1>1. K \in Nat \ {0}
  BY ExpScaleAssumption
<1>2. n \in Nat
  BY <1>1
<1>3. t = divScalarByExpTruncate(s, d)
  BY DEF divScalarByExpTruncate, getExp, truncate
<1> HIDE DEF n
<1>4. q \in Nat /\ q * d <= n /\ n < q * d + d
  BY <1>2, DivBounds
<1> HIDE DEF q
<1>5. t \in Nat /\ t * K <= q /\ q < t * K + K
  BY <1>1, <1>4, DivBounds
<1> HIDE DEF t, K
<1>6. n = (s * K) * K
  BY <1>1 DEF n
<1>7. t * d <= s * K
  <2>1. (t * K) * d <= q * d
    BY <1>1, <1>4, <1>5, MulMonotone
  <2>2. (t * d) * K <= (s * K) * K
    BY <2>1, <1>1, <1>4, <1>5, <1>6
  <2> QED BY <2>2, <1>1, <1>5, MulCancel
<1>8. s * K < (t + 1) * d
  <2>1. q + 1 <= (t + 1) * K
    BY <1>1, <1>4, <1>5
  <2>2. (q + 1) * d <= ((t + 1) * K) * d
    BY <2>1, <1>1, <1>4, <1>5, MulMonotone
  <2>3. (s * K) * K < ((t + 1) * d) * K
    BY <2>2, <1>1, <1>4, <1>5, <1>6
  <2> QED BY <2>3, <1>1, <1>5, MulCancel
<1> QED BY <1>3, <1>5, <1>7, <1>8 DEF K
-----------------------------------------------------------------------------
(* Totals. *)

\* A block of n units has n elements.
LEMMA UnitsOfSize ==
  ASSUME NEW x, NEW n \in Nat
  PROVE  /\ IsFiniteSet({x} \X (1 .. n))
         /\ Cardinality({x} \X (1 .. n)) = n
<1> DEFINE S == {x}
           T == 1 .. n
<1>1. IsFiniteSet(S) /\ Cardinality(S) = 1
  BY FS_Singleton
<1>2. IsFiniteSet(T) /\ Cardinality(T) = n
  BY FS_Interval
<1> HIDE DEF S, T
<1>3. IsFiniteSet(S \X T) /\ Cardinality(S \X T) = 1 * n
  BY <1>1, <1>2, FS_Product, Zenon
<1> QED BY <1>3 DEF S, T

\* The units of finitely many elements are finitely many.
LEMMA UnitsFinite ==
  ASSUME NEW D, IsFiniteSet(D), NEW f \in [D -> Nat], NEW E, E \subseteq D
  PROVE  IsFiniteSet(UNION {{x} \X (1 .. f[x]) : x \in E})
<1> DEFINE U(x) == {x} \X (1 .. f[x])
           h == [x \in E |-> U(x)]
           Us == {U(x) : x \in E}
<1>1. IsFiniteSet(E)
  BY FS_Subset
<1>2. h \in Surjection(E, Us)
  BY DEF Surjection
<1>3. IsFiniteSet(Us)
  <2> HIDE DEF h, Us
  <2> QED BY <1>1, <1>2, FS_Surjection
<1>4. ASSUME NEW T \in Us PROVE IsFiniteSet(T)
  <2>1. PICK x \in E : T = U(x)
    OBVIOUS
  <2>2. f[x] \in Nat
    OBVIOUS
  <2>3. IsFiniteSet(U(x))
    BY <2>2, UnitsOfSize
  <2> QED BY <2>1, <2>3
<1>5. IsFiniteSet(UNION Us)
  <2> HIDE DEF Us
  <2> QED BY <1>3, <1>4, FS_UNION
<1> QED BY <1>5

\* The total of a function is its value at x plus what the rest contributes.
LEMMA TotalSplit ==
  ASSUME NEW D, IsFiniteSet(D), NEW f \in [D -> Nat], NEW x \in D
  PROVE  /\ IsFiniteSet(UNION {{y} \X (1 .. f[y]) : y \in D \ {x}})
         /\ Total(f) =
              Cardinality(UNION {{y} \X (1 .. f[y]) : y \in D \ {x}}) + f[x]
<1> DEFINE Rest == UNION {{y} \X (1 .. f[y]) : y \in D \ {x}}
           One  == {x} \X (1 .. f[x])
<1>1. IsFiniteSet(Rest)
  BY UnitsFinite
<1>2. IsFiniteSet(One) /\ Cardinality(One) = f[x]
  BY UnitsOfSize
<1>3. Units(f) = Rest \cup One
  BY DEF Units
<1>4. Rest \cap One = {}
  OBVIOUS
<1>5. Cardinality(Rest \cup One) = Cardinality(Rest) + Cardinality(One) - 0
  <2> HIDE DEF Rest, One
  <2>1. IsFiniteSet(One)
    BY <1>2
  <2>2. Cardinality(Rest \cup One)
          = Cardinality(Rest) + Cardinality(One) - Cardinality(Rest \cap One)
    BY <1>1, <2>1, FS_Union, Zenon
  <2> QED BY <1>4, <2>2, FS_EmptySet
<1>6. Cardinality(Rest) \in Nat
  <2> HIDE DEF Rest
  <2> QED BY <1>1, FS_CardinalityType
<1> QED BY <1>1, <1>2, <1>3, <1>5, <1>6 DEF Total

\* The total of a finite function is a natural number and at least each of
\* its values.
LEMMA TotalBounds ==
  ASSUME NEW D, IsFiniteSet(D), NEW f \in [D -> Nat]
  PROVE  /\ Total(f) \in Nat
         /\ \A x \in D : f[x] <= Total(f)
<1> DEFINE Rest(x) == UNION {{y} \X (1 .. f[y]) : y \in D \ {x}}
<1>1. Total(f) \in Nat
  BY UnitsFinite, FS_CardinalityType DEF Total, Units
<1>2. ASSUME NEW x \in D PROVE f[x] <= Total(f)
  <2>1. IsFiniteSet(Rest(x)) /\ Total(f) = Cardinality(Rest(x)) + f[x]
    BY TotalSplit
  <2>2. Cardinality(Rest(x)) \in Nat
    <3> HIDE DEF Rest
    <3> QED BY <2>1, FS_CardinalityType
  <2> HIDE DEF Rest
  <2> QED BY <2>1, <2>2
<1> QED BY <1>1, <1>2

\* Changing one value changes the total by the same amount.
LEMMA TotalExcept ==
  ASSUME NEW D, IsFiniteSet(D), NEW f \in [D -> Nat],
         NEW x \in D, NEW v \in Nat
  PROVE  Total([f EXCEPT ![x] = v]) = Total(f) - f[x] + v
<1> DEFINE g == [f EXCEPT ![x] = v]
           RestF == UNION {{y} \X (1 .. f[y]) : y \in D \ {x}}
           RestG == UNION {{y} \X (1 .. g[y]) : y \in D \ {x}}
<1>1. g \in [D -> Nat] /\ g[x] = v
  OBVIOUS
<1>2. RestF = RestG
  OBVIOUS
<1>3. IsFiniteSet(RestF) /\ Total(f) = Cardinality(RestF) + f[x]
  BY TotalSplit
<1>4. Total(g) = Cardinality(RestG) + g[x]
  <2> HIDE DEF g
  <2> QED BY <1>1, TotalSplit
<1>5. Cardinality(RestF) \in Nat
  <2> HIDE DEF RestF
  <2> QED BY <1>3, FS_CardinalityType
<1> HIDE DEF RestF, RestG, g
<1>6. Total(g) = Total(f) - f[x] + v
  BY <1>1, <1>2, <1>3, <1>4, <1>5
<1> QED BY <1>6 DEF g

\* Adding to two values, or taking from them, adds to the total.
LEMMA TotalMove ==
  ASSUME NEW D, IsFiniteSet(D), NEW f \in [D -> Nat], NEW k \in [D -> Nat],
         NEW x \in D, NEW y \in D, x # y,
         NEW m \in Int, k[x] = f[x] + m,
         NEW n \in Int, k[y] = f[y] + n,
         \A z \in D \ {x, y} : k[z] = f[z]
  PROVE  Total(k) = Total(f) + m + n
<1>0. \A F \in [D -> Nat] : \A a \in D, c \in Nat :
        Total([F EXCEPT ![a] = c]) = Total(F) - F[a] + c
  BY TotalExcept
<1> DEFINE v == k[x]
           w == k[y]
           g == [f EXCEPT ![x] = v]
           h == [g EXCEPT ![y] = w]
<1>1. /\ v \in Nat /\ v = f[x] + m /\ f[x] \in Nat
      /\ w \in Nat /\ w = f[y] + n /\ f[y] \in Nat
  OBVIOUS
<1>2. k = h
  OBVIOUS
<1> HIDE DEF v, w
<1>3. g \in [D -> Nat] /\ g[y] = f[y]
  BY <1>1
<1>4. Total(g) = Total(f) - f[x] + v
  BY <1>0, <1>1
<1>5. Total(h) = Total(g) - g[y] + w
  <2> HIDE DEF g
  <2> QED BY <1>0, <1>1, <1>3
<1>6. Total(f) \in Nat
  BY TotalBounds
<1>7. Total(h) = Total(f) + m + n
  <2> HIDE DEF g, h
  <2> QED BY <1>1, <1>3, <1>4, <1>5, <1>6
<1> HIDE DEF h
<1> QED BY <1>2, <1>7

\* The total of the function that is zero everywhere is zero.
LEMMA TotalZero ==
  ASSUME NEW D, NEW f \in [D -> Nat], \A x \in D : f[x] = 0
  PROVE  Total(f) = 0
<1>1. Units(f) = {}
  BY DEF Units
<1> QED BY <1>1, FS_EmptySet DEF Total

\* A smaller function has the smaller total.
LEMMA TotalMonotone ==
  ASSUME NEW D, IsFiniteSet(D), NEW f \in [D -> Nat], NEW g \in [D -> Nat],
         \A x \in D : f[x] <= g[x]
  PROVE  Total(f) <= Total(g)
<1>1. IsFiniteSet(Units(g))
  BY UnitsFinite DEF Units
<1>2. Units(f) \subseteq Units(g)
  <2>1. SUFFICES ASSUME NEW x \in D, NEW i \in 1 .. f[x] PROVE i \in 1 .. g[x]
    BY DEF Units
  <2> QED BY f[x] \in Nat, g[x] \in Nat, f[x] <= g[x]
<1> QED BY <1>1, <1>2, FS_Subset DEF Total

\* The total of a sum of functions is the sum of their totals.
LEMMA TotalSum ==
  ASSUME NEW D, IsFiniteSet(D), NEW f \in [D -> Nat], NEW g \in [D -> Nat]
  PROVE  Total([x \in D |-> f[x] + g[x]]) = Total(f) + Total(g)
<1> DEFINE h == [x \in D |-> f[x] + g[x]]
           U == Units(f)
           V == Units(g)
           W == Units(h)
           R == W \ U
           b == [p \in V |-> <<p[1], f[p[1]] + p[2]>>]
<1>1. h \in [D -> Nat]
  OBVIOUS
<1>2. IsFiniteSet(U) /\ IsFiniteSet(V) /\ IsFiniteSet(W)
  <2> HIDE DEF h
  <2> QED BY <1>1, UnitsFinite DEF Units
<1>3. U \subseteq W
  <2>1. SUFFICES ASSUME NEW x \in D, NEW i \in 1 .. f[x] PROVE i \in 1 .. h[x]
    BY DEF Units
  <2> QED BY f[x] \in Nat, g[x] \in Nat
<1>4. b \in Bijection(V, R)
  <2>1. ASSUME NEW p \in V PROVE b[p] \in R
    <3>1. PICK x \in D, i \in Int : i \in 1 .. g[x] /\ p = <<x, i>>
      BY DEF Units
    <3>2. b[p] = <<x, f[x] + i>>
      BY <3>1
    <3>3. f[x] \in Nat /\ g[x] \in Nat /\ h[x] = f[x] + g[x]
      OBVIOUS
    <3>4. f[x] + i \in 1 .. h[x] /\ f[x] + i \notin 1 .. f[x]
      BY <3>1, <3>3
    <3>5. <<x, f[x] + i>> \in W
      <4> HIDE DEF h
      <4> QED BY <3>4, <1>1 DEF Units
    <3>6. <<x, f[x] + i>> \notin U
      BY <3>4 DEF Units
    <3> QED BY <3>2, <3>5, <3>6
  <2>2. ASSUME NEW p \in V, NEW q \in V, b[p] = b[q] PROVE p = q
    <3>1. PICK x \in D, i \in Int : i \in 1 .. g[x] /\ p = <<x, i>>
      BY DEF Units
    <3>2. PICK y \in D, j \in Int : j \in 1 .. g[y] /\ q = <<y, j>>
      BY DEF Units
    <3>3. x = y /\ f[x] + i = f[y] + j
      BY <2>2, <3>1, <3>2
    <3> QED BY <3>1, <3>2, <3>3, f[x] \in Nat
  <2>3. ASSUME NEW r \in R PROVE \E p \in V : b[p] = r
    <3>1. PICK x \in D, i \in Int : i \in 1 .. h[x] /\ r = <<x, i>>
      <4> HIDE DEF h
      <4> QED BY <1>1 DEF Units
    <3>2. f[x] \in Nat /\ g[x] \in Nat /\ h[x] = f[x] + g[x]
      OBVIOUS
    <3>3. i \notin 1 .. f[x]
      BY <3>1 DEF Units
    <3>4. i - f[x] \in 1 .. g[x]
      BY <3>1, <3>2, <3>3
    <3>5. <<x, i - f[x]>> \in V
      BY <3>4 DEF Units
    <3>6. b[<<x, i - f[x]>>] = <<x, i>>
      BY <3>5, <3>2
    <3> QED BY <3>1, <3>5, <3>6
  <2> HIDE DEF V, R
  <2> QED BY <2>1, <2>2, <2>3 DEF Bijection, Injection, Surjection, IsInjective
<1>5. Cardinality(R) = Cardinality(V)
  <2> HIDE DEF V, R, b
  <2> QED BY <1>2, <1>4, FS_Bijection DEF ExistsBijection
<1>6. Cardinality(R) = Cardinality(W) - Cardinality(U)
  <2> HIDE DEF U, W
  <2>1. W \cap U = U
    BY <1>3
  <2> QED BY <1>2, <2>1, FS_Difference
<1>7. Cardinality(U) \in Nat /\ Cardinality(V) \in Nat /\ Cardinality(W) \in Nat
  <2> HIDE DEF U, V, W
  <2> QED BY <1>2, FS_CardinalityType
<1>8. Total(f) = Cardinality(U) /\ Total(g) = Cardinality(V) /\ Total(h) = Cardinality(W)
  BY DEF Total
<1> HIDE DEF U, V, W, R, h, b
<1>9. Cardinality(W) = Cardinality(U) + Cardinality(V)
  BY <1>5, <1>6, <1>7
<1>10. Total(h) = Total(f) + Total(g)
  BY <1>8, <1>9
<1> QED BY <1>10 DEF h

\* The total of a multiple is the multiple of the total.
LEMMA TotalTimes ==
  ASSUME NEW D, IsFiniteSet(D), NEW f \in [D -> Nat], NEW k \in Nat
  PROVE  Total([x \in D |-> k * f[x]]) = k * Total(f)
<1> DEFINE h == [x \in D |-> k * f[x]]
           U == Units(f)
           W == Units(h)
           P == U \X (1 .. k)
           b == [p \in P |-> <<p[1][1], (p[1][2] - 1) * k + p[2]>>]
<1>1. h \in [D -> Nat]
  OBVIOUS
<1>2. IsFiniteSet(U) /\ IsFiniteSet(W)
  <2> HIDE DEF h
  <2> QED BY <1>1, UnitsFinite DEF Units
<1>3. IsFiniteSet(1 .. k) /\ Cardinality(1 .. k) = k
  BY FS_Interval
<1>4. IsFiniteSet(P) /\ Cardinality(P) = Cardinality(U) * k
  <2> DEFINE T == 1 .. k
  <2> HIDE DEF U, T
  <2>1. IsFiniteSet(T) /\ Cardinality(T) = k
    BY <1>3 DEF T
  <2>2. IsFiniteSet(U \X T) /\ Cardinality(U \X T) = Cardinality(U) * Cardinality(T)
    BY <1>2, <2>1, FS_Product
  <2> QED BY <2>1, <2>2 DEF T
<1>5. b \in Bijection(P, W)
  <2>1. ASSUME NEW p \in P PROVE b[p] \in W
    <3>1. PICK x \in D, i \in Int, j \in 1 .. k : 
           i \in 1 .. f[x] /\ p = <<<<x, i>>, j>>
      BY DEF Units
    <3>2. b[p] = <<x, (i - 1) * k + j>>
      BY <3>1
    <3>3. f[x] \in Nat /\ h[x] = k * f[x]
      OBVIOUS
    <3>4. (i - 1) * k + j \in 1 .. h[x]
      <4>1. i \in Nat /\ j \in Nat /\ 1 <= i /\ i <= f[x] /\ 1 <= j /\ j <= k
        BY <3>1, <3>3
      <4>2. (i - 1) * k \in Nat /\ i * k = (i - 1) * k + k /\ h[x] = f[x] * k
        BY <4>1, <3>3
      <4>3. i * k <= f[x] * k
        BY <4>1, <3>3
      <4>4. (i - 1) * k + j <= h[x] /\ 1 <= (i - 1) * k + j
        BY <4>1, <4>2, <4>3
      <4> QED BY <4>1, <4>2, <4>4, <3>3
    <3>5. <<x, (i - 1) * k + j>> \in W
      <4> HIDE DEF h
      <4> QED BY <3>4, <1>1 DEF Units
    <3> QED BY <3>2, <3>5
  <2>2. ASSUME NEW p \in P, NEW q \in P, b[p] = b[q] PROVE p = q
    <3>1. PICK x \in D, i \in Int, j \in 1 .. k : 
           i \in 1 .. f[x] /\ p = <<<<x, i>>, j>>
      BY DEF Units
    <3>2. PICK y \in D, m \in Int, n \in 1 .. k : 
           m \in 1 .. f[y] /\ q = <<<<y, m>>, n>>
      BY DEF Units
    <3>3. x = y /\ (i - 1) * k + j = (m - 1) * k + n
      <4>1. b[p] = <<x, (i - 1) * k + j>>
        BY <3>1
      <4>2. b[q] = <<y, (m - 1) * k + n>>
        BY <3>2
      <4> QED BY <2>2, <4>1, <4>2
    <3>4. i \in Nat /\ m \in Nat /\ j \in Nat /\ n \in Nat /\ 1 <= j /\ j <= k
          /\ 1 <= n /\ n <= k
      BY <3>1, <3>2, f[x] \in Nat, f[y] \in Nat
    <3>5. ASSUME NEW c \in Nat, NEW d \in Nat, c < d PROVE (c - 1) * k + k <= (d - 1) * k
      <4>1. c <= d - 1
        BY <3>5
      <4>2. c * k <= (d - 1) * k
        BY <4>1
      <4> QED BY <4>2
    <3>6. i = m
      <4>1. CASE i < m
        BY <3>3, <3>4, <3>5, <4>1
      <4>2. CASE m < i
        BY <3>3, <3>4, <3>5, <4>2
      <4> QED BY <3>4, <4>1, <4>2
    <3>7. j = n
      BY <3>3, <3>4, <3>6
    <3> QED BY <3>1, <3>2, <3>3, <3>6, <3>7
  <2>3. ASSUME NEW r \in W PROVE \E p \in P : b[p] = r
    <3>1. PICK x \in D, n \in Int : n \in 1 .. h[x] /\ r = <<x, n>>
      <4> HIDE DEF h
      <4> QED BY <1>1 DEF Units
    <3>2. f[x] \in Nat /\ h[x] = k * f[x] /\ n \in Nat /\ 1 <= n /\ n <= k * f[x]
      BY <3>1
    <3>3. k \in Nat \ {0}
      <4>1. k = 0 => k * f[x] = 0
        BY <3>2
      <4> QED BY <3>2, <4>1
    <3> DEFINE d == (n - 1) \div k
    <3>4. d \in Nat /\ d * k <= n - 1 /\ n - 1 < d * k + k
      BY <3>2, <3>3
    <3> HIDE DEF d
    <3>5. d + 1 \in 1 .. f[x]
      <4>1. SUFFICES ASSUME d >= f[x] PROVE FALSE
        BY <3>2, <3>4
      <4>2. d * k >= f[x] * k
        BY <4>1, <3>2, <3>4
      <4> QED BY <4>2, <3>2, <3>4
    <3>6. n - d * k \in 1 .. k
      BY <3>2, <3>4
    <3>7. PICK i \in Int, j \in Int :
            i = d + 1 /\ j = n - d * k /\ <<<<x, i>>, j>> \in P
      <4> DEFINE i == d + 1
                 j == n - d * k
      <4>1. i \in Int /\ j \in Int /\ i \in 1 .. f[x] /\ j \in 1 .. k
        BY <3>2, <3>4, <3>5, <3>6
      <4> HIDE DEF i, j
      <4>2. <<<<x, i>>, j>> \in P
        BY <4>1 DEF Units
      <4> QED BY <4>1, <4>2 DEF i, j
    <3>8. b[<<<<x, i>>, j>>] = <<x, (i - 1) * k + j>>
      BY <3>7
    <3>9. (i - 1) * k + j = n
      <4>1. d * k \in Nat /\ i - 1 = d
        BY <3>2, <3>4, <3>7
      <4> QED BY <3>2, <3>7, <4>1
    <3> QED BY <3>1, <3>7, <3>8, <3>9
  <2> HIDE DEF P, W
  <2> QED BY <2>1, <2>2, <2>3 DEF Bijection, Injection, Surjection, IsInjective
<1>6. Cardinality(W) = Cardinality(P)
  <2> HIDE DEF P, W, b
  <2> QED BY <1>4, <1>5, FS_Bijection DEF ExistsBijection
<1>7. Cardinality(U) \in Nat
  <2> HIDE DEF U
  <2> QED BY <1>2, FS_CardinalityType
<1>8. Total(f) = Cardinality(U) /\ Total(h) = Cardinality(W)
  BY DEF Total
<1> HIDE DEF U, P, W, h
<1>9. Total(h) = k * Total(f)
  BY <1>4, <1>6, <1>7, <1>8
<1> QED BY <1>9 DEF h

\* A function that is 1 everywhere has the size of its domain as its total.
LEMMA TotalOnes ==
  ASSUME NEW D, IsFiniteSet(D)
  PROVE  Total([x \in D |-> 1]) = Cardinality(D) /\ Cardinality(D) \in Nat
<1> DEFINE one == 1
           ones == [x \in D |-> 1]
<1>1. Units(ones) = D \X (1 .. one)
  BY DEF Units
<1>2. one \in Nat /\ Cardinality(D) \in Nat /\ Cardinality(D) * one = Cardinality(D)
  BY FS_CardinalityType
<1> HIDE DEF one
<1>3. IsFiniteSet(1 .. one) /\ Cardinality(1 .. one) = one
  BY <1>2, FS_Interval
<1>4. Cardinality(D \X (1 .. one)) = Cardinality(D) * one
  BY <1>3, FS_Product, Zenon
<1>5. Total(ones) = Cardinality(D)
  BY <1>1, <1>2, <1>4, Zenon DEF Total
<1> QED BY <1>2, <1>5

\* Elements that contribute nothing may be added to the domain.
LEMMA TotalExtend ==
  ASSUME NEW D, NEW E, D \subseteq E, NEW f \in [D -> Nat], NEW g \in [E -> Nat],
         \A x \in D : g[x] = f[x], \A x \in E \ D : g[x] = 0
  PROVE  Total(g) = Total(f)
<1>1. ASSUME NEW u \in Units(g) PROVE u \in Units(f)
  <2>1. PICK x \in E : u \in {x} \X (1 .. g[x])
    BY <1>1 DEF Units
  <2>2. x \in D
    BY <2>1
  <2> QED BY <2>1, <2>2 DEF Units
<1>2. ASSUME NEW u \in Units(f) PROVE u \in Units(g)
  <2>1. PICK x \in D : u \in {x} \X (1 .. f[x])
    BY <1>2 DEF Units
  <2> QED BY <2>1 DEF Units
<1>3. Units(g) = Units(f)
  BY <1>1, <1>2
<1> QED BY <1>3 DEF Total

\* One element apart.
LEMMA TotalZeroed ==
  ASSUME NEW D, IsFiniteSet(D), NEW f \in [D -> Nat], NEW x \in D
  PROVE  Total([f EXCEPT ![x] = 0]) = Total(f) - f[x]
<1>1. \A v \in Nat : Total([f EXCEPT ![x] = v]) = Total(f) - f[x] + v
  BY TotalExcept
<1>2. Total([f EXCEPT ![x] = 0]) = Total(f) - f[x] + 0
  <2>1. 0 \in Nat
    OBVIOUS
  <2> QED BY <1>1, <2>1, Zenon
<1>3. Total(f) \in Nat /\ f[x] \in Nat
  BY TotalBounds
<1> QED BY <1>2, <1>3

RestOf(f, x) == [y \in DOMAIN f \ {x} |-> f[y]]

\* A sum is one of its terms and the sum of the rest.
LEMMA TotalWithout ==
  ASSUME NEW D, IsFiniteSet(D), NEW f \in [D -> Nat], NEW x \in D
  PROVE  Total(f) = f[x] + Total(RestOf(f, x))
<1> DEFINE g == [f EXCEPT ![x] = 0]
           C == D \ {x}
           h == RestOf(f, x)
<1>1. Total(g) = Total(f) - f[x]
  BY TotalZeroed, Zenon
<1>2. /\ g \in [D -> Nat] /\ h \in [C -> Nat] /\ C \subseteq D /\ f[x] \in Nat
      /\ \A y \in C : g[y] = h[y]
      /\ \A y \in D \ C : g[y] = 0
  BY DEF RestOf
<1>3. Total(f) \in Nat
  BY TotalBounds, Zenon
<1> HIDE DEF g, h, C
<1>4. Total(g) = Total(h)
  BY <1>2, TotalExtend
<1> QED BY <1>1, <1>2, <1>3, <1>4 DEF h

\* The total does not depend on the names of the elements.
LEMMA TotalReindex ==
  ASSUME NEW D, NEW E, IsFiniteSet(D), NEW f \in [D -> Nat], NEW g \in [E -> Nat],
         NEW h \in Bijection(D, E), \A x \in D : f[x] = g[h[x]]
  PROVE  IsFiniteSet(E) /\ Total(f) = Total(g)
<1> DEFINE U == Units(f)
           W == Units(g)
           b == [p \in U |-> <<h[p[1]], p[2]>>]
<1>1. /\ h \in [D -> E] /\ \A x, y \in D : h[x] = h[y] => x = y
      /\ \A y \in E : \E x \in D : h[x] = y
  BY DEF Bijection, Injection, Surjection, IsInjective
<1>2. IsFiniteSet(E)
  BY FS_Bijection DEF ExistsBijection
<1>3. IsFiniteSet(U)
  BY UnitsFinite DEF Units
<1>4. \A p \in U : \E x \in D : p = <<x, p[2]>> /\ p[2] \in 1 .. f[x]
  BY DEF Units
<1>5. \A x \in D : \A i \in 1 .. f[x] : <<x, i>> \in U /\ b[<<x, i>>] = <<h[x], i>>
  <2>1. \A x \in D : \A i \in 1 .. f[x] : <<x, i>> \in U
    BY DEF Units
  <2>2. SUFFICES ASSUME NEW x \in D, NEW i \in 1 .. f[x]
                 PROVE  <<x, i>> \in U /\ b[<<x, i>>] = <<h[x], i>>
    OBVIOUS
  <2> DEFINE p == <<x, i>>
  <2>3. p \in U /\ p[1] = x /\ p[2] = i
    BY <2>1
  <2> HIDE DEF U, p
  <2>4. b[p] = <<h[p[1]], p[2]>>
    BY <2>3
  <2> QED BY <2>3, <2>4 DEF p
<1>6. \A y \in E : \A i \in 1 .. g[y] : <<y, i>> \in W
  BY DEF Units
<1>7. \A q \in W : \E y \in E : q = <<y, q[2]>> /\ q[2] \in 1 .. g[y]
  BY DEF Units
<1> DEFINE good == /\ b \in [U -> W]
                   /\ \A p, q \in U : b[p] = b[q] => p = q
                   /\ \A q \in W : \E p \in U : b[p] = q
<1>8. good
  <2>1. ASSUME NEW p \in U PROVE b[p] \in W
    <3>1. PICK x \in D : p = <<x, p[2]>> /\ p[2] \in 1 .. f[x]
      BY <1>4
    <3>2. b[p] = <<h[x], p[2]>> /\ h[x] \in E /\ p[2] \in 1 .. g[h[x]]
      BY <1>1, <1>5, <3>1
    <3> HIDE DEF U, W, b
    <3> QED BY <1>6, <3>2
  <2>2. ASSUME NEW p \in U, NEW q \in U, b[p] = b[q] PROVE p = q
    <3>1. PICK x \in D : p = <<x, p[2]>> /\ p[2] \in 1 .. f[x]
      BY <1>4
    <3>2. PICK y \in D : q = <<y, q[2]>> /\ q[2] \in 1 .. f[y]
      BY <1>4
    <3>3. b[p] = <<h[x], p[2]>> /\ b[q] = <<h[y], q[2]>>
      BY <1>5, <3>1, <3>2
    <3>4. h[x] = h[y] /\ p[2] = q[2]
      BY <2>2, <3>3
    <3> QED BY <1>1, <3>1, <3>2, <3>4
  <2>3. ASSUME NEW q \in W PROVE \E p \in U : b[p] = q
    <3>1. PICK y \in E : q = <<y, q[2]>> /\ q[2] \in 1 .. g[y]
      BY <1>7
    <3>2. PICK x \in D : h[x] = y
      BY <1>1
    <3>3. q[2] \in 1 .. f[x]
      BY <3>1, <3>2
    <3>4. <<x, q[2]>> \in U /\ b[<<x, q[2]>>] = q
      BY <1>5, <3>1, <3>2, <3>3
    <3> HIDE DEF U, W, b
    <3> QED BY <3>4
  <2>4. b \in [U -> W]
    <3> HIDE DEF U, W
    <3> QED BY <2>1
  <2> HIDE DEF U, W, b
  <2> QED BY <2>2, <2>3, <2>4
<1> HIDE DEF U, W, b
<1>9. b \in Bijection(U, W)
  BY <1>8 DEF Bijection, Injection, Surjection, IsInjective
<1>10. Cardinality(U) = Cardinality(W)
  BY <1>3, <1>9, FS_Bijection DEF ExistsBijection
<1> QED BY <1>2, <1>10 DEF Total, U, W

\* A set of natural numbers that is not empty has a least element.
LEMMA LeastNatural ==
  ASSUME NEW S, S \subseteq Nat, S # {}
  PROVE  \E n \in S : \A k \in S : n <= k
<1> DEFINE R == OpToRel(<, Nat)
<1>1. IsWellFoundedOn(R, Nat)
  BY NatLessThanWellFounded
<1>2. R = {p \in Nat \X Nat : p[1] < p[2]}
  BY DEF OpToRel
<1> HIDE DEF R
<1>3. PICK n \in S : \A k \in S : ~ (<<k, n>> \in R)
  BY <1>1, WFMin, Zenon
<1>4. ASSUME NEW k \in S PROVE n <= k
  <2>1. k \in Nat /\ n \in Nat
    OBVIOUS
  <2>2. <<k, n>> \in R <=> k < n
    BY <1>2, <2>1
  <2> QED BY <1>3, <2>1, <2>2
<1> QED BY <1>4

\* A set that holds 0, and n + 1 whenever it holds n, holds every number.
LEMMA SetInduction ==
  ASSUME NEW S, 0 \in S, \A n \in Nat : n \in S => n + 1 \in S
  PROVE  \A n \in Nat : n \in S
<1> DEFINE bad == {n \in Nat : n \notin S}
<1>1. SUFFICES ASSUME bad # {} PROVE FALSE
  OBVIOUS
<1>2. PICK n \in bad : \A k \in bad : n <= k
  <2>1. bad \subseteq Nat
    OBVIOUS
  <2> HIDE DEF bad
  <2> QED BY <1>1, <2>1, LeastNatural
<1>3. n \in Nat /\ n \notin S /\ n # 0
  OBVIOUS
<1>4. n - 1 \in Nat /\ ~ (n - 1 \in bad)
  BY <1>2, <1>3
<1>5. n - 1 \in S /\ (n - 1) + 1 = n
  BY <1>4
<1> QED BY <1>3, <1>4, <1>5

\* TotalExcept, for every function on one set.
LEMMA TotalExceptAny ==
  ASSUME NEW D, IsFiniteSet(D)
  PROVE  \A f \in [D -> Nat], x \in D, v \in Nat :
           Total([f EXCEPT ![x] = v]) = Total(f) - f[x] + v
  BY TotalExcept

\* The columns of a finite table that are in T, the others being zero.
ColumnsIn(D, E, F, T) ==
  Total([d \in D |-> Total([e \in E |-> IF e \in T THEN F[<<d, e>>] ELSE 0])])
    = Total([e \in E |-> IF e \in T THEN Total([d \in D |-> F[<<d, e>>]]) ELSE 0])

\* The same, one column at a time.
LEMMA OneMoreColumn ==
  ASSUME NEW D, IsFiniteSet(D), NEW E, IsFiniteSet(E), NEW F \in [D \X E -> Nat],
         NEW T, T \subseteq E, NEW x \in E \ T, ColumnsIn(D, E, F, T)
  PROVE  ColumnsIn(D, E, F, T \cup {x})
<1> DEFINE row(d, U) == [e \in E |-> IF e \in U THEN F[<<d, e>>] ELSE 0]
           column(e) == [d \in D |-> F[<<d, e>>]]
           columns(U) == [e \in E |-> IF e \in U THEN Total(column(e)) ELSE 0]
           V == T \cup {x}
<1>0. \A g \in [E -> Nat] : \A e \in E, c \in Nat :
        Total([g EXCEPT ![e] = c]) = Total(g) - g[e] + c
  BY TotalExceptAny
<1>1. \A d \in D : \A U : row(d, U) \in [E -> Nat]
  OBVIOUS
<1>2. \A e \in E : column(e) \in [D -> Nat] /\ Total(column(e)) \in Nat
  <2>1. \A e \in E : column(e) \in [D -> Nat]
    OBVIOUS
  <2> HIDE DEF column
  <2> QED BY <2>1, TotalBounds
<1>3. \A U : columns(U) \in [E -> Nat]
  BY <1>2
<1>4. ASSUME NEW d \in D PROVE Total(row(d, V)) = Total(row(d, T)) + column(x)[d]
  <2>1. row(d, V) = [row(d, T) EXCEPT ![x] = F[<<d, x>>]]
        /\ row(d, T)[x] = 0 /\ F[<<d, x>>] \in Nat /\ column(x)[d] = F[<<d, x>>]
    OBVIOUS
  <2>2. row(d, T) \in [E -> Nat] /\ Total(row(d, T)) \in Nat
    BY <1>1, TotalBounds
  <2> DEFINE r == row(d, T)
             v == F[<<d, x>>]
  <2> HIDE DEF row, column
  <2>3. r \in [E -> Nat] /\ v \in Nat /\ x \in E /\ r[x] = 0 /\ Total(r) \in Nat
    BY <2>1, <2>2
  <2>4. row(d, V) = [r EXCEPT ![x] = v]
    BY <2>1
  <2> HIDE DEF r, v
  <2>5. Total([r EXCEPT ![x] = v]) = Total(r) - r[x] + v
    BY <1>0, <2>3
  <2> QED BY <2>1, <2>3, <2>4, <2>5 DEF r, v
<1>5. Total(columns(V)) = Total(columns(T)) + Total(column(x))
  <2>1. columns(V) = [columns(T) EXCEPT ![x] = Total(column(x))] /\ columns(T)[x] = 0
    OBVIOUS
  <2>2. columns(T) \in [E -> Nat] /\ Total(columns(T)) \in Nat /\ Total(column(x)) \in Nat
    BY <1>2, <1>3, TotalBounds
  <2> DEFINE r == columns(T)
             v == Total(column(x))
  <2> HIDE DEF columns, column
  <2>3. r \in [E -> Nat] /\ v \in Nat /\ x \in E /\ r[x] = 0 /\ Total(r) \in Nat
    BY <2>1, <2>2
  <2>4. columns(V) = [r EXCEPT ![x] = v]
    BY <2>1
  <2> HIDE DEF r, v
  <2>5. Total([r EXCEPT ![x] = v]) = Total(r) - r[x] + v
    BY <1>0, <2>3
  <2> QED BY <2>3, <2>4, <2>5 DEF r, v
<1> DEFINE rowsT == [d \in D |-> Total(row(d, T))]
           rowsV == [d \in D |-> Total(row(d, V))]
<1>6. rowsT \in [D -> Nat] /\ Total(rowsT) \in Nat
  <2>1. \A d \in D : Total(row(d, T)) \in Nat
    BY <1>1, TotalBounds
  <2>2. rowsT \in [D -> Nat]
    BY <2>1
  <2> HIDE DEF rowsT
  <2> QED BY <2>2, TotalBounds
<1>7. rowsV = [d \in D |-> rowsT[d] + column(x)[d]]
  <2> HIDE DEF row, column
  <2> QED BY <1>4
<1>8. Total(rowsV) = Total(rowsT) + Total(column(x))
  <2>1. column(x) \in [D -> Nat]
    BY <1>2
  <2> HIDE DEF rowsT, rowsV, column
  <2> QED BY <1>6, <1>7, <2>1, TotalSum
<1>9. Total(rowsT) = Total(columns(T))
  BY DEF ColumnsIn
<1> HIDE DEF columns, column
<1>10. Total(rowsV) = Total(columns(V))
  <2> HIDE DEF rowsT, rowsV
  <2> QED BY <1>5, <1>8, <1>9
<1> QED BY <1>10 DEF ColumnsIn, columns, column

RowsOf(D, E, F) == [d \in D |-> Total([e \in E |-> F[<<d, e>>]])]
ColumnsOf(D, E, F) == [e \in E |-> Total([d \in D |-> F[<<d, e>>]])]

\* The total of the rows of a finite table is the total of its columns.
LEMMA TotalSwap ==
  ASSUME NEW D, IsFiniteSet(D), NEW E, IsFiniteSet(E), NEW F \in [D \X E -> Nat]
  PROVE  Total(RowsOf(D, E, F)) = Total(ColumnsOf(D, E, F))
<1> USE DEF RowsOf, ColumnsOf
<1> DEFINE S == {n \in Nat : \A T \in SUBSET E : Cardinality(T) = n => ColumnsIn(D, E, F, T)}
<1>1. 0 \in S
  <2> SUFFICES ASSUME NEW T \in SUBSET E, Cardinality(T) = 0
               PROVE  ColumnsIn(D, E, F, T)
    OBVIOUS
  <2>1. T = {}
    BY FS_Subset, FS_EmptySet
  <2> DEFINE zeros == [e \in E |-> 0]
             rows == [d \in D |-> Total(zeros)]
  <2>2. zeros \in [E -> Nat] /\ \A e \in E : zeros[e] = 0
    OBVIOUS
  <2> HIDE DEF zeros
  <2>3. Total(zeros) = 0
    BY <2>2, TotalZero
  <2>4. rows \in [D -> Nat] /\ \A d \in D : rows[d] = 0
    BY <2>3
  <2> HIDE DEF rows
  <2>5. Total(rows) = Total(zeros)
    BY <2>3, <2>4, TotalZero
  <2> QED BY <2>1, <2>5 DEF ColumnsIn, rows, zeros
<1>2. ASSUME NEW n \in Nat, n \in S PROVE n + 1 \in S
  <2> SUFFICES ASSUME NEW T \in SUBSET E, Cardinality(T) = n + 1
               PROVE  ColumnsIn(D, E, F, T)
    OBVIOUS
  <2>1. IsFiniteSet(T)
    BY FS_Subset
  <2>2. T # {}
    <3>1. Cardinality({}) = 0 /\ n + 1 # 0
      BY FS_EmptySet
    <3> QED BY <3>1
  <2>3. PICK x \in T : TRUE
    BY <2>2
  <2> DEFINE R == T \ {x}
  <2>4. Cardinality(R) = n
    <3>1. Cardinality(T \ {x}) = Cardinality(T) - 1
      BY <2>1, <2>3, FS_RemoveElement, Zenon
    <3> QED BY <3>1
  <2>5. ColumnsIn(D, E, F, R)
    BY <1>2, <2>4
  <2>6. R \subseteq E /\ x \in E \ R /\ R \cup {x} = T
    OBVIOUS
  <2> HIDE DEF R
  <2>7. ColumnsIn(D, E, F, R \cup {x})
    BY <2>5, <2>6, OneMoreColumn
  <2> QED BY <2>6, <2>7
<1> HIDE DEF S
<1>3. \A n \in Nat : n \in S
  BY <1>1, <1>2, SetInduction
<1>4. Cardinality(E) \in Nat
  BY FS_CardinalityType
<1>5. ColumnsIn(D, E, F, E)
  BY <1>3, <1>4 DEF S
<1> QED BY <1>5 DEF ColumnsIn

=============================================================================
