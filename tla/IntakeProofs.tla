---------------------------- MODULE IntakeProofs ----------------------------
(***************************************************************************)
(* From the reply of the language model to the rows, for every list that   *)
(* the model can print: the stages of Intake select and number scenarios,  *)
(* each selection is a bijection that keeps the order, and so the rows of  *)
(* a coin are its usable scenarios, each at its place.                     *)
(***************************************************************************)
EXTENDS Intake, FiniteSetTheorems, FunctionTheorems, TLAPS

-----------------------------------------------------------------------------
(* Lists *)

\* R is a strict total order of S.
Orders(R, S) ==
    /\ \A x \in S : <<x, x>> \notin R
    /\ \A x, y \in S : x # y => <<x, y>> \in R \/ <<y, x>> \in R
    /\ \A x, y, z \in S : <<x, y>> \in R /\ <<y, z>> \in R => <<x, z>> \in R

LEMMA PlaceType ==
    ASSUME NEW S, IsFiniteSet(S), NEW R, Orders(R, S), NEW x \in S
    PROVE  Place(S, R, x) \in 0 .. Cardinality(S) - 1
<1> DEFINE Before == {y \in S : <<y, x>> \in R}
<1>1. Before \subseteq S /\ x \notin Before
  BY DEF Orders
<1>2. /\ Cardinality(Before) \in Nat /\ Cardinality(S) \in Nat
      /\ Cardinality(Before) <= Cardinality(S) /\ Cardinality(Before) # Cardinality(S)
  BY <1>1, FS_Subset, FS_CardinalityType
<1> QED
  BY <1>2 DEF Place

\* What comes later has more before it.
LEMMA PlacesDiffer ==
    ASSUME NEW S, IsFiniteSet(S), NEW R, Orders(R, S),
           NEW x \in S, NEW y \in S, <<x, y>> \in R
    PROVE  Place(S, R, x) < Place(S, R, y)
<1> DEFINE Before(z) == {w \in S : <<w, z>> \in R}
<1>1. Before(x) \subseteq Before(y) /\ Before(y) \subseteq S
  BY DEF Orders
<1>2. x \in Before(y) /\ x \notin Before(x)
  BY DEF Orders
<1> HIDE DEF Before
<1>3. /\ IsFiniteSet(Before(y))
      /\ Cardinality(Before(x)) \in Nat /\ Cardinality(Before(y)) \in Nat
      /\ Cardinality(Before(x)) <= Cardinality(Before(y))
      /\ Cardinality(Before(x)) # Cardinality(Before(y))
  <2>1. IsFiniteSet(Before(y))
    BY <1>1, FS_Subset
  <2> QED
    BY <1>1, <1>2, <2>1, FS_Subset, FS_CardinalityType
<1> QED
  BY <1>3 DEF Before, Place

\* Every number is the place of one element.
LEMMA Arranged ==
    ASSUME NEW S, IsFiniteSet(S), NEW R, Orders(R, S)
    PROVE  /\ Cardinality(S) \in Nat
           /\ Arrange(S, R) \in Bijection(1 .. Cardinality(S), S)
           /\ \A k \in 1 .. Cardinality(S) : Place(S, R, Arrange(S, R)[k]) = k - 1
           /\ \A j, k \in 1 .. Cardinality(S) :
                j < k <=> <<Arrange(S, R)[j], Arrange(S, R)[k]>> \in R
<1> DEFINE n == Cardinality(S)  at == [x \in S |-> Place(S, R, x) + 1]  A == Arrange(S, R)
<1>1. n \in Nat
  BY FS_CardinalityType
<1>2. \A x \in S : Place(S, R, x) \in 0 .. n - 1
  BY PlaceType
<1>3. at \in [S -> 1 .. n]
  BY <1>1, <1>2
<1>4. ASSUME NEW x \in S, NEW y \in S, x # y
      PROVE  Place(S, R, x) # Place(S, R, y)
  <2>1. CASE <<x, y>> \in R
    BY <1>2, <2>1, PlacesDiffer
  <2>2. CASE <<y, x>> \in R
    BY <1>2, <2>2, PlacesDiffer
  <2> QED
    BY <1>4, <2>1, <2>2 DEF Orders
<1>5. at \in Injection(S, 1 .. n)
  <2>1. \A x, y \in S : at[x] = at[y] => x = y
    BY <1>2, <1>4
  <2> QED
    BY <1>3, <2>1, Fun_IsInj
<1>6. \A k \in 1 .. n : \E x \in S : at[x] = k
  <2>1. IsFiniteSet(1 .. n) /\ Cardinality(1 .. n) = n
    BY <1>1, FS_Interval
  <2> HIDE DEF at
  <2>2. at \in Surjection(S, 1 .. n)
    BY <1>5, <2>1, FS_Injection
  <2> QED
    BY <2>2, Fun_SurjectionProperties
<1>7. \A k \in 1 .. n : \E x \in S : Place(S, R, x) = k - 1
  BY <1>2, <1>6
<1>8. \A k \in 1 .. n : A[k] \in S /\ Place(S, R, A[k]) = k - 1
  BY <1>7 DEF Arrange
<1>9. A \in [1 .. n -> S]
  <2>1. A = [k \in 1 .. n |-> A[k]]
    BY DEF Arrange
  <2> QED
    BY <1>8, <2>1
<1>10. A \in Bijection(1 .. n, S)
  <2>1. \A j, k \in 1 .. n : A[j] = A[k] => j = k
    BY <1>8
  <2>2. ASSUME NEW x \in S PROVE \E k \in 1 .. n : A[k] = x
    <3>1. Place(S, R, x) + 1 \in 1 .. n /\ Place(S, R, x) = (Place(S, R, x) + 1) - 1
      BY <1>1, <1>2
    <3> QED
      BY <1>4, <1>8, <3>1
  <2> QED
    BY <1>9, <2>1, <2>2, Fun_IsBij
<1>11. ASSUME NEW j \in 1 .. n, NEW k \in 1 .. n
       PROVE  j < k <=> <<A[j], A[k]>> \in R
  <2>1. CASE <<A[j], A[k]>> \in R
    BY <1>8, <2>1, PlacesDiffer
  <2>2. CASE <<A[k], A[j]>> \in R
    <3>1. ~(<<A[j], A[k]>> \in R)
      BY <1>8, <2>2 DEF Orders
    <3> QED
      BY <1>8, <2>2, <3>1, PlacesDiffer
  <2>3. CASE A[j] = A[k]
    BY <1>8, <2>3 DEF Orders
  <2> QED
    BY <1>8, <2>1, <2>2, <2>3 DEF Orders
<1> QED
  BY <1>1, <1>8, <1>10, <1>11

\* f takes S in the order Q to T in the order R.
Keeps(f, S, Q, T, R) ==
    /\ f \in Bijection(S, T)
    /\ \A x, y \in S : <<x, y>> \in Q <=> <<f[x], f[y]>> \in R

\* A bijection that keeps the order keeps the places.
LEMMA PlaceMoves ==
    ASSUME NEW S, IsFiniteSet(S), NEW T, NEW Q, NEW R, NEW f, Keeps(f, S, Q, T, R)
    PROVE  /\ Cardinality(T) = Cardinality(S)
           /\ \A x \in S : Place(T, R, f[x]) = Place(S, Q, x)
<1>0. /\ f \in [S -> T]
      /\ \A x, y \in S : f[x] = f[y] => x = y
      /\ \A z \in T : \E x \in S : f[x] = z
      /\ \A x, y \in S : <<x, y>> \in Q <=> <<f[x], f[y]>> \in R
  BY Fun_BijectionProperties DEF Keeps
<1>1. Cardinality(T) = Cardinality(S)
  BY FS_Bijection DEF ExistsBijection, Keeps
<1>2. ASSUME NEW x \in S PROVE Place(T, R, f[x]) = Place(S, Q, x)
  <2> DEFINE B == {y \in S : <<y, x>> \in Q}
             C == {z \in T : <<z, f[x]>> \in R}
             g == [y \in B |-> f[y]]
  <2>1. g \in [B -> C] /\ \A y, z \in B : g[y] = g[z] => y = z
    BY <1>0
  <2>2. \A z \in C : \E y \in B : g[y] = z
    BY <1>0
  <2>3. g \in Bijection(B, C)
    <3> HIDE DEF B, C, g
    <3> QED
      BY <2>1, <2>2, Fun_IsBij
  <2>4. IsFiniteSet(B)
    BY FS_Subset
  <2>5. Cardinality(C) = Cardinality(B)
    <3> HIDE DEF B, C, g
    <3> QED
      BY <2>3, <2>4, FS_Bijection DEF ExistsBijection
  <2> QED
    BY <2>5 DEF Place
<1> QED
  BY <1>1, <1>2

-----------------------------------------------------------------------------
(* Selections of a list *)

LEMMA UpwardsOrders ==
    ASSUME NEW D \in SUBSET Nat
    PROVE  /\ Orders(Upwards(D), D)
           /\ \A x, y \in D : <<x, y>> \in Upwards(D) <=> x < y
<1>1. \A x, y \in D : <<x, y>> \in Upwards(D) <=> x < y
  BY DEF Upwards
<1> QED
  BY <1>1 DEF Orders

\* What a list in an order consists of.
LEMMA InOrderIs ==
    ASSUME NEW D, IsFiniteSet(D), NEW R, Orders(R, D), NEW list
    PROVE  /\ Cardinality(D) \in Nat
           /\ InOrder(list, D, R) = [k \in 1 .. Cardinality(D) |-> list[Arrange(D, R)[k]]]
           /\ Len(InOrder(list, D, R)) = Cardinality(D)
           /\ Arrange(D, R) \in Bijection(1 .. Cardinality(D), D)
           /\ \A j, k \in 1 .. Cardinality(D) :
                j < k <=> <<Arrange(D, R)[j], Arrange(D, R)[k]>> \in R
<1>2. Cardinality(D) \in Nat
  BY FS_CardinalityType
<1>3. InOrder(list, D, R) = [k \in 1 .. Cardinality(D) |-> list[Arrange(D, R)[k]]]
  BY DEF InOrder
<1>4. Len(InOrder(list, D, R)) = Cardinality(D)
  BY <1>2, <1>3
<1>5. /\ Arrange(D, R) \in Bijection(1 .. Cardinality(D), D)
      /\ \A j, k \in 1 .. Cardinality(D) :
            j < k <=> <<Arrange(D, R)[j], Arrange(D, R)[k]>> \in R
  BY Arranged
<1> QED
  BY <1>2, <1>3, <1>4, <1>5

\* Where the elements of a selection come from.
Source(D) == Arrange(D, Upwards(D))

\* out consists of the elements of list at the positions D, and from says where each
\* was.
Selects(out, from, list, D) ==
    /\ Len(out) \in Nat
    /\ \A k \in 1 .. Len(out) : from[k] \in D /\ out[k] = list[from[k]]
    /\ \A i \in D : \E k \in 1 .. Len(out) : from[k] = i
    /\ \A j, k \in 1 .. Len(out) : j < k <=> from[j] < from[k]

\* Pick lists the elements at the positions D, in the order of the list.
LEMMA PickIs ==
    ASSUME NEW n \in Nat, NEW D \in SUBSET (1 .. n), NEW list
    PROVE  Selects(Pick(list, D), Source(D), list, D)
<1>0. IsFiniteSet(D)
  <2>1. IsFiniteSet(1 .. n)
    BY FS_Interval
  <2> QED
    BY <2>1, FS_Subset
<1>1. Orders(Upwards(D), D) /\ \A x, y \in D : <<x, y>> \in Upwards(D) <=> x < y
  BY UpwardsOrders
<1> DEFINE m == Cardinality(D)
<1>2. /\ m \in Nat /\ Len(Pick(list, D)) = m
      /\ Pick(list, D) = [k \in 1 .. m |-> list[Source(D)[k]]]
      /\ Source(D) \in Bijection(1 .. m, D)
      /\ \A j, k \in 1 .. m : j < k <=> <<Source(D)[j], Source(D)[k]>> \in Upwards(D)
  <2> DEFINE R == Upwards(D)
  <2>1. Orders(R, D)
    BY <1>1
  <2> HIDE DEF R
  <2>2. /\ m \in Nat /\ Len(InOrder(list, D, R)) = m
        /\ InOrder(list, D, R) = [k \in 1 .. m |-> list[Arrange(D, R)[k]]]
        /\ Arrange(D, R) \in Bijection(1 .. m, D)
        /\ \A j, k \in 1 .. m : j < k <=> <<Arrange(D, R)[j], Arrange(D, R)[k]>> \in R
    BY <1>0, <2>1, InOrderIs
  <2> QED
    BY <2>2 DEF Pick, Source, R
<1> HIDE DEF m
<1>3. /\ Source(D) \in [1 .. m -> D]
      /\ \A i \in D : \E k \in 1 .. m : Source(D)[k] = i
  BY <1>2, Fun_BijectionProperties
<1> DEFINE out == Pick(list, D)  from == Source(D)
<1> HIDE DEF out, from
<1>4. Selects(out, from, list, D)
  BY <1>1, <1>2, <1>3 DEF Selects, out, from
<1> QED
  BY <1>4 DEF out, from

\* What holds of the elements of a list at D holds of what is picked.
LEMMA PickKeeps ==
    ASSUME NEW n \in Nat, NEW D \in SUBSET (1 .. n), NEW list, NEW V,
           \A i \in D : list[i] \in V
    PROVE  /\ Len(Pick(list, D)) \in Nat
           /\ \A k \in 1 .. Len(Pick(list, D)) : Pick(list, D)[k] \in V
           /\ Pick(list, D) \in Seq(V)
<1> DEFINE out == Pick(list, D)  from == Source(D)
<1>1. Selects(out, from, list, D)
  BY PickIs
<1>2. IsFiniteSet(D)
  <2>1. IsFiniteSet(1 .. n)
    BY FS_Interval
  <2> QED
    BY <2>1, FS_Subset
<1>3. Cardinality(D) \in Nat
  BY <1>2, FS_CardinalityType
<1>4. out = [k \in 1 .. Cardinality(D) |-> out[k]]
  BY DEF Pick, InOrder
<1> HIDE DEF out, from
<1>5. Len(out) = Cardinality(D)
  BY <1>3, <1>4
<1>6. \A k \in 1 .. Len(out) : out[k] \in V
  BY <1>1 DEF Selects
<1>7. out \in Seq(V)
  BY <1>3, <1>4, <1>5, <1>6
<1> QED
  BY <1>3, <1>5, <1>6, <1>7 DEF out

-----------------------------------------------------------------------------
(* The targets of a row *)

\* out lists the values val of W, each once.
Draws(out, W, val) ==
    /\ Len(out) \in Nat
    /\ \E g \in Bijection(1 .. Len(out), W) : \A k \in 1 .. Len(out) : out[k] = val[g[k]]

ArePrices(tps) ==
    Len(tps) \in Nat /\ \A i \in 1 .. Len(tps) : tps[i] \in Nat \ {0}

LEMMA TargetsArePrices ==
    ASSUME NEW tp \in Seq(Text)
    PROVE  ArePrices(Targets(tp))
<1> DEFINE price == [i \in 1 .. Len(tp) |-> ToFloat(tp[i])]
           D == {i \in 1 .. Len(price) : price[i] > 0}
<1>1. Len(tp) \in Nat /\ \A i \in 1 .. Len(tp) : ToFloat(tp[i]) \in Int
  <2>1. ASSUME NEW t \in Text PROVE ToFloat(t) \in Int
    BY DEF Text, ToFloat, NullPrice
  <2>2. Len(tp) \in Nat /\ \A i \in 1 .. Len(tp) : tp[i] \in Text
    OBVIOUS
  <2> QED
    BY <2>1, <2>2
<1>2. Len(price) = Len(tp) /\ \A i \in 1 .. Len(tp) : price[i] \in Int
  BY <1>1
<1> HIDE DEF price
<1>3. D \in SUBSET (1 .. Len(tp)) /\ \A i \in D : price[i] \in Nat \ {0}
  BY <1>2
<1>4. Targets(tp) = Pick(price, D)
  BY DEF Targets, price
<1> HIDE DEF D
<1>5. /\ Len(Pick(price, D)) \in Nat
      /\ \A k \in 1 .. Len(Pick(price, D)) : Pick(price, D)[k] \in Nat \ {0}
  BY <1>1, <1>3, PickKeeps
<1> QED
  BY <1>4, <1>5 DEF ArePrices

\* The targets that are left are on the profit side.
LEMMA FixTargetsArePrices ==
    ASSUME NEW direction, NEW entry, NEW tps, ArePrices(tps)
    PROVE  /\ ArePrices(FixTargets(direction, entry, tps))
           /\ entry # NullPrice =>
                \A k \in 1 .. Len(FixTargets(direction, entry, tps)) :
                    Profits(direction, entry, FixTargets(direction, entry, tps)[k])
<1>1. CASE entry = NullPrice
  BY <1>1 DEF FixTargets
<1>2. CASE entry # NullPrice
  <2> DEFINE D == {i \in 1 .. Len(tps) : Profits(direction, entry, tps[i])}
  <2>1. Len(tps) \in Nat /\ D \in SUBSET (1 .. Len(tps))
    BY DEF ArePrices
  <2>2. FixTargets(direction, entry, tps) = Pick(tps, D)
    BY <1>2 DEF FixTargets
  <2> DEFINE V == {p \in Nat \ {0} : Profits(direction, entry, p)}
  <2>3. \A i \in D : tps[i] \in V
    BY DEF ArePrices
  <2> HIDE DEF D, V
  <2>4. /\ Len(Pick(tps, D)) \in Nat
        /\ \A k \in 1 .. Len(Pick(tps, D)) : Pick(tps, D)[k] \in V
    BY <2>1, <2>3, PickKeeps
  <2> QED
    BY <2>2, <2>4 DEF ArePrices, V
<1> QED
  BY <1>1, <1>2

LEMMA NearerOrders ==
    ASSUME NEW direction, NEW tps, ArePrices(tps)
    PROVE  Orders(Nearer(direction, tps), 1 .. Len(tps))
<1> DEFINE R == Nearer(direction, tps)  D == 1 .. Len(tps)
<1>1. \A i \in D : i \in Nat /\ tps[i] \in Nat
  BY DEF ArePrices
<1>2. CASE direction = "long"
  <2>1. \A i, j \in D :
          <<i, j>> \in R <=> tps[i] < tps[j] \/ (tps[i] = tps[j] /\ i < j)
    BY <1>2 DEF Nearer
  <2> HIDE DEF R, D
  <2> QED
    BY <1>1, <2>1 DEF Orders, R, D
<1>3. CASE direction # "long"
  <2>1. \A i, j \in D :
          <<i, j>> \in R <=> tps[i] > tps[j] \/ (tps[i] = tps[j] /\ i < j)
    BY <1>3 DEF Nearer
  <2> HIDE DEF R, D
  <2> QED
    BY <1>1, <2>1 DEF Orders, R, D
<1> QED
  BY <1>2, <1>3

\* The targets of a row are those that were given, the nearest first.
LEMMA OrderedIs ==
    ASSUME NEW direction, NEW tps, ArePrices(tps)
    PROVE  /\ Ordered(direction, tps) \in Seq(Nat \ {0})
           /\ Len(Ordered(direction, tps)) = Len(tps)
           /\ Draws(Ordered(direction, tps), 1 .. Len(tps), tps)
           /\ \A j, k \in 1 .. Len(tps) : j < k =>
                IF direction = "long" THEN Ordered(direction, tps)[j] <= Ordered(direction, tps)[k]
                                      ELSE Ordered(direction, tps)[j] >= Ordered(direction, tps)[k]
<1> DEFINE n == Len(tps)  R == Nearer(direction, tps)  D == 1 .. n
           f == Arrange(D, R)  out == Ordered(direction, tps)
<1>1. n \in Nat /\ IsFiniteSet(D) /\ Cardinality(D) = n
  BY FS_Interval DEF ArePrices
<1>2. /\ out = [k \in 1 .. n |-> tps[f[k]]] /\ Len(out) = n
      /\ f \in Bijection(1 .. n, D)
      /\ \A j, k \in 1 .. n : j < k <=> <<f[j], f[k]>> \in R
  <2>1. Orders(R, D)
    BY NearerOrders
  <2>2. out = InOrder(tps, D, R)
    BY DEF Ordered
  <2> HIDE DEF R, D, n, out
  <2> QED
    BY <1>1, <2>1, <2>2, InOrderIs
<1>3. \A i \in D : tps[i] \in Nat \ {0}
  BY DEF ArePrices
<1>4. f \in [1 .. n -> D]
  <2> HIDE DEF f, D, n
  <2> QED
    BY <1>2, Fun_BijectionProperties
<1>5. out \in Seq(Nat \ {0})
  <2> HIDE DEF f, n, out
  <2> QED
    BY <1>1, <1>2, <1>3, <1>4
<1>6. ASSUME NEW j \in 1 .. n, NEW k \in 1 .. n, j < k
      PROVE  IF direction = "long" THEN out[j] <= out[k] ELSE out[j] >= out[k]
  <2>1. <<f[j], f[k]>> \in R /\ out[j] = tps[f[j]] /\ out[k] = tps[f[k]]
    <3> HIDE DEF f, R, out
    <3> QED
      BY <1>2, <1>6
  <2>2. tps[f[j]] \in Nat /\ tps[f[k]] \in Nat
    BY <1>3, <1>4
  <2> HIDE DEF f, out
  <2> QED
    BY <2>1, <2>2 DEF Nearer
<1> QED
  <2>1. Draws(out, D, tps)
    <3> HIDE DEF f, n, out
    <3>1. \A k \in 1 .. n : out[k] = tps[f[k]]
      BY <1>2
    <3> QED
      BY <1>1, <1>2, <3>1 DEF Draws
  <2> HIDE DEF f, out
  <2> QED
    BY <1>2, <1>5, <1>6, <2>1 DEF out

-----------------------------------------------------------------------------
(* Tradable rows *)

\* The row of a usable scenario is tradable.
LEMMA RowIsSound ==
    ASSUME NEW s, NEW expire, s.entry \in Text, s.sl \in Text, s.tp \in Seq(Text),
           HasValidEntry(s)
    PROVE  Tradable(NormalizeScenario(s, expire))
<1> DEFINE direction == Side(s.direction)
           entry     == ToFloat(s.entry)
           given     == Targets(s.tp)
           targets   == FixTargets(direction, entry, given)
           tps       == Ordered(direction, targets)
           sl        == FixStop(direction, entry, StopLoss(s.sl))
           r         == NormalizeScenario(s, expire)
<1>1. /\ r.direction = direction /\ r.entry = entry /\ r.tps = tps /\ r.sl = sl
      /\ direction \in {"long", "short"}
  BY DEF NormalizeScenario, Side
<1>2. entry \in Nat
  BY DEF Text, ToFloat, HasValidEntry, IsNumber, NullPrice
<1>3. /\ sl \in Nat \cup {NaNPrice}
      /\ entry # NullPrice /\ sl \notin {NullPrice, NaNPrice} =>
            sl # entry /\ ~Profits(direction, entry, sl)
  <2>1. StopLoss(s.sl) \in Nat \cup {NaNPrice}
    BY DEF Text, ToFloat, StopLoss, NullPrice
  <2> QED
    BY <2>1 DEF FixStop, NullPrice
<1>4. /\ ArePrices(targets)
      /\ entry # NullPrice =>
            \A k \in 1 .. Len(targets) : Profits(direction, entry, targets[k])
  BY TargetsArePrices, FixTargetsArePrices
<1> HIDE DEF direction, entry, targets, sl, r
<1>5. /\ tps \in Seq(Nat \ {0}) /\ Len(tps) = Len(targets)
      /\ Draws(tps, 1 .. Len(targets), targets)
      /\ \A j, k \in 1 .. Len(targets) : j < k =>
            IF direction = "long" THEN tps[j] <= tps[k] ELSE tps[j] >= tps[k]
  BY <1>4, OrderedIs
<1> HIDE DEF tps
<1>6. entry # NullPrice => \A k \in 1 .. Len(tps) : Profits(direction, entry, tps[k])
  <2>1. PICK f \in Bijection(1 .. Len(targets), 1 .. Len(targets)) :
            \A k \in 1 .. Len(targets) : tps[k] = targets[f[k]]
    BY <1>5 DEF Draws
  <2> DEFINE D == 1 .. Len(targets)
  <2>2. f \in [D -> D]
    <3> HIDE DEF D
    <3>1. f \in Bijection(D, D)
      BY DEF D
    <3> QED
      BY <3>1, Fun_BijectionProperties
  <2> QED
    BY <1>4, <1>5, <2>1, <2>2
<1>7. \A k \in 1 .. Len(tps) : tps[k] \in Nat
  BY <1>5
<1>8. /\ r.entry \in Nat /\ r.sl \in Nat \cup {NaNPrice} /\ r.tps \in Seq(Nat \ {0})
      /\ r.direction \in {"long", "short"}
  BY <1>1, <1>2, <1>3, <1>5 DEF NaNPrice
<1>9. /\ r.entry # NullPrice =>
            \A i \in 1 .. Len(r.tps) : IF r.direction = "long" THEN r.tps[i] > r.entry
                                                             ELSE r.tps[i] < r.entry
      /\ r.entry # NullPrice /\ r.sl \notin {NullPrice, NaNPrice} =>
            IF r.direction = "long" THEN r.entry > r.sl ELSE r.entry < r.sl
  BY <1>1, <1>2, <1>3, <1>6 DEF Profits
<1>10. ASSUME NEW i \in 1 .. Len(r.tps), NEW j \in 1 .. Len(r.tps), i < j
       PROVE  ~(IF r.direction = "long" THEN r.tps[i] > r.tps[j] ELSE r.tps[i] < r.tps[j])
  BY <1>1, <1>5, <1>7, <1>10
<1>11. Tradable(r)
  BY <1>8, <1>9, <1>10 DEF Tradable
<1> QED
  BY <1>11 DEF r

-----------------------------------------------------------------------------
(* Where the scenarios of the message come from *)

\* The scenarios of an item that keep an entry, and what becomes of them.
Entries(item) ==
    {j \in 1 .. Len(item.scenarios) : CleanScenario(item.scenarios[j]).entry # NoText}

Cleaned(item, j) == WithTimeframe(item.symbol, CleanScenario(item.scenarios[j]))

LEMMA CleanedKeepsEntry ==
    ASSUME NEW item, NEW i
    PROVE  Cleaned(item, i).entry = CleanScenario(item.scenarios[i]).entry
<1> DEFINE s == CleanScenario(item.scenarios[i])
<1>1. s = [direction |-> s.direction, entry |-> s.entry, type |-> s.type, tp |-> s.tp,
           sl |-> s.sl, kind |-> s.kind, timeframe |-> s.timeframe]
  BY DEF CleanScenario
<1> HIDE DEF s
<1> QED
  BY <1>1 DEF Cleaned, WithTimeframe, s

CleanedOf(item) == [j \in 1 .. Len(item.scenarios) |-> Cleaned(item, j)]

\* An item keeps the scenarios with an entry, in their order.
LEMMA CleanItemIs ==
    ASSUME NEW item \in RawItem
    PROVE  /\ CleanItem(item).symbol = item.symbol
           /\ Selects(CleanItem(item).scenarios, Source(Entries(item)),
                      CleanedOf(item), Entries(item))
<1> DEFINE n == Len(item.scenarios)
           clean == CleanedOf(item)
           D == {i \in 1 .. Len(clean) : clean[i].entry # NoText}
<1>1. n \in Nat
  BY DEF RawItem
<1>2. CleanItem(item).scenarios = Pick(clean, D) /\ CleanItem(item).symbol = item.symbol
  BY DEF CleanItem, CleanedOf, Cleaned
<1>3. Len(clean) = n /\ \A i \in 1 .. n : clean[i] = Cleaned(item, i)
  BY <1>1 DEF CleanedOf
<1> HIDE DEF clean
<1>4. \A i \in 1 .. n : clean[i].entry = CleanScenario(item.scenarios[i]).entry
  BY <1>3, CleanedKeepsEntry
<1>5. D = Entries(item) /\ Entries(item) \in SUBSET (1 .. n)
  BY <1>3, <1>4 DEF Entries
<1>6. Selects(Pick(clean, D), Source(D), clean, D)
  <2> HIDE DEF D, n
  <2> QED
    BY <1>1, <1>5, PickIs
<1> HIDE DEF D
<1> QED
  BY <1>2, <1>5, <1>6 DEF clean

\* The items that reach final-store.
Kept(raw) == OfTracked(CleanItems(raw))

\* They are the items of tracked coins with a scenario left, in the order of the reply.
LEMMA KeptIs ==
    ASSUME NEW raw \in Seq(RawItem)
    PROVE  /\ Len(Kept(raw)) \in Nat
           /\ \E a : /\ \A k \in 1 .. Len(Kept(raw)) :
                            a[k] \in 1 .. Len(raw) /\ Kept(raw)[k] = CleanItem(raw[a[k]])
                     /\ \A i \in 1 .. Len(raw) :
                            CleanItem(raw[i]).scenarios # <<>> /\ Upper(raw[i].symbol) \in Tracked
                                => \E k \in 1 .. Len(Kept(raw)) : a[k] = i
                     /\ \A j, k \in 1 .. Len(Kept(raw)) : j < k <=> a[j] < a[k]
<1> DEFINE n == Len(raw)
           clean == [i \in 1 .. n |-> CleanItem(raw[i])]
           D == {i \in 1 .. Len(clean) : clean[i].scenarios # <<>>}
           C == Pick(clean, D)
           E == {i \in 1 .. Len(C) : Upper(C[i].symbol) \in Tracked}
           T == Pick(C, E)
           c == Source(D)
           t == Source(E)
           a == [k \in 1 .. Len(T) |-> c[t[k]]]
<1>1. n \in Nat /\ \A i \in 1 .. n : raw[i] \in RawItem
  OBVIOUS
<1>2. C = CleanItems(raw) /\ T = Kept(raw)
  BY DEF CleanItems, Kept, OfTracked
<1>3. Len(clean) = n /\ \A i \in 1 .. n : clean[i] = CleanItem(raw[i])
  BY <1>1
<1> HIDE DEF clean
<1>4. D \in SUBSET (1 .. n) /\ \A i \in 1 .. n : i \in D <=> CleanItem(raw[i]).scenarios # <<>>
  BY <1>3
<1> HIDE DEF D
<1>5. Selects(C, c, clean, D)
  <2> HIDE DEF n
  <2> QED
    BY <1>1, <1>4, PickIs
<1> HIDE DEF C, c
<1>6. /\ Len(C) \in Nat
      /\ \A k \in 1 .. Len(C) : c[k] \in D /\ C[k] = clean[c[k]]
      /\ \A i \in D : \E k \in 1 .. Len(C) : c[k] = i
      /\ \A j, k \in 1 .. Len(C) : j < k <=> c[j] < c[k]
  BY <1>5 DEF Selects
<1>7. E \in SUBSET (1 .. Len(C)) /\ \A i \in 1 .. Len(C) : i \in E <=> Upper(C[i].symbol) \in Tracked
  OBVIOUS
<1> HIDE DEF E
<1>8. Selects(T, t, C, E)
  BY <1>6, <1>7, PickIs
<1> HIDE DEF T, t
<1>9. /\ Len(T) \in Nat
      /\ \A k \in 1 .. Len(T) : t[k] \in E /\ T[k] = C[t[k]]
      /\ \A i \in E : \E k \in 1 .. Len(T) : t[k] = i
      /\ \A j, k \in 1 .. Len(T) : j < k <=> t[j] < t[k]
  BY <1>8 DEF Selects
<1>10. \A k \in 1 .. Len(T) : a[k] \in 1 .. n /\ T[k] = CleanItem(raw[a[k]])
  <2> SUFFICES ASSUME NEW k \in 1 .. Len(T)
               PROVE  a[k] \in 1 .. n /\ T[k] = CleanItem(raw[a[k]])
    OBVIOUS
  <2>1. t[k] \in 1 .. Len(C) /\ T[k] = C[t[k]]
    BY <1>7, <1>9
  <2>2. a[k] = c[t[k]]
    OBVIOUS
  <2>3. c[t[k]] \in D /\ C[t[k]] = clean[c[t[k]]]
    BY <1>6, <2>1
  <2>4. c[t[k]] \in 1 .. n
    BY <1>4, <2>3
  <2>5. clean[c[t[k]]] = CleanItem(raw[c[t[k]]])
    BY <1>3, <2>4
  <2> QED
    BY <2>1, <2>2, <2>3, <2>4, <2>5
<1>11. ASSUME NEW i \in 1 .. n, CleanItem(raw[i]).scenarios # <<>>, Upper(raw[i].symbol) \in Tracked
      PROVE  \E k \in 1 .. Len(T) : a[k] = i
  <2>1. PICK j \in 1 .. Len(C) : c[j] = i
    BY <1>4, <1>6, <1>11
  <2>2. C[j] = CleanItem(raw[i])
    BY <1>3, <1>6, <2>1
  <2>3. C[j].symbol = raw[i].symbol
    BY <1>1, <2>2, CleanItemIs
  <2>4. j \in E
    BY <1>7, <1>11, <2>3
  <2>5. PICK k \in 1 .. Len(T) : t[k] = j
    BY <1>9, <2>4
  <2> QED
    BY <2>1, <2>5
<1>12. \A j, k \in 1 .. Len(T) : j < k <=> a[j] < a[k]
  <2> SUFFICES ASSUME NEW j \in 1 .. Len(T), NEW k \in 1 .. Len(T)
               PROVE  j < k <=> a[j] < a[k]
    OBVIOUS
  <2>1. t[j] \in 1 .. Len(C) /\ t[k] \in 1 .. Len(C)
    BY <1>7, <1>9
  <2>2. t[j] < t[k] <=> c[t[j]] < c[t[k]]
    BY <1>6, <2>1
  <2> QED
    BY <1>9, <2>2
<1> HIDE DEF a
<1> QED
  BY <1>2, <1>9, <1>10, <1>11, <1>12

-----------------------------------------------------------------------------
(* The rows of a symbol and the scenarios of the analysis *)

LEMMA PlacesAre ==
    ASSUME NEW list, NEW x
    PROVE  x \in Places(list) <=>
             /\ x = <<x[1], x[2]>>
             /\ x[1] \in 1 .. Len(list) /\ x[2] \in 1 .. Len(list[x[1]].scenarios)
<1>1. ASSUME x \in Places(list)
      PROVE  /\ x = <<x[1], x[2]>>
             /\ x[1] \in 1 .. Len(list) /\ x[2] \in 1 .. Len(list[x[1]].scenarios)
  <2>1. PICK i \in 1 .. Len(list) : x \in {i} \X (1 .. Len(list[i].scenarios))
    BY <1>1 DEF Places
  <2> QED
    BY <2>1
<1>2. ASSUME x = <<x[1], x[2]>>,
             x[1] \in 1 .. Len(list), x[2] \in 1 .. Len(list[x[1]].scenarios)
      PROVE  x \in Places(list)
  <2> DEFINE i == x[1]
  <2>1. x \in {i} \X (1 .. Len(list[i].scenarios))
    BY <1>2
  <2> QED
    BY <1>2, <2>1 DEF Places
<1> QED
  BY <1>1, <1>2

\* An entry that is usable before it was cleaned is usable after, and the other way round.
LEMMA EntryStays ==
    ASSUME NEW item, NEW j
    PROVE  /\ HasValidEntry(item.scenarios[j]) => CleanScenario(item.scenarios[j]).entry # NoText
           /\ CleanScenario(item.scenarios[j]).entry # NoText =>
                (HasValidEntry(Cleaned(item, j)) <=> HasValidEntry(item.scenarios[j]))
<1> DEFINE s == item.scenarios[j]
<1>1. CleanScenario(s).entry = IF s.entry.form \in {"none", "junk"} THEN NoText ELSE s.entry
  BY DEF CleanScenario
<1>2. HasValidEntry(s) => s.entry.form \in {"now", "plain", "separated"}
  BY DEF HasValidEntry, IsNumber
<1>3. \A e : e = NoText => e.form = "none"
  BY DEF NoText
<1>4. Cleaned(item, j).entry = CleanScenario(s).entry
  BY CleanedKeepsEntry
<1> QED
  BY <1>1, <1>2, <1>3, <1>4 DEF HasValidEntry

\* The usable scenarios of a coin are the same before and behind gateway and filter, and
\* are read in the same order.
LEMMA Corresponds ==
    ASSUME NEW raw \in Seq(RawItem), NEW symbol \in Tracked
    PROVE  \E f \in Bijection(UsableOf(Kept(raw), symbol), UsableOf(raw, symbol)) :
             /\ \A x, y \in UsableOf(Kept(raw), symbol) :
                    <<x, y>> \in Reading(UsableOf(Kept(raw), symbol))
                        <=> <<f[x], f[y]>> \in Reading(UsableOf(raw, symbol))
             /\ \A x \in UsableOf(Kept(raw), symbol) :
                    ScenarioAt(Kept(raw), x) = Cleaned(raw[f[x][1]], f[x][2])
<1> DEFINE T == Kept(raw)  U == UsableOf(T, symbol)  A == UsableOf(raw, symbol)
           n == Len(raw)  m == Len(T)
           from(i) == Source(Entries(raw[i]))
           kept(i) == CleanItem(raw[i]).scenarios
<1>0. n \in Nat /\ \A i \in 1 .. n : raw[i] \in RawItem
  OBVIOUS
<1>1. PICK a :
        /\ \A k \in 1 .. m : a[k] \in 1 .. n /\ T[k] = CleanItem(raw[a[k]])
        /\ \A i \in 1 .. n : kept(i) # <<>> /\ Upper(raw[i].symbol) \in Tracked
                => \E k \in 1 .. m : a[k] = i
        /\ \A j, k \in 1 .. m : j < k <=> a[j] < a[k]
  BY KeptIs
<1>2. m \in Nat
  BY KeptIs
<1> DEFINE f == [x \in U |-> <<a[x[1]], from(a[x[1]])[x[2]]>>]
<1>3. ASSUME NEW i \in 1 .. n
      PROVE  /\ CleanItem(raw[i]).symbol = raw[i].symbol
             /\ Selects(kept(i), from(i), CleanedOf(raw[i]), Entries(raw[i]))
             /\ Entries(raw[i]) \subseteq 1 .. Len(raw[i].scenarios)
             /\ Len(raw[i].scenarios) \in Nat
             /\ \A j \in 1 .. Len(raw[i].scenarios) : CleanedOf(raw[i])[j] = Cleaned(raw[i], j)
  <2> DEFINE item == raw[i]
  <2>1. item \in RawItem
    BY <1>0
  <2> HIDE DEF item
  <2>2. /\ CleanItem(item).symbol = item.symbol
        /\ Selects(CleanItem(item).scenarios, Source(Entries(item)),
                   CleanedOf(item), Entries(item))
    BY <2>1, CleanItemIs
  <2>3. Len(item.scenarios) \in Nat
    BY <2>1 DEF RawItem
  <2>4. /\ Entries(item) \subseteq 1 .. Len(item.scenarios)
        /\ \A j \in 1 .. Len(item.scenarios) : CleanedOf(item)[j] = Cleaned(item, j)
    BY DEF Entries, CleanedOf
  <2> QED
    BY <2>2, <2>3, <2>4 DEF item
<1>4. \A x \in U : /\ x = <<x[1], x[2]>> /\ x[1] \in 1 .. m /\ x[2] \in 1 .. Len(T[x[1]].scenarios)
                   /\ Upper(T[x[1]].symbol) = symbol /\ HasValidEntry(ScenarioAt(T, x))
  BY PlacesAre DEF UsableOf
<1>5. \A x \in A : /\ x = <<x[1], x[2]>> /\ x[1] \in 1 .. n /\ x[2] \in 1 .. Len(raw[x[1]].scenarios)
                   /\ Upper(raw[x[1]].symbol) = symbol /\ HasValidEntry(ScenarioAt(raw, x))
  BY PlacesAre DEF UsableOf
<1> HIDE DEF T, U, A, n, m, from, kept
<1>6. ASSUME NEW x \in U
      PROVE  /\ f[x] \in A /\ f[x][1] = a[x[1]] /\ f[x][2] = from(a[x[1]])[x[2]]
             /\ x[2] \in 1 .. Len(kept(a[x[1]]))
             /\ ScenarioAt(T, x) = Cleaned(raw[f[x][1]], f[x][2])
  <2> DEFINE i == a[x[1]]  j == from(i)[x[2]]
  <2>1. i \in 1 .. n /\ T[x[1]] = CleanItem(raw[i]) /\ T[x[1]].scenarios = kept(i)
    BY <1>1, <1>4 DEF kept
  <2>2. x[2] \in 1 .. Len(kept(i))
    BY <1>4, <2>1
  <2>3. f[x] = <<i, j>>
    OBVIOUS
  <2> HIDE DEF i, j, f
  <2>4. j \in Entries(raw[i]) /\ kept(i)[x[2]] = CleanedOf(raw[i])[j]
    BY <1>3, <2>1, <2>2 DEF Selects, j
  <2>5. j \in 1 .. Len(raw[i].scenarios) /\ kept(i)[x[2]] = Cleaned(raw[i], j)
    BY <1>3, <2>1, <2>4
  <2>6. ScenarioAt(T, x) = Cleaned(raw[i], j)
    BY <2>1, <2>5 DEF ScenarioAt
  <2>7. HasValidEntry(raw[i].scenarios[j])
    BY <1>4, <2>4, <2>6, EntryStays DEF Entries
  <2>8. Upper(raw[i].symbol) = symbol
    BY <1>3, <1>4, <2>1
  <2>9. <<i, j>> \in A
    <3> DEFINE y == <<i, j>>
    <3>1. y[1] = i /\ y[2] = j /\ y = <<y[1], y[2]>>
      OBVIOUS
    <3> HIDE DEF y
    <3>2. y \in Places(raw)
      BY <2>1, <2>5, <3>1, PlacesAre DEF n
    <3> QED
      BY <2>7, <2>8, <3>1, <3>2 DEF A, UsableOf, ScenarioAt, y
  <2> QED
    BY <2>2, <2>3, <2>6, <2>9 DEF i, j
<1>7. ASSUME NEW y \in A PROVE \E x \in U : f[x] = y
  <2> DEFINE i == y[1]  j == y[2]
  <2>1. /\ y = <<i, j>> /\ i \in 1 .. n /\ j \in 1 .. Len(raw[i].scenarios)
        /\ Upper(raw[i].symbol) = symbol /\ HasValidEntry(raw[i].scenarios[j])
    BY <1>5 DEF ScenarioAt
  <2> HIDE DEF i, j
  <2>2. j \in Entries(raw[i])
    BY <2>1, EntryStays DEF Entries
  <2>3. PICK q \in 1 .. Len(kept(i)) : from(i)[q] = j
    BY <1>3, <2>1, <2>2 DEF Selects
  <2>4. Len(kept(i)) \in Nat /\ kept(i)[q] = Cleaned(raw[i], j)
    BY <1>3, <2>1, <2>3 DEF Selects
  <2>5. kept(i) # <<>>
    BY <2>3, <2>4
  <2>6. PICK k \in 1 .. m : a[k] = i
    BY <1>1, <2>1, <2>5
  <2>7. T[k] = CleanItem(raw[i]) /\ T[k].scenarios = kept(i)
    BY <1>1, <2>6 DEF kept
  <2> DEFINE x == <<k, q>>
  <2>8. x[1] = k /\ x[2] = q /\ x = <<x[1], x[2]>>
    OBVIOUS
  <2> HIDE DEF x
  <2>9. x \in Places(T)
    BY <2>3, <2>6, <2>7, <2>8, PlacesAre DEF m
  <2>10. ScenarioAt(T, x) = Cleaned(raw[i], j)
    BY <2>4, <2>7, <2>8 DEF ScenarioAt
  <2>11. HasValidEntry(Cleaned(raw[i], j))
    BY <2>1, EntryStays
  <2>12. T[x[1]].symbol = raw[i].symbol
    BY <1>3, <2>1, <2>7, <2>8
  <2>13. HasValidEntry(ScenarioAt(T, x)) /\ Upper(T[x[1]].symbol) = symbol
    BY <2>1, <2>10, <2>11, <2>12
  <2>14. x \in U
    BY <2>9, <2>13 DEF U, UsableOf
  <2> QED
    BY <2>1, <2>3, <2>6, <2>8, <2>14
<1>8. ASSUME NEW x \in U, NEW y \in U
      PROVE  <<x, y>> \in Reading(U) <=> <<f[x], f[y]>> \in Reading(A)
  <2>1. /\ f[x] \in A /\ f[x][1] = a[x[1]] /\ f[x][2] = from(a[x[1]])[x[2]]
        /\ f[y] \in A /\ f[y][1] = a[y[1]] /\ f[y][2] = from(a[y[1]])[y[2]]
        /\ x[2] \in 1 .. Len(kept(a[x[1]])) /\ y[2] \in 1 .. Len(kept(a[y[1]]))
    BY <1>6
  <2> HIDE DEF f
  <2>2. <<x, y>> \in Reading(U) <=> x[1] < y[1] \/ (x[1] = y[1] /\ x[2] < y[2])
    BY DEF Reading
  <2>3. <<f[x], f[y]>> \in Reading(A)
            <=> f[x][1] < f[y][1] \/ (f[x][1] = f[y][1] /\ f[x][2] < f[y][2])
    BY <2>1 DEF Reading
  <2>4. x[1] \in 1 .. m /\ y[1] \in 1 .. m
    BY <1>4
  <2>5. /\ x[1] < y[1] <=> a[x[1]] < a[y[1]]
        /\ y[1] < x[1] <=> a[y[1]] < a[x[1]]
        /\ a[x[1]] \in 1 .. n /\ a[y[1]] \in 1 .. n
    BY <1>1, <2>4
  <2>6. x[1] = y[1] <=> a[x[1]] = a[y[1]]
    BY <1>0, <1>2, <2>4, <2>5
  <2>7. x[1] = y[1] => (x[2] < y[2] <=> f[x][2] < f[y][2])
    BY <1>3, <2>1, <2>5 DEF Selects
  <2> QED
    BY <2>1, <2>2, <2>3, <2>5, <2>6, <2>7
<1>9. ASSUME NEW x \in U, NEW y \in U, f[x] = f[y] PROVE x = y
  <2>1. x[1] \in 1 .. m /\ y[1] \in 1 .. m /\ x = <<x[1], x[2]>> /\ y = <<y[1], y[2]>>
    BY <1>4
  <2>2. a[x[1]] = a[y[1]] /\ from(a[x[1]])[x[2]] = from(a[y[1]])[y[2]]
    BY <1>6, <1>9
  <2> HIDE DEF f
  <2>3. a[x[1]] \in 1 .. n /\ x[1] = y[1]
    BY <1>0, <1>1, <1>2, <2>1, <2>2
  <2>4. /\ x[2] \in 1 .. Len(kept(a[x[1]])) /\ y[2] \in 1 .. Len(kept(a[x[1]]))
        /\ Len(kept(a[x[1]])) \in Nat /\ Entries(raw[a[x[1]]]) \subseteq Int
        /\ from(a[x[1]])[x[2]] \in Int
    BY <1>3, <1>6, <2>3 DEF Selects
  <2>5. x[2] = y[2]
    BY <1>3, <2>2, <2>3, <2>4 DEF Selects
  <2> QED
    BY <2>1, <2>3, <2>5
<1>10. f \in Bijection(U, A)
  <2>1. f \in [U -> A]
    BY <1>6
  <2> HIDE DEF f
  <2> QED
    BY <1>7, <1>9, <2>1, Fun_IsBij
<1> HIDE DEF f
<1> QED
  BY <1>6, <1>8, <1>10 DEF T, U, A

LEMMA PlacesAreFinite ==
    ASSUME NEW list, Len(list) \in Nat,
           \A i \in 1 .. Len(list) : Len(list[i].scenarios) \in Nat
    PROVE  IsFiniteSet(Places(list))
<1> DEFINE n == Len(list)
           row(i) == {i} \X (1 .. Len(list[i].scenarios))
           S == {row(i) : i \in 1 .. n}
           f == [i \in 1 .. n |-> row(i)]
<1>1. IsFiniteSet(1 .. n)
  BY FS_Interval
<1>2. \A i \in 1 .. n : IsFiniteSet(row(i))
  <2> SUFFICES ASSUME NEW i \in 1 .. n PROVE IsFiniteSet(row(i))
    OBVIOUS
  <2> DEFINE q == Len(list[i].scenarios)
  <2>0. q \in Nat
    OBVIOUS
  <2>1. IsFiniteSet(1 .. q)
    <3> HIDE DEF q
    <3> QED
      BY <2>0, FS_Interval
  <2>2. IsFiniteSet({i})
    BY FS_Singleton
  <2> QED
    BY <2>1, <2>2, FS_Product
<1>3. IsFiniteSet(S)
  <2>1. f \in [1 .. n -> S] /\ \A t \in S : \E i \in 1 .. n : f[i] = t
    OBVIOUS
  <2> HIDE DEF S, f, n
  <2>2. f \in Surjection(1 .. n, S)
    BY <2>1, Fun_IsSurj
  <2> QED
    BY <1>1, <2>2, FS_Surjection
<1>4. \A t \in S : IsFiniteSet(t)
  BY <1>2
<1>5. IsFiniteSet(UNION S)
  <2> HIDE DEF S
  <2> QED
    BY <1>3, <1>4, FS_UNION
<1> QED
  BY <1>5 DEF Places

LEMMA ReadingOrders ==
    ASSUME NEW S, \A x \in S : x = <<x[1], x[2]>> /\ x[1] \in Nat /\ x[2] \in Nat
    PROVE  Orders(Reading(S), S)
<1>1. \A x, y \in S : <<x, y>> \in Reading(S)
                        <=> x[1] < y[1] \/ (x[1] = y[1] /\ x[2] < y[2])
  BY DEF Reading
<1>2. \A x \in S : <<x, x>> \notin Reading(S)
  BY <1>1
<1>3. \A x, y, z \in S : <<x, y>> \in Reading(S) /\ <<y, z>> \in Reading(S)
                            => <<x, z>> \in Reading(S)
  BY <1>1
<1>4. ASSUME NEW x \in S, NEW y \in S, x # y
      PROVE  <<x, y>> \in Reading(S) \/ <<y, x>> \in Reading(S)
  <2>1. x[1] # y[1] \/ x[2] # y[2]
    BY <1>4
  <2> QED
    BY <1>1, <2>1
<1> QED
  BY <1>2, <1>3, <1>4 DEF Orders

LEMMA KeptIsTyped ==
    ASSUME NEW raw \in Seq(RawItem)
    PROVE  /\ Len(Kept(raw)) \in Nat
           /\ \A i \in 1 .. Len(Kept(raw)) : Len(Kept(raw)[i].scenarios) \in Nat
<1>1. PICK a : \A k \in 1 .. Len(Kept(raw)) :
                    a[k] \in 1 .. Len(raw) /\ Kept(raw)[k] = CleanItem(raw[a[k]])
  BY KeptIs
<1>2. \A item \in RawItem : Len(CleanItem(item).scenarios) \in Nat
  BY CleanItemIs DEF Selects
<1>3. \A i \in 1 .. Len(raw) : raw[i] \in RawItem
  OBVIOUS
<1> QED
  BY <1>1, <1>2, <1>3, KeptIs

\* The row number k of a symbol is made of the scenario that is number k in the analysis.
LEMMA RowsComeFrom ==
    ASSUME NEW raw \in Seq(RawItem), NEW symbol \in Tracked
    PROVE  LET A == UsableOf(raw, symbol)  out == RowsOf(Kept(raw), symbol) IN
           /\ IsFiniteSet(A)
           /\ UsableOf(Kept(raw), symbol) = {} <=> A = {}
           /\ Len(out) = Cardinality(A)
           /\ \A y \in A : /\ Place(A, Reading(A), y) + 1 \in 1 .. Len(out)
                           /\ \E expire : out[Place(A, Reading(A), y) + 1] =
                                  NormalizeScenario(Cleaned(raw[y[1]], y[2]), expire)
           /\ \A k \in 1 .. Len(out) : \E y \in A : \E expire :
                  out[k] = NormalizeScenario(Cleaned(raw[y[1]], y[2]), expire)
<1> DEFINE T == Kept(raw)  U == UsableOf(T, symbol)  A == UsableOf(raw, symbol)
           n == Cardinality(U)  at == Arrange(U, Reading(U))  out == RowsOf(T, symbol)
<1>1. PICK f \in Bijection(U, A) :
        /\ \A x, y \in U : <<x, y>> \in Reading(U) <=> <<f[x], f[y]>> \in Reading(A)
        /\ \A x \in U : ScenarioAt(T, x) = Cleaned(raw[f[x][1]], f[x][2])
  BY Corresponds
<1>2. Len(T) \in Nat /\ \A i \in 1 .. Len(T) : Len(T[i].scenarios) \in Nat
  BY KeptIsTyped
<1>3. IsFiniteSet(U)
  <2>1. IsFiniteSet(Places(T)) /\ U \subseteq Places(T)
    BY <1>2, PlacesAreFinite DEF UsableOf
  <2> QED
    BY <2>1, FS_Subset
<1>4. Orders(Reading(U), U)
  <2>1. \A x \in U : x = <<x[1], x[2]>> /\ x[1] \in Nat /\ x[2] \in Nat
    BY <1>2, PlacesAre DEF UsableOf
  <2> QED
    BY <2>1, ReadingOrders
<1> DEFINE make(x) == NormalizeScenario(ScenarioAt(T, x), T[x[1]].expire)
<1>5. out = [k \in 1 .. n |-> make(at[k])]
  BY DEF RowsOf
<1> HIDE DEF T, U, A, n, at, out, make
<1>6. /\ n \in Nat /\ at \in Bijection(1 .. n, U)
      /\ \A k \in 1 .. n : Place(U, Reading(U), at[k]) = k - 1
  BY <1>3, <1>4, Arranged DEF n, at
<1>7. at \in [1 .. n -> U] /\ \A x \in U : \E k \in 1 .. n : at[k] = x
  BY <1>6, Fun_BijectionProperties
<1>8. f \in [U -> A] /\ \A y \in A : \E x \in U : f[x] = y
  BY Fun_BijectionProperties
<1>9. /\ Cardinality(A) = n /\ IsFiniteSet(A)
      /\ \A x \in U : Place(A, Reading(A), f[x]) = Place(U, Reading(U), x)
  <2>1. Cardinality(A) = n /\ \A x \in U : Place(A, Reading(A), f[x]) = Place(U, Reading(U), x)
    <3> DEFINE Q == Reading(U)  R == Reading(A)
    <3>1. Keeps(f, U, Q, A, R)
      BY <1>1 DEF Keeps
    <3> HIDE DEF Q, R
    <3>2. Cardinality(A) = Cardinality(U) /\ \A x \in U : Place(A, R, f[x]) = Place(U, Q, x)
      BY <1>3, <3>1, PlaceMoves
    <3> QED
      BY <3>2 DEF Q, R, n
  <2> QED
    BY <1>3, <2>1, FS_Bijection DEF ExistsBijection
<1>10. Len(out) = n
  BY <1>5, <1>6
<1>11. ASSUME NEW k \in 1 .. n
       PROVE  /\ f[at[k]] \in A /\ Place(A, Reading(A), f[at[k]]) = k - 1
              /\ \E expire : out[k] =
                    NormalizeScenario(Cleaned(raw[f[at[k]][1]], f[at[k]][2]), expire)
  <2>1. at[k] \in U /\ f[at[k]] \in A
    BY <1>7, <1>8
  <2>2. out[k] = make(at[k])
    BY <1>5
  <2>3. ScenarioAt(T, at[k]) = Cleaned(raw[f[at[k]][1]], f[at[k]][2])
    BY <1>1, <2>1
  <2>4. out[k] = NormalizeScenario(Cleaned(raw[f[at[k]][1]], f[at[k]][2]), T[at[k][1]].expire)
    BY <2>2, <2>3 DEF make
  <2> QED
    BY <1>6, <1>9, <2>1, <2>4
<1>12. ASSUME NEW y \in A
       PROVE  /\ Place(A, Reading(A), y) + 1 \in 1 .. n
              /\ \E expire : out[Place(A, Reading(A), y) + 1] =
                    NormalizeScenario(Cleaned(raw[y[1]], y[2]), expire)
  <2>1. PICK k \in 1 .. n : f[at[k]] = y
    BY <1>7, <1>8
  <2>2. Place(A, Reading(A), y) = k - 1
    BY <1>11, <2>1
  <2>3. Place(A, Reading(A), y) + 1 = k
    BY <1>6, <2>2
  <2> QED
    BY <1>11, <2>1, <2>3
<1>13. U = {} <=> A = {}
  BY <1>8
<1>14. \A k \in 1 .. n : \E y \in A : \E expire :
            out[k] = NormalizeScenario(Cleaned(raw[y[1]], y[2]), expire)
  BY <1>11
<1> QED
  BY <1>9, <1>10, <1>12, <1>13, <1>14 DEF A, U, T, out

-----------------------------------------------------------------------------
(* What a row says *)

\* Values that are drawn once each still are after a selection by value.
LEMMA DrawsPick ==
    ASSUME NEW list, NEW W, NEW val, Draws(list, W, val), NEW V
    PROVE  Draws(Pick(list, {i \in 1 .. Len(list) : list[i] \in V}),
                 {w \in W : val[w] \in V}, val)
<1> DEFINE n == Len(list)  D == {i \in 1 .. n : list[i] \in V}
           X == {w \in W : val[w] \in V}
           out == Pick(list, D)  from == Source(D)  m == Len(out)
<1>1. PICK g \in Bijection(1 .. n, W) : \A k \in 1 .. n : list[k] = val[g[k]]
  BY DEF Draws
<1>2. n \in Nat /\ D \in SUBSET (1 .. n)
  BY DEF Draws
<1> DEFINE h == [k \in 1 .. m |-> g[from[k]]]
<1>3. \A i \in 1 .. n : i \in D <=> list[i] \in V
  OBVIOUS
<1>4. \A w : w \in X <=> w \in W /\ val[w] \in V
  OBVIOUS
<1> HIDE DEF n, D, X
<1>5. Selects(out, from, list, D)
  BY <1>2, PickIs
<1>6. /\ g \in [1 .. n -> W]
      /\ \A i, j \in 1 .. n : g[i] = g[j] => i = j
      /\ \A w \in W : \E i \in 1 .. n : g[i] = w
  <2> DEFINE N == 1 .. n
  <2>1. g \in Bijection(N, W)
    OBVIOUS
  <2> HIDE DEF N
  <2>2. /\ g \in [N -> W]
        /\ \A i, j \in N : g[i] = g[j] => i = j
        /\ \A w \in W : \E i \in N : g[i] = w
    BY <2>1, Fun_BijectionProperties
  <2> QED
    BY <2>2 DEF N
<1> HIDE DEF out, from
<1>7. m \in Nat /\ \A k \in 1 .. m : from[k] \in D /\ from[k] \in 1 .. n /\ out[k] = list[from[k]]
  BY <1>2, <1>5 DEF Selects
<1>8. ASSUME NEW k \in 1 .. m PROVE h[k] \in X /\ out[k] = val[h[k]]
  <2>1. h[k] = g[from[k]] /\ from[k] \in 1 .. n
    BY <1>7
  <2>2. list[from[k]] = val[g[from[k]]] /\ list[from[k]] \in V
    BY <1>1, <1>3, <1>7
  <2> QED
    BY <1>4, <1>6, <1>7, <2>1, <2>2
<1>9. ASSUME NEW j \in 1 .. m, NEW k \in 1 .. m, h[j] = h[k] PROVE j = k
  <2>1. from[j] = from[k] /\ from[j] \in Int
    BY <1>2, <1>6, <1>7, <1>9
  <2> QED
    BY <1>5, <1>7, <2>1 DEF Selects
<1>10. ASSUME NEW w \in X PROVE \E k \in 1 .. m : h[k] = w
  <2>1. PICK i \in 1 .. n : g[i] = w
    BY <1>4, <1>6
  <2>2. i \in D
    BY <1>1, <1>3, <1>4, <2>1
  <2>3. PICK k \in 1 .. m : from[k] = i
    BY <1>5, <2>2 DEF Selects
  <2> QED
    BY <2>1, <2>3
<1>11. h \in Bijection(1 .. m, X)
  <2>1. h \in [1 .. m -> X]
    BY <1>8
  <2> HIDE DEF h, m
  <2> QED
    BY <1>9, <1>10, <2>1, Fun_IsBij
<1>12. Draws(out, X, val)
  <2> HIDE DEF h
  <2> QED
    BY <1>7, <1>8, <1>11 DEF Draws
<1> QED
  BY <1>12 DEF out, D, X, n

LEMMA TargetsAreDrawn ==
    ASSUME NEW tp \in Seq(Text)
    PROVE  /\ Draws(Pick(tp, {i \in 1 .. Len(tp) : tp[i].form # "none"}),
                    {i \in 1 .. Len(tp) : tp[i].form # "none"}, tp)
<1> DEFINE n == Len(tp)  D == 1 .. n  id == [k \in D |-> k]
           V == {t \in Text : t.form # "none"}
<1>1. n \in Nat /\ \A i \in D : tp[i] \in Text
  OBVIOUS
<1>2. id \in Bijection(D, D)
  <2>1. id \in [D -> D] /\ (\A i, j \in D : id[i] = id[j] => i = j) /\ \A i \in D : \E j \in D : id[j] = i
    OBVIOUS
  <2> HIDE DEF id, D
  <2> QED
    BY <2>1, Fun_IsBij
<1>3. \A k \in D : tp[k] = tp[id[k]]
  OBVIOUS
<1>4. Draws(tp, D, tp)
  <2> HIDE DEF id
  <2> QED
    BY <1>1, <1>2, <1>3 DEF Draws
<1>5. {i \in D : tp[i] \in V} = {i \in D : tp[i].form # "none"}
  BY <1>1
<1> HIDE DEF V, D
<1>6. Draws(Pick(tp, {i \in 1 .. n : tp[i] \in V}), {i \in D : tp[i] \in V}, tp)
  BY <1>4, DrawsPick
<1> QED
  BY <1>5, <1>6 DEF D

LEMMA PricesAreDrawn ==
    ASSUME NEW tp, NEW W, W \subseteq Nat, NEW val, Draws(tp, W, val)
    PROVE  Draws([k \in 1 .. Len(tp) |-> ToFloat(tp[k])], W, [w \in W |-> ToFloat(val[w])])
<1> DEFINE n == Len(tp)  out == [k \in 1 .. n |-> ToFloat(tp[k])]
           price == [w \in W |-> ToFloat(val[w])]
<1>1. PICK g \in Bijection(1 .. n, W) : \A k \in 1 .. n : tp[k] = val[g[k]]
  BY DEF Draws
<1>2. n \in Nat
  BY DEF Draws
<1>3. Len(out) = n
  BY <1>2
<1>4. \A k \in 1 .. n : g[k] \in W
  <2> DEFINE N == 1 .. n
  <2>1. g \in Bijection(N, W)
    OBVIOUS
  <2> HIDE DEF N
  <2>2. g \in [N -> W]
    BY <2>1, Fun_BijectionProperties
  <2> QED
    BY <2>2 DEF N
<1>5. \A k \in 1 .. n : out[k] = price[g[k]]
  BY <1>1, <1>4
<1> HIDE DEF out, price, n
<1>6. Draws(out, W, price)
  BY <1>2, <1>3, <1>5 DEF Draws
<1> QED
  BY <1>6 DEF out, price, n

LEMMA DrawsAgain ==
    ASSUME NEW list, NEW W, NEW val, Draws(list, W, val),
           NEW out, Draws(out, 1 .. Len(list), list), Len(out) = Len(list)
    PROVE  Draws(out, W, val)
<1> DEFINE N == 1 .. Len(list)
<1>1. PICK g \in Bijection(N, W) : \A k \in N : list[k] = val[g[k]]
  BY DEF Draws
<1>2. PICK f \in Bijection(N, N) : \A k \in N : out[k] = list[f[k]]
  BY DEF Draws
<1> DEFINE h == [k \in N |-> g[f[k]]]
<1> HIDE DEF N
<1>3. h \in Bijection(N, W)
  BY Fun_BijTransitive
<1>4. f \in [N -> N]
  BY Fun_BijectionProperties
<1>5. \A k \in N : out[k] = val[h[k]]
  BY <1>1, <1>2, <1>4
<1> HIDE DEF h
<1> QED
  BY <1>3, <1>5 DEF Draws, N

Lists(out, W, val) ==
    /\ Len(out) = Cardinality(W)
    /\ {out[k] : k \in 1 .. Len(out)} = {val[w] : w \in W}

LEMMA DrawsLists ==
    ASSUME NEW out, NEW W, NEW val, Draws(out, W, val)
    PROVE  Lists(out, W, val)
<1> DEFINE n == Len(out)  N == 1 .. n
<1>1. PICK g \in Bijection(N, W) : \A k \in N : out[k] = val[g[k]]
  BY DEF Draws
<1>2. IsFiniteSet(N) /\ Cardinality(N) = n
  BY FS_Interval DEF Draws
<1> HIDE DEF N, n
<1>3. Cardinality(W) = Cardinality(N)
  BY <1>2, FS_Bijection DEF ExistsBijection
<1>4. g \in [N -> W] /\ \A w \in W : \E k \in N : g[k] = w
  BY Fun_BijectionProperties
<1>5. {out[k] : k \in N} = {val[w] : w \in W}
  BY <1>1, <1>4
<1> QED
  BY <1>2, <1>3, <1>5 DEF N, n, Lists

\* The targets of a row are those of the scenario that are positive plain numbers, and
\* profits if the entry is known.
Wanted(direction, entry, tp) ==
    {i \in 1 .. Len(tp) : /\ tp[i].form = "plain" /\ tp[i].num > 0
                          /\ entry # NullPrice => Profits(direction, entry, tp[i].num)}

RowTargets(direction, entry, tp) ==
    Ordered(direction, FixTargets(direction, entry,
        Targets(Pick(tp, {i \in 1 .. Len(tp) : tp[i].form # "none"}))))

LEMMA TargetsOfRow ==
    ASSUME NEW direction, NEW entry, NEW tp \in Seq(Text)
    PROVE  /\ RowTargets(direction, entry, tp) \in Seq(Nat \ {0})
           /\ Len(RowTargets(direction, entry, tp)) = Cardinality(Wanted(direction, entry, tp))
           /\ {RowTargets(direction, entry, tp)[k] : k \in 1 .. Len(RowTargets(direction, entry, tp))}
                = {tp[i].num : i \in Wanted(direction, entry, tp)}
<1> DEFINE n == Len(tp)
           A0 == {i \in 1 .. n : tp[i].form # "none"}
           clean == Pick(tp, A0)
           price == [k \in 1 .. Len(clean) |-> ToFloat(clean[k])]
           val == [i \in A0 |-> ToFloat(tp[i])]
           P == {p \in Int : p > 0}
           A1 == {i \in A0 : val[i] \in P}
           given == Targets(clean)
           V == {p \in Int : Profits(direction, entry, p)}
           A2 == {i \in A1 : val[i] \in V}
           targets == FixTargets(direction, entry, given)
           W == Wanted(direction, entry, tp)
           tps == Ordered(direction, targets)
<1>1. Draws(clean, A0, tp)
  BY TargetsAreDrawn
<1>2. A0 \subseteq Nat
  OBVIOUS
<1>3. Draws(price, A0, val)
  <2> HIDE DEF A0, clean
  <2> QED
    BY <1>1, <1>2, PricesAreDrawn
<1>4. \A i \in 1 .. n : tp[i] \in Text
  OBVIOUS
<1>5. clean \in Seq(Text)
  <2>1. n \in Nat /\ A0 \in SUBSET (1 .. n) /\ \A i \in A0 : tp[i] \in Text
    BY <1>4
  <2> HIDE DEF A0, n
  <2> QED
    BY <2>1, PickKeeps
<1>6. ArePrices(given) /\ ArePrices(targets)
  <2> HIDE DEF clean
  <2> QED
    BY <1>5, TargetsArePrices, FixTargetsArePrices
<1>7. Draws(given, A1, val)
  <2> DEFINE D == {i \in 1 .. Len(price) : price[i] > 0}
             E == {i \in 1 .. Len(price) : price[i] \in P}
  <2>1. given = Pick(price, D)
    BY DEF Targets
  <2>2. Len(clean) \in Nat /\ \A k \in 1 .. Len(clean) : ToFloat(clean[k]) \in Int
    <3> HIDE DEF clean
    <3>1. Len(clean) \in Nat /\ \A k \in 1 .. Len(clean) : clean[k] \in Text
      BY <1>5
    <3>2. \A t \in Text : ToFloat(t) \in Int
      BY DEF Text, ToFloat, NullPrice
    <3> QED
      BY <3>1, <3>2
  <2>3. Len(price) = Len(clean) /\ \A k \in 1 .. Len(price) : price[k] \in Int
    <3> HIDE DEF clean
    <3> QED
      BY <2>2
  <2> HIDE DEF price
  <2>4. D = E
    BY <2>3
  <2> HIDE DEF D, val, A0, given, P
  <2>5. Draws(Pick(price, E), {w \in A0 : val[w] \in P}, val)
    BY <1>3, DrawsPick DEF E
  <2> QED
    BY <2>1, <2>4, <2>5
<1>8. /\ \A i \in A0 : val[i] = ToFloat(tp[i])
      /\ \A i \in 1 .. n : tp[i].form \in Form /\ tp[i].num \in Int
  BY <1>4 DEF Text
<1>9. ASSUME entry = NullPrice PROVE Draws(targets, W, val)
  <2>1. targets = given
    BY <1>9 DEF FixTargets
  <2>2. W = A1
    <3> HIDE DEF val
    <3> QED
      BY <1>8, <1>9 DEF ToFloat, NullPrice, Wanted
  <2> HIDE DEF W, A1, targets, given, val
  <2> QED
    BY <1>7, <2>1, <2>2
<1>10. ASSUME entry # NullPrice PROVE Draws(targets, W, val)
  <2> DEFINE D == {i \in 1 .. Len(given) : Profits(direction, entry, given[i])}
             E == {i \in 1 .. Len(given) : given[i] \in V}
  <2>1. targets = Pick(given, D)
    BY <1>10 DEF FixTargets
  <2>2. D = E
    <3> HIDE DEF given
    <3> QED
      BY <1>6 DEF ArePrices
  <2>3. W = A2
    <3> HIDE DEF val
    <3> QED
      BY <1>8, <1>10 DEF ToFloat, NullPrice, Wanted
  <2> HIDE DEF W, D, V, A1, given, targets, val
  <2>4. Draws(Pick(given, E), A2, val)
    BY <1>7, DrawsPick DEF E
  <2> QED
    BY <2>1, <2>2, <2>3, <2>4
<1>11. Draws(targets, W, val)
  BY <1>9, <1>10
<1>12. {val[w] : w \in W} = {tp[i].num : i \in W}
  <2>1. \A i \in W : i \in A0 /\ ToFloat(tp[i]) = tp[i].num
    BY DEF Wanted, ToFloat
  <2> HIDE DEF W, val, A0
  <2> QED
    BY <1>8, <2>1
<1> HIDE DEF targets, val, W, tps
<1>13. tps \in Seq(Nat \ {0}) /\ Draws(tps, 1 .. Len(targets), targets) /\ Len(tps) = Len(targets)
  BY <1>6, OrderedIs DEF tps
<1>14. Draws(tps, W, val)
  BY <1>11, <1>13, DrawsAgain
<1>15. Lists(tps, W, val)
  BY <1>14, DrawsLists
<1>16. /\ Len(tps) = Cardinality(W)
       /\ {tps[k] : k \in 1 .. Len(tps)} = {val[w] : w \in W}
  BY <1>15 DEF Lists
<1>17. tps = RowTargets(direction, entry, tp)
  BY DEF tps, targets, RowTargets
<1> QED
  BY <1>12, <1>13, <1>16, <1>17 DEF W

\* The row of a usable scenario says what the scenario says.
LEMMA RowRenders ==
    ASSUME NEW item \in RawItem, NEW j \in 1 .. Len(item.scenarios),
           HasValidEntry(item.scenarios[j]), NEW expire
    PROVE  /\ Renders(NormalizeScenario(Cleaned(item, j), expire), item.scenarios[j])
           /\ Tradable(NormalizeScenario(Cleaned(item, j), expire))
<1> DEFINE s == item.scenarios[j]  c == CleanScenario(s)  t == Cleaned(item, j)
           direction == Side(c.direction)  entry == ToFloat(s.entry)
           r == NormalizeScenario(t, expire)
           picked == Pick(s.tp, {i \in 1 .. Len(s.tp) : s.tp[i].form # "none"})
<1>1. s \in RawScenario
  BY DEF RawItem
<1> HIDE DEF s
<1>2. /\ s.entry \in Text /\ s.sl \in Text /\ s.tp \in Seq(Text)
      /\ s.entry.form \in {"now", "plain", "separated"}
      /\ HasValidEntry(s)
  <2>1. HasValidEntry(s)
    BY DEF s
  <2> QED
    BY <1>1, <2>1 DEF RawScenario, HasValidEntry, IsNumber
<1>3. /\ c = [direction |-> OneOf(s.direction, Directions, "up"), entry |-> s.entry,
              type |-> OneOf(s.type, EntryTypes, "fix"), tp |-> picked, sl |-> s.sl,
              kind |-> OneOf(s.kind, PriceTypes, "fixnumber"),
              timeframe |-> OneOf(s.timeframe, Timeframes, "")]
  BY <1>2 DEF CleanScenario
<1> HIDE DEF picked
<1>4. t = WithTimeframe(item.symbol, c)
  BY DEF Cleaned, s
<1> HIDE DEF c, t
<1>5. /\ t.direction = c.direction /\ t.entry = s.entry /\ t.tp = picked /\ t.sl = s.sl
      /\ s.timeframe \in Timeframes => t.timeframe = s.timeframe
  <2>1. CASE c.timeframe # ""
    BY <1>3, <1>4, <2>1 DEF WithTimeframe, OneOf
  <2>2. CASE c.timeframe = ""
    BY <1>3, <1>4, <2>2 DEF WithTimeframe, OneOf, Timeframes
  <2> QED
    BY <2>1, <2>2
<1>6. /\ c.direction = OneOf(s.direction, Directions, "up")
      /\ direction = IF s.direction # "down" THEN "long" ELSE "short"
  BY <1>3 DEF OneOf, Directions, Side
<1>7. /\ r.direction = direction /\ r.entry = entry
      /\ r.tps = RowTargets(direction, entry, s.tp)
      /\ r.sl = FixStop(direction, entry, StopLoss(s.sl))
      /\ r.timeframe = StoredTimeframe(t.timeframe)
  BY <1>5 DEF NormalizeScenario, RowTargets, picked
<1>8. Tradable(r)
  <2>1. picked \in Seq(Text)
    <3> DEFINE n == Len(s.tp)  D == {i \in 1 .. n : s.tp[i].form # "none"}
    <3>1. n \in Nat /\ D \in SUBSET (1 .. n) /\ \A i \in D : s.tp[i] \in Text
      BY <1>2
    <3> HIDE DEF D, n
    <3>2. Pick(s.tp, D) \in Seq(Text)
      BY <3>1, PickKeeps
    <3> QED
      BY <3>2 DEF picked, D, n
  <2>2. HasValidEntry(t)
    BY <1>2, <1>5 DEF HasValidEntry
  <2> QED
    BY <1>2, <1>5, <2>1, <2>2, RowIsSound
<1> HIDE DEF r, direction, entry
<1>9. ToSet(r.tps) = {s.tp[i].num : i \in Wanted(direction, entry, s.tp)}
      /\ Len(r.tps) = Cardinality(Wanted(direction, entry, s.tp))
  <2> DEFINE out == RowTargets(direction, entry, s.tp)
  <2>1. /\ out \in Seq(Nat \ {0}) /\ Len(out) = Cardinality(Wanted(direction, entry, s.tp))
        /\ {out[k] : k \in 1 .. Len(out)} = {s.tp[i].num : i \in Wanted(direction, entry, s.tp)}
    BY <1>2, TargetsOfRow
  <2> HIDE DEF out
  <2>2. ToSet(out) = {out[k] : k \in 1 .. Len(out)}
    BY <2>1 DEF ToSet
  <2> QED
    BY <1>7, <2>1, <2>2 DEF out
<1>10. Wanted(direction, entry, s.tp) =
          {i \in {k \in 1 .. Len(s.tp) : s.tp[k].form = "plain" /\ s.tp[k].num > 0} :
              entry = NullPrice \/ (IF s.direction # "down" THEN s.tp[i].num > entry
                                                            ELSE s.tp[i].num < entry)}
  BY <1>6 DEF Wanted, Profits
<1>11. /\ s.sl = [form |-> s.sl.form, num |-> s.sl.num] /\ s.sl.num \in Int
       /\ entry \in Int
  BY <1>2 DEF Text, entry, ToFloat, NullPrice
<1>12. /\ r.sl \notin {NullPrice, NaNPrice} =>
            /\ s.sl = Plain(r.sl)
            /\ entry = NullPrice \/ (IF s.direction # "down" THEN r.sl < entry ELSE r.sl > entry)
       /\ s.sl.form = "plain" /\ s.sl.num > 0
            /\ (entry = NullPrice \/ (IF s.direction # "down" THEN s.sl.num < entry
                                                             ELSE s.sl.num > entry))
          => r.sl = s.sl.num
       /\ r.sl = NaNPrice => s.sl.form = "nan"
  <2>1. StopLoss(s.sl) = CASE s.sl.form = "nan" -> NaNPrice
                           [] s.sl.form = "plain" /\ s.sl.num > 0 -> s.sl.num
                           [] OTHER -> NullPrice
    BY DEF StopLoss, ToFloat, NullPrice
  <2>2. CASE s.sl.form = "plain" /\ s.sl.num > 0
    <3>1. /\ s.sl = Plain(s.sl.num) /\ StopLoss(s.sl) = s.sl.num
          /\ s.sl.num \notin {NullPrice, NaNPrice}
      BY <1>11, <2>1, <2>2 DEF Plain, NullPrice, NaNPrice
    <3>2. r.sl = IF entry # NullPrice /\ (s.sl.num = entry \/ Profits(direction, entry, s.sl.num))
                 THEN NullPrice ELSE s.sl.num
      BY <1>7, <3>1 DEF FixStop
    <3> QED
      BY <1>6, <1>11, <2>2, <3>1, <3>2 DEF Profits, NullPrice, NaNPrice
  <2>3. CASE s.sl.form # "plain" \/ ~(s.sl.num > 0)
    <3>1. StopLoss(s.sl) \in {NullPrice, NaNPrice}
      BY <2>1, <2>3
    <3>2. r.sl = StopLoss(s.sl)
      BY <1>7, <3>1 DEF FixStop
    <3> QED
      BY <2>1, <2>3, <3>1, <3>2 DEF NullPrice, NaNPrice
  <2> QED
    BY <2>2, <2>3
<1>13. s.timeframe \in Timeframes \ {"1M"} => r.timeframe = s.timeframe
  BY <1>5, <1>7 DEF StoredTimeframe
<1>14. entry = IF s.entry.form = "plain" THEN s.entry.num ELSE NullPrice
  BY DEF entry, ToFloat
<1> DEFINE aim(p) == entry = NullPrice \/ (IF s.direction = "up" THEN p > entry ELSE p < entry)
           risk(p) == entry = NullPrice \/ (IF s.direction = "up" THEN p < entry ELSE p > entry)
           numbers == {i \in 1 .. Len(s.tp) : IsNumber(s.tp[i]) /\ s.tp[i].num > 0}
           aimed == {i \in numbers : aim(s.tp[i].num)}
           plain == {i \in aimed : s.tp[i].form = "plain"}
<1>15. ToSet(r.tps) \subseteq {s.tp[i].num : i \in numbers}
  BY <1>9, <1>10 DEF IsNumber
<1>16. ASSUME s.direction \in Directions
       PROVE  /\ {s.tp[i].num : i \in plain} = ToSet(r.tps)
              /\ Len(r.tps) \in Cardinality(plain) .. Cardinality(aimed)
  <2>1. Wanted(direction, entry, s.tp) = plain
    BY <1>10, <1>16 DEF IsNumber, Directions
  <2>2. IsFiniteSet(aimed) /\ aimed \in SUBSET (1 .. Len(s.tp))
    <3>1. Len(s.tp) \in Nat
      BY <1>2
    <3>2. IsFiniteSet(1 .. Len(s.tp))
      BY <3>1, FS_Interval
    <3> QED
      BY <3>2, FS_Subset
  <2>3. plain \in SUBSET aimed
    OBVIOUS
  <2> HIDE DEF plain, aimed
  <2>4. /\ Cardinality(plain) \in Nat /\ Cardinality(aimed) \in Nat
        /\ Cardinality(plain) <= Cardinality(aimed)
    BY <2>2, <2>3, FS_Subset, FS_CardinalityType
  <2> QED
    BY <1>9, <2>1, <2>4
<1>17. s.direction \in Directions => ((r.direction = "long") = (s.direction = "up"))
  BY <1>6, <1>7 DEF Directions
<1>18. /\ r.sl \notin {NullPrice, NaNPrice} => s.sl = Plain(r.sl)
       /\ s.direction \in Directions =>
            /\ r.sl \notin {NullPrice, NaNPrice} => risk(r.sl)
            /\ s.sl.form = "plain" /\ s.sl.num > 0 /\ risk(s.sl.num) => r.sl = s.sl.num
  BY <1>12 DEF Directions
<1>19. {s.tp[i].num : i \in plain} \subseteq {s.tp[i].num : i \in aimed}
  OBVIOUS
<1>20. s.entry.form \in {"plain", "now"} => r.entry = entry
  BY <1>7
<1> DEFINE Left == \* what Renders says of a regular side and entry
             /\ ToSet(r.tps) \subseteq {s.tp[i].num : i \in aimed}
             /\ {s.tp[i].num : i \in plain} \subseteq ToSet(r.tps)
             /\ Len(r.tps) \in Cardinality(plain) .. Cardinality(aimed)
             /\ r.sl \notin {NullPrice, NaNPrice} => risk(r.sl)
             /\ s.sl.form = "plain" /\ s.sl.num > 0 /\ risk(s.sl.num) => r.sl = s.sl.num
<1>21. s.direction \in Directions => Left
  BY <1>16, <1>18, <1>19
<1>22. Renders(r, s)
  BY <1>12, <1>13, <1>14, <1>15, <1>17, <1>18, <1>20, <1>21 DEF Renders
<1> QED
  BY <1>8, <1>22 DEF r, s, t

-----------------------------------------------------------------------------
(* The stages of a message *)

\* What each stage has made of the reply.
StageInv ==
    /\ reply \in Replies
    /\ stage = "answered" => items = CleanItems(reply.items)
    /\ stage \in {"filtered", "stored"} => items = Kept(reply.items)
    /\ rows = IF stage = "stored" THEN [symbol \in GroupedSymbols(items) |-> RowsOf(items, symbol)]
                                  ELSE <<>>

LEMMA StageNext ==
    ASSUME StageInv, [IntakeNext]_intake
    PROVE  StageInv'
<1>1. CASE UNCHANGED intake
  BY <1>1 DEF intake, StageInv
<1>2. CASE ParseFails \/ ParseNothing
  BY <1>2 DEF ParseFails, ParseNothing, StageInv
<1>3. CASE ParseItems
  BY <1>3 DEF ParseItems, StageInv
<1>4. CASE Filter
  BY <1>4 DEF Filter, StageInv, Kept
<1>5. CASE Insert
  BY <1>5 DEF Insert, StageInv
<1> QED
  BY <1>1, <1>2, <1>3, <1>4, <1>5 DEF IntakeNext

LEMMA ReplyType ==
    ASSUME StageInv
    PROVE  reply.items \in Seq(RawItem)
  BY ReplyAssumption DEF StageInv

\* The symbols of the rows are those of tracked coins that have a usable scenario.
LEMMA GroupedSymbolsAre ==
    ASSUME NEW list, NEW symbol
    PROVE  symbol \in GroupedSymbols(list) <=> UsableOf(list, symbol) # {}
  BY DEF GroupedSymbols, UsableOf

\* final-store stores no coin that is not tracked.
LEMMA GroupedAreTracked ==
    ASSUME NEW raw \in Seq(RawItem), NEW symbol \in GroupedSymbols(Kept(raw))
    PROVE  symbol \in Tracked
<1> DEFINE C == CleanItems(raw)
           E == {i \in 1 .. Len(C) : Upper(C[i].symbol) \in Tracked}
           T == Pick(C, E)
           V == {item \in {C[i] : i \in E} : Upper(item.symbol) \in Tracked}
<1>1. T = Kept(raw)
  BY DEF Kept, OfTracked
<1>2. Len(C) \in Nat
  <2> DEFINE clean == [i \in 1 .. Len(raw) |-> CleanItem(raw[i])]
             D == {i \in 1 .. Len(clean) : clean[i].scenarios # <<>>}
  <2>1. C = Pick(clean, D)
    BY DEF CleanItems
  <2>2. Len(clean) \in Nat /\ D \in SUBSET (1 .. Len(clean))
    OBVIOUS
  <2>3. \A i \in D : clean[i] \in {clean[k] : k \in D}
    OBVIOUS
  <2> HIDE DEF clean, D, C
  <2> QED
    BY <2>1, <2>2, <2>3, PickKeeps
<1>3. E \in SUBSET (1 .. Len(C)) /\ \A i \in E : C[i] \in V
  OBVIOUS
<1> HIDE DEF C, E
<1>4. \A i \in 1 .. Len(T) : T[i] \in V
  BY <1>2, <1>3, PickKeeps
<1>5. PICK at \in Places(T) : symbol = Upper(T[at[1]].symbol)
  BY <1>1 DEF GroupedSymbols
<1>6. at[1] \in 1 .. Len(T)
  BY PlacesAre
<1> QED
  BY <1>4, <1>5, <1>6

LEMMA StoredRows ==
    ASSUME StageInv, stage = "stored", NEW symbol \in Tracked
    PROVE  /\ symbol \in DOMAIN rows <=> Asked(symbol) # {}
           /\ symbol \in DOMAIN rows => rows[symbol] = RowsOf(Kept(reply.items), symbol)
           /\ Asked(symbol) = UsableOf(reply.items, symbol)
<1>1. Asked(symbol) = UsableOf(reply.items, symbol)
  BY DEF Asked, UsableOf
<1>2. /\ DOMAIN rows = GroupedSymbols(Kept(reply.items))
      /\ symbol \in DOMAIN rows => rows[symbol] = RowsOf(Kept(reply.items), symbol)
  BY DEF StageInv
<1>3. UsableOf(Kept(reply.items), symbol) = {} <=> UsableOf(reply.items, symbol) = {}
  BY ReplyType, RowsComeFrom
<1> QED
  BY <1>1, <1>2, <1>3, GroupedSymbolsAre

\* The number of a scenario of a coin is its place in the order of reading.
LEMMA NumberIsPlace ==
    ASSUME NEW symbol, NEW at \in Asked(symbol)
    PROVE  NumberOf(symbol, at) = Place(Asked(symbol), Reading(Asked(symbol)), at) + 1
<1> DEFINE A == Asked(symbol)
           B == {b \in A : b[1] < at[1] \/ (b[1] = at[1] /\ b[2] < at[2])}
           C == {b \in A : <<b, at>> \in Reading(A)}
<1>1. B = C
  BY DEF Reading
<1> QED
  BY <1>1 DEF NumberOf, Place

\* Every row that a reply can lead to is tradable.
LEMMA TradableOfStages ==
    ASSUME StageInv
    PROVE  TradableRows
<1> SUFFICES ASSUME NEW symbol \in DOMAIN rows, NEW k \in 1 .. Len(rows[symbol])
             PROVE  Tradable(rows[symbol][k])
  BY DEF TradableRows
<1>1. stage = "stored"
  BY DEF StageInv
<1>2. symbol \in Tracked
  BY <1>1, ReplyType, GroupedAreTracked DEF StageInv
<1> DEFINE raw == reply.items  A == UsableOf(raw, symbol)  out == RowsOf(Kept(raw), symbol)
<1>3. rows[symbol] = out /\ raw \in Seq(RawItem)
  BY <1>1, <1>2, ReplyType, StoredRows
<1>4. PICK y \in A : \E expire :
            out[k] = NormalizeScenario(Cleaned(raw[y[1]], y[2]), expire)
  <2> HIDE DEF raw
  <2> QED
    BY <1>2, <1>3, RowsComeFrom
<1>5. /\ raw[y[1]] \in RawItem /\ y[2] \in 1 .. Len(raw[y[1]].scenarios)
      /\ HasValidEntry(raw[y[1]].scenarios[y[2]])
  <2> HIDE DEF raw
  <2> QED
    BY <1>3, PlacesAre DEF UsableOf, ScenarioAt
<1> HIDE DEF raw
<1> QED
  BY <1>3, <1>4, <1>5, RowRenders

\* The rows of a coin are its usable scenarios, each at its place.
LEMMA AnalysedOfStages ==
    ASSUME StageInv
    PROVE  StoredAsAnalysed
<1> SUFFICES ASSUME stage = "stored", NEW symbol \in Tracked
             PROVE  /\ symbol \in DOMAIN rows <=> Asked(symbol) # {}
                    /\ Asked(symbol) # {} =>
                        /\ Len(rows[symbol]) = Cardinality(Asked(symbol))
                        /\ \A at \in Asked(symbol) :
                            Renders(rows[symbol][NumberOf(symbol, at)], ScenarioAt(reply.items, at))
  BY DEF StoredAsAnalysed
<1> DEFINE raw == reply.items  A == UsableOf(raw, symbol)  out == RowsOf(Kept(raw), symbol)
<1>1. /\ symbol \in DOMAIN rows <=> A # {}
      /\ A # {} => rows[symbol] = out
      /\ Asked(symbol) = A
  BY StoredRows
<1>2. raw \in Seq(RawItem)
  BY ReplyType
<1> HIDE DEF raw
<1>3. /\ Len(out) = Cardinality(A)
      /\ \A y \in A : \E expire : out[Place(A, Reading(A), y) + 1] =
                            NormalizeScenario(Cleaned(raw[y[1]], y[2]), expire)
  BY <1>2, RowsComeFrom
<1>4. ASSUME NEW at \in A
      PROVE  Renders(out[NumberOf(symbol, at)], ScenarioAt(raw, at))
  <2>1. NumberOf(symbol, at) = Place(A, Reading(A), at) + 1
    BY <1>1, NumberIsPlace
  <2>2. PICK expire : out[NumberOf(symbol, at)] =
                            NormalizeScenario(Cleaned(raw[at[1]], at[2]), expire)
    BY <1>3, <2>1
  <2>3. /\ raw[at[1]] \in RawItem /\ at[2] \in 1 .. Len(raw[at[1]].scenarios)
        /\ HasValidEntry(raw[at[1]].scenarios[at[2]])
    BY <1>2, PlacesAre DEF UsableOf, ScenarioAt
  <2> QED
    BY <2>2, <2>3, RowRenders DEF ScenarioAt
<1> QED
  BY <1>1, <1>3, <1>4 DEF raw
=============================================================================
